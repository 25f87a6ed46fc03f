------------------------------ MODULE MapProofs ------------------------------
(***************************************************************************)
(* What a decomposition map becomes, for all maps and sizes.               *)
(*                                                                         *)
(* Partition: read_decomp() hands out every item exactly once, for every   *)
(* number of items and of processes.                                       *)
(*                                                                         *)
(* Requests: dat2decomp and read_decomp() turn the map into requests that  *)
(* write every element once, in one row each and in ascending order.  The  *)
(* argument follows lists of requests that do not overlap (Apart) and the  *)
(* elements they cover (Covered) through every operation on them: merging, *)
(* sorting, picking out, cutting and joining lists.                        *)
(***************************************************************************)
EXTENDS Decomp, PrefixSums

-----------------------------------------------------------------------------
(* The partition.                                                          *)

\* Multiplication by a natural number is monotone.
LEMMA MultiplesGrow ==
  ASSUME NEW a \in Nat, NEW b \in Nat, NEW k \in Nat, a <= b
  PROVE  /\ a * k \in Nat
         /\ b * k \in Nat
         /\ a * k <= b * k
<1>1. b = a + (b - a) /\ b - a \in Nat
  OBVIOUS
<1>2. a * k \in Nat /\ b * k \in Nat /\ (b - a) * k \in Nat
  BY <1>1
<1>3. b * k = a * k + (b - a) * k
  BY <1>1, Z3
<1> QED
  BY <1>2, <1>3

\* The blocks of the partition in terms of quotient and remainder.
LEMMA PartBounds ==
  ASSUME NEW n \in Nat, NEW p \in Nat \ {0}, NEW r \in 0 .. p - 1
  PROVE  /\ PartStart(n, p, r) \in Nat
         /\ PartCount(n, p, r) \in Nat
<1>1. n \div p \in Nat /\ n % p \in 0 .. p - 1
  BY DivMod DEF Positive
<1>2. r * (n \div p) \in Nat
  BY <1>1
<1> QED
  BY <1>1, <1>2 DEF PartStart, PartCount

\* The blocks begin at 0, each begins where the one before it ends, and the
\* last one ends at n: proc_start and proc_count of read_decomp() leave no
\* process of the decomposition out.
THEOREM BlocksAdjoin ==
  ASSUME NEW n \in Nat, NEW p \in Nat \ {0}
  PROVE  /\ PartStart(n, p, 0) = 0
         /\ \A r \in 0 .. p - 2 :
              PartStart(n, p, r + 1) = PartStart(n, p, r) + PartCount(n, p, r)
         /\ PartStart(n, p, p - 1) + PartCount(n, p, p - 1) = n
<1> DEFINE k == n \div p
           m == n % p
<1>1. k \in Nat /\ m \in 0 .. p - 1 /\ n = p * k + m
  BY DivMod DEF Positive
<1> HIDE DEF k, m
<1>2. PartStart(n, p, 0) = 0
  <2>1. 0 * k = 0
    BY <1>1
  <2> QED
    BY <1>1, <2>1 DEF PartStart, k, m
<1>3. ASSUME NEW r \in 0 .. p - 2
      PROVE  PartStart(n, p, r + 1) = PartStart(n, p, r) + PartCount(n, p, r)
  <2>1. (r + 1) * k = r * k + k /\ r * k \in Nat
    BY <1>1, Z3
  <2>2. /\ PartStart(n, p, r + 1) = (r + 1) * k + (IF r + 1 < m THEN r + 1 ELSE m)
        /\ PartStart(n, p, r) = r * k + (IF r < m THEN r ELSE m)
        /\ PartCount(n, p, r) = k + (IF r < m THEN 1 ELSE 0)
    BY DEF PartStart, PartCount, k, m
  <2> QED
    BY <1>1, <2>1, <2>2
<1>4. PartStart(n, p, p - 1) + PartCount(n, p, p - 1) = n
  <2>1. (p - 1) * k = p * k - k /\ p * k \in Nat
    BY <1>1, Z3
  <2>2. /\ PartStart(n, p, p - 1) = (p - 1) * k + (IF p - 1 < m THEN p - 1 ELSE m)
        /\ PartCount(n, p, p - 1) = k + (IF p - 1 < m THEN 1 ELSE 0)
    BY DEF PartStart, PartCount, k, m
  <2> QED
    BY <1>1, <2>1, <2>2
<1> QED
  BY <1>2, <1>3, <1>4

\* Two blocks never overlap: no two ranks of read_decomp() carry out the
\* requests of the same process.
THEOREM BlocksDisjoint ==
  ASSUME NEW n \in Nat, NEW p \in Nat \ {0},
         NEW q \in 0 .. p - 1, NEW r \in 0 .. p - 1, q < r
  PROVE  /\ PartStart(n, p, q) + PartCount(n, p, q) <= PartStart(n, p, r)
         /\ Part(n, p, q) \cap Part(n, p, r) = {}
<1> DEFINE k == n \div p
           m == n % p
<1>1. k \in Nat /\ m \in 0 .. p - 1
  BY DivMod DEF Positive
<1> HIDE DEF k, m
<1>2. (q + 1) * k <= r * k /\ r * k \in Nat
  BY <1>1, MultiplesGrow
<1>3. (q + 1) * k = q * k + k /\ q * k \in Nat
  BY <1>1, Z3
<1>4. /\ PartStart(n, p, q) = q * k + (IF q < m THEN q ELSE m)
      /\ PartCount(n, p, q) = k + (IF q < m THEN 1 ELSE 0)
      /\ PartStart(n, p, r) = r * k + (IF r < m THEN r ELSE m)
  BY DEF PartStart, PartCount, k, m
<1>5. PartStart(n, p, q) + PartCount(n, p, q) <= PartStart(n, p, r)
  BY <1>1, <1>2, <1>3, <1>4
<1> QED
  BY <1>5, PartBounds DEF Part

\* Every item is in a block: every process of the decomposition has a rank
\* that carries out its requests.
THEOREM BlocksCover ==
  ASSUME NEW n \in Nat, NEW p \in Nat \ {0}, NEW d \in 0 .. n - 1
  PROVE  \E r \in 0 .. p - 1 : d \in Part(n, p, r)
<1> DEFINE k == n \div p
           m == n % p
<1>1. k \in Nat /\ m \in 0 .. p - 1 /\ n = p * k + m
  BY DivMod DEF Positive
<1> HIDE DEF k, m
<1>2. CASE d < m * (k + 1)
  <2> DEFINE r == d \div (k + 1)
             e == d % (k + 1)
  <2>1. r \in Nat /\ e \in 0 .. k /\ d = (k + 1) * r + e
    <3>1. d \in Nat /\ k + 1 \in Nat \ {0} /\ (k + 1) - 1 = k
      BY <1>1
    <3>2. /\ d \div (k + 1) \in Nat
          /\ d % (k + 1) \in 0 .. (k + 1) - 1
          /\ d = (k + 1) * (d \div (k + 1)) + (d % (k + 1))
      BY <3>1, DivMod DEF Positive
    <3> QED
      BY <3>1, <3>2
  <2> HIDE DEF r, e
  <2>2. r < m
    <3>1. SUFFICES ASSUME m <= r PROVE FALSE
      BY <1>1, <2>1
    <3>2. m * (k + 1) <= r * (k + 1)
      BY <1>1, <2>1, <3>1, MultiplesGrow
    <3>3. (k + 1) * r = r * (k + 1) /\ r * (k + 1) \in Nat /\ m * (k + 1) \in Nat
      BY <1>1, <2>1, Z3
    <3> QED
      BY <1>1, <1>2, <2>1, <3>2, <3>3
  <2>3. (k + 1) * r = r * k + r /\ r * k \in Nat
    BY <1>1, <2>1, Z3
  <2>4. PartStart(n, p, r) = r * k + r /\ PartCount(n, p, r) = k + 1
    BY <2>2 DEF PartStart, PartCount, k, m
  <2>5. r \in 0 .. p - 1 /\ d \in Part(n, p, r)
    BY <1>1, <2>1, <2>2, <2>3, <2>4 DEF Part
  <2> QED
    BY <2>5
<1>3. CASE ~(d < m * (k + 1))
  <2>0. m * (k + 1) = m * k + m /\ m * k \in Nat
    BY <1>1, Z3
  <2>1. k # 0
    <3>1. SUFFICES ASSUME k = 0 PROVE FALSE
      OBVIOUS
    <3>2. p * k = 0 /\ m * k = 0
      BY <1>1, <3>1
    <3> QED
      BY <1>1, <1>3, <2>0, <3>2
  <2> DEFINE r == (d - m) \div k
             e == (d - m) % k
  <2>2. d - m \in Nat
    BY <1>1, <1>3, <2>0
  <2>3. r \in Nat /\ e \in 0 .. k - 1 /\ d - m = k * r + e
    BY <1>1, <2>1, <2>2, DivMod DEF Positive
  <2> HIDE DEF r, e
  <2>4. k * r = r * k /\ r * k \in Nat
    BY <1>1, <2>3, Z3
  <2>5. ~(r < m)
    <3>1. SUFFICES ASSUME r + 1 <= m PROVE FALSE
      BY <1>1, <2>3
    <3>2. (r + 1) * k <= m * k
      BY <1>1, <2>3, <3>1, MultiplesGrow
    <3>3. (r + 1) * k = r * k + k
      BY <1>1, <2>3, Z3
    <3> QED
      BY <1>1, <1>3, <2>0, <2>3, <2>4, <3>2, <3>3
  <2>6. r < p
    <3>1. SUFFICES ASSUME p <= r PROVE FALSE
      BY <1>1, <2>3
    <3>2. p * k <= r * k /\ p * k \in Nat
      BY <1>1, <2>3, <3>1, MultiplesGrow
    <3> QED
      BY <1>1, <2>3, <2>4, <3>2
  <2>7. PartStart(n, p, r) = r * k + m /\ PartCount(n, p, r) = k
    <3>1. PartStart(n, p, r) = r * k + m
      BY <2>5 DEF PartStart, k, m
    <3>2. PartCount(n, p, r) = k + 0
      BY <2>5 DEF PartCount, k, m
    <3> QED
      BY <1>1, <3>1, <3>2
  <2>8. r \in 0 .. p - 1 /\ d \in Part(n, p, r)
    BY <1>1, <2>3, <2>4, <2>6, <2>7 DEF Part
  <2> QED
    BY <2>8
<1> QED
  BY <1>2, <1>3

-----------------------------------------------------------------------------
(* Sequences.                                                              *)

\* A function on 1 .. n is a sequence.
LEMMA FunctionIsSeq ==
  ASSUME NEW S, NEW n \in Nat, NEW f \in [1 .. n -> S]
  PROVE  f \in Seq(S) /\ Len(f) = n /\ DOMAIN f = 1 .. n
<1>1. f \in Seq(S)
  BY SeqDef
<1>2. DOMAIN f = 1 .. n
  OBVIOUS
<1> QED
  BY <1>1, <1>2, LenProperties

\* A sequence over a set is one over a larger set.
LEMMA SeqWider ==
  ASSUME NEW S, NEW T, S \subseteq T, NEW s \in Seq(S)
  PROVE  s \in Seq(T)
<1>1. Len(s) \in Nat /\ s \in [1 .. Len(s) -> S]
  OBVIOUS
<1>2. s \in [1 .. Len(s) -> T]
  BY <1>1
<1> QED
  BY <1>1, <1>2, FunctionIsSeq

-----------------------------------------------------------------------------
(* Merging, step by step.                                                  *)

Piece == [off : Nat, len : Nat \ {0}]

End(q)   == q.off + q.len
InRow(q) == (q.off % DimX) + q.len <= DimX

Extended(m, q) == [m EXCEPT ![Len(m)] = Req(@.off, @.len + q.len)]

\* One step, with the pairs of requests that join.
MergeStep(m, q, J) ==
  IF m # <<>> /\ <<m[Len(m)], q>> \in J THEN Extended(m, q) ELSE Append(m, q)

IsMerging(g, s, J) ==
  /\ g \in [0 .. Len(s) -> Seq(Piece)]
  /\ g[0] = <<>>
  /\ \A i \in 1 .. Len(s) : g[i] = MergeStep(g[i - 1], s[i], J)

\* The last request grows by the one that joins it.
LEMMA ExtendedType ==
  ASSUME NEW m \in Seq(Piece), m # <<>>, NEW q \in Piece
  PROVE  /\ Extended(m, q) \in Seq(Piece)
         /\ Len(Extended(m, q)) = Len(m)
         /\ Len(m) \in Nat \ {0}
         /\ \A i \in 1 .. Len(m) - 1 : Extended(m, q)[i] = m[i]
         /\ Extended(m, q)[Len(m)].off = m[Len(m)].off
         /\ Extended(m, q)[Len(m)].len = m[Len(m)].len + q.len
<1> DEFINE n == Len(m)
<1>1. n \in Nat \ {0} /\ m \in [1 .. n -> Piece] /\ DOMAIN m = 1 .. n
  <2>1. n \in Nat /\ m \in [1 .. n -> Piece] /\ DOMAIN m = 1 .. n
    OBVIOUS
  <2>2. n # 0
    OBVIOUS
  <2> QED
    BY <2>1, <2>2
<1>2. Extended(m, q) = [m EXCEPT ![n] = Req(m[n].off, m[n].len + q.len)]
  BY DEF Extended
<1> HIDE DEF n
<1>3. n \in 1 .. n
  BY <1>1
<1>4. Req(m[n].off, m[n].len + q.len) \in Piece
  <2>1. m[n] \in Piece
    BY <1>1, <1>3
  <2> QED
    BY <2>1 DEF Piece, Req
<1>5. Extended(m, q) \in [1 .. n -> Piece]
  BY <1>1, <1>2, <1>4
<1>6. Extended(m, q) \in Seq(Piece) /\ Len(Extended(m, q)) = n
  BY <1>1, <1>5, FunctionIsSeq
<1>7. /\ \A i \in 1 .. n - 1 : Extended(m, q)[i] = m[i]
      /\ Extended(m, q)[n] = Req(m[n].off, m[n].len + q.len)
  BY <1>1, <1>2, <1>3
<1> QED
  BY <1>1, <1>6, <1>7 DEF n, Req

\* A step makes requests of requests.
LEMMA MergeStepType ==
  ASSUME NEW m \in Seq(Piece), NEW q \in Piece, NEW J
  PROVE  MergeStep(m, q, J) \in Seq(Piece)
<1>1. CASE m # <<>> /\ <<m[Len(m)], q>> \in J
  BY <1>1, ExtendedType DEF MergeStep
<1>2. CASE ~(m # <<>> /\ <<m[Len(m)], q>> \in J)
  <2>1. MergeStep(m, q, J) = Append(m, q)
    BY <1>2 DEF MergeStep
  <2> QED
    BY <2>1
<1> QED
  BY <1>1, <1>2

\* The steps exist.
LEMMA MergingExists ==
  ASSUME NEW s \in Seq(Piece), NEW J
  PROVE  \E g : IsMerging(g, s, J)
<1> DEFINE n == Len(s)
           F == [x \in (1 .. n) \X Seq(Piece) |-> MergeStep(x[2], s[x[1]], J)]
<1>1. n \in Nat /\ \A i \in 1 .. n : s[i] \in Piece
  OBVIOUS
<1>2. F \in [(1 .. n) \X Seq(Piece) -> Seq(Piece)]
  BY <1>1, MergeStepType
<1>3. \A i \in 1 .. n : \A x \in Seq(Piece) : F[<<i, x>>] = MergeStep(x, s[i], J)
  OBVIOUS
<1> HIDE DEF F
<1>4. PICK g : IsRecursion(g, <<>>, F, Seq(Piece), n)
  <2>1. <<>> \in Seq(Piece)
    OBVIOUS
  <2> QED
    BY <1>1, <1>2, <2>1, RecursionExists
<1>5. \A i \in 1 .. n : g[i] = MergeStep(g[i - 1], s[i], J)
  <2> TAKE i \in 1 .. n
  <2>1. g[i - 1] \in Seq(Piece)
    BY <1>4 DEF IsRecursion
  <2>2. g[i] = F[<<i, g[i - 1]>>]
    BY <1>4 DEF IsRecursion
  <2> QED
    BY <1>3, <2>1, <2>2
<1>6. IsMerging(g, s, J)
  BY <1>4, <1>5 DEF IsMerging, IsRecursion
<1> QED
  BY <1>6

PairsOf(exact) == {x \in Piece \X Piece : Fits(exact, x[1], x[2])}

\* Merged() takes these steps.
LEMMA MergedMerging ==
  ASSUME NEW s \in Seq(Piece), NEW exact
  PROVE  \E g : IsMerging(g, s, PairsOf(exact)) /\ Merged(exact, s) = g[Len(s)]
<1> DEFINE n == Len(s)
           F(f) == [i \in 0 .. n |->
                      IF i = 0 THEN <<>>
                      ELSE LET m == f[i - 1]
                           IN  IF m # <<>> /\ Fits(exact, m[Len(m)], s[i])
                               THEN [m EXCEPT ![Len(m)] = Req(@.off, @.len + s[i].len)]
                               ELSE Append(m, s[i])]
           merged == CHOOSE f : f = F(f)
<1>1. PICK g : IsMerging(g, s, PairsOf(exact))
  BY MergingExists
<1>2. n \in Nat /\ \A i \in 1 .. n : s[i] \in Piece
  OBVIOUS
<1>3. Merged(exact, s) = merged[n]
  BY DEF Merged
<1>4. \A f : \A i \in 0 .. n :
        F(f)[i] = IF i = 0 THEN <<>>
                  ELSE IF f[i - 1] # <<>> /\ Fits(exact, f[i - 1][Len(f[i - 1])], s[i])
                       THEN Extended(f[i - 1], s[i]) ELSE Append(f[i - 1], s[i])
  BY DEF Extended
<1>5. g = F(g)
  <2>1. ASSUME NEW i \in 1 .. n
        PROVE  g[i] = IF g[i - 1] # <<>> /\ Fits(exact, g[i - 1][Len(g[i - 1])], s[i])
                      THEN Extended(g[i - 1], s[i]) ELSE Append(g[i - 1], s[i])
    <3>1. g[i - 1] \in Seq(Piece) /\ s[i] \in Piece
      BY <1>1, <1>2 DEF IsMerging
    <3>2. g[i] = MergeStep(g[i - 1], s[i], PairsOf(exact))
      BY <1>1 DEF IsMerging
    <3>3. g[i - 1] # <<>> => g[i - 1][Len(g[i - 1])] \in Piece
      BY <3>1
    <3> QED
      BY <3>1, <3>2, <3>3 DEF MergeStep, PairsOf
  <2>2. g[0] = <<>> /\ g \in [0 .. n -> Seq(Piece)]
    BY <1>1 DEF IsMerging
  <2>3. \A i \in 0 .. n : g[i] = F(g)[i]
    <3> TAKE i \in 0 .. n
    <3> HIDE DEF F
    <3>1. CASE i = 0
      BY <1>4, <2>2, <3>1
    <3>2. CASE i # 0
      <4>1. i \in 1 .. n
        BY <3>2
      <4> QED
        BY <1>4, <2>1, <3>2, <4>1
    <3> QED
      BY <3>1, <3>2
  <2>4. F(g) = [i \in 0 .. n |-> F(g)[i]]
    OBVIOUS
  <2> HIDE DEF F
  <2> QED
    BY <2>2, <2>3, <2>4
<1>6. merged = F(merged)
  BY <1>5
<1> HIDE DEF merged, F
<1>7. ASSUME NEW i \in 0 .. n
      PROVE  merged[i] = IF i = 0 THEN <<>>
                         ELSE IF merged[i - 1] # <<>> /\ Fits(exact, merged[i - 1][Len(merged[i - 1])], s[i])
                              THEN Extended(merged[i - 1], s[i]) ELSE Append(merged[i - 1], s[i])
  BY ONLY <1>4, <1>6, i \in 0 .. n
<1>8. merged[0] = <<>>
  BY <1>2, <1>7
<1> DEFINE D == {k \in Nat : k <= n => merged[k] = g[k]}
<1>9. 0 \in D
  BY <1>1, <1>8 DEF IsMerging
<1>10. ASSUME NEW k \in Nat, k \in D PROVE k + 1 \in D
  <2>1. SUFFICES ASSUME k + 1 <= n PROVE merged[k + 1] = g[k + 1]
    OBVIOUS
  <2>2. k + 1 \in 1 .. n /\ k + 1 \in 0 .. n /\ (k + 1) - 1 = k /\ merged[k] = g[k] /\ k + 1 # 0
    BY <1>10, <2>1
  <2>3. g[k] \in Seq(Piece) /\ s[k + 1] \in Piece
    BY <1>1, <1>2, <2>2 DEF IsMerging
  <2>4. g[k + 1] = MergeStep(g[k], s[k + 1], PairsOf(exact))
    BY <1>1, <2>2 DEF IsMerging
  <2>5. g[k] # <<>> => g[k][Len(g[k])] \in Piece
    BY <2>3
  <2>6. merged[k + 1] = IF g[k] # <<>> /\ Fits(exact, g[k][Len(g[k])], s[k + 1])
                        THEN Extended(g[k], s[k + 1]) ELSE Append(g[k], s[k + 1])
    BY <1>7, <2>2
  <2> QED
    BY <2>3, <2>4, <2>5, <2>6 DEF MergeStep, PairsOf
<1>11. \A k \in Nat : k \in D
  <2> HIDE DEF D
  <2> QED
    BY <1>9, <1>10, SetInduction
<1> QED
  BY <1>1, <1>2, <1>3, <1>11

-----------------------------------------------------------------------------
(* Requests that do not overlap and stay in one row each, and the elements *)
(* they cover.                                                             *)

Apart(s) ==
  /\ s \in Seq(Piece)
  /\ \A i \in 1 .. Len(s) : InRow(s[i])
  /\ \A i, j \in 1 .. Len(s) : i # j => Elements(s[i]) \cap Elements(s[j]) = {}

Covered(s) == UNION {Elements(s[i]) : i \in 1 .. Len(s)}

\* One more request.
LEMMA AppendApart ==
  ASSUME NEW m, Apart(m), NEW q \in Piece, InRow(q), Elements(q) \cap Covered(m) = {}
  PROVE  /\ Apart(Append(m, q))
         /\ Covered(Append(m, q)) = Covered(m) \cup Elements(q)
         /\ Len(Append(m, q)) = Len(m) + 1
         /\ Append(m, q)[Len(m) + 1] = q
         /\ \A i \in 1 .. Len(m) : Append(m, q)[i] = m[i]
<1> DEFINE n == Len(m)
           t == Append(m, q)
<1>1. m \in Seq(Piece) /\ n \in Nat
  BY DEF Apart
<1>2. t \in Seq(Piece) /\ Len(t) = n + 1 /\ t[n + 1] = q /\ \A i \in 1 .. n : t[i] = m[i]
  BY <1>1
<1> HIDE DEF t
<1>3. \A i \in 1 .. n + 1 : InRow(t[i])
  <2> TAKE i \in 1 .. n + 1
  <2>1. i \in 1 .. n \/ i = n + 1
    BY <1>1
  <2> QED
    BY <1>2, <2>1 DEF Apart
<1>4. \A i \in 1 .. n : Elements(t[i]) \cap Elements(q) = {} /\ Elements(t[i]) = Elements(m[i])
  BY <1>2 DEF Covered
<1>5. ASSUME NEW i \in 1 .. n + 1, NEW j \in 1 .. n + 1, i # j
      PROVE  Elements(t[i]) \cap Elements(t[j]) = {}
  <2>1. (i \in 1 .. n \/ i = n + 1) /\ (j \in 1 .. n \/ j = n + 1)
    BY <1>1
  <2>2. CASE i \in 1 .. n /\ j \in 1 .. n
    BY <1>4, <1>5, <2>2 DEF Apart
  <2>3. CASE i \in 1 .. n /\ j = n + 1
    BY <1>2, <1>4, <2>3
  <2>4. CASE i = n + 1 /\ j \in 1 .. n
    <3>1. Elements(t[j]) \cap Elements(q) = {} /\ t[i] = q
      BY <1>2, <1>4, <2>4
    <3> QED
      BY <3>1
  <2> QED
    BY <1>5, <2>1, <2>2, <2>3, <2>4
<1>6. Covered(t) = Covered(m) \cup Elements(q)
  <2>1. Covered(t) = UNION {Elements(t[i]) : i \in 1 .. n + 1}
    BY <1>2 DEF Covered
  <2>2. 1 .. n + 1 = (1 .. n) \cup {n + 1}
    BY <1>1
  <2> QED
    BY <1>2, <1>4, <2>1, <2>2 DEF Covered
<1> QED
  BY <1>2, <1>3, <1>5, <1>6 DEF Apart, t

\* A request that begins where the last one ends, but not where a row does.
LEMMA ExtendApart ==
  ASSUME NEW m, Apart(m), m # <<>>, NEW q \in Piece, InRow(q),
         Elements(q) \cap Covered(m) = {}, q.off = End(m[Len(m)]), q.off % DimX # 0
  PROVE  /\ Apart(Extended(m, q))
         /\ Covered(Extended(m, q)) = Covered(m) \cup Elements(q)
         /\ End(Extended(m, q)[Len(m)]) = End(q)
<1> DEFINE n == Len(m)
           t == Extended(m, q)
           x == m[n]
<1>1. m \in Seq(Piece)
  BY DEF Apart
<1>2. /\ t \in Seq(Piece) /\ Len(t) = n /\ n \in Nat \ {0} /\ \A i \in 1 .. n - 1 : t[i] = m[i]
      /\ t[n].off = x.off /\ t[n].len = x.len + q.len
  BY <1>1, ExtendedType
<1>3. x \in Piece /\ n \in 1 .. n
  BY <1>1, <1>2
<1> HIDE DEF t
<1>4. /\ x.off \in Nat /\ x.len \in Nat \ {0} /\ q.off \in Nat /\ q.len \in Nat \ {0}
      /\ q.off = x.off + x.len
  BY <1>3 DEF Piece, End
<1>5. DimX \in Positive /\ DimX \in Nat
  BY DecompAssumption DEF Positive
<1>6. InRow(t[n])
  <2>1. InRow(x)
    BY <1>3 DEF Apart
  <2> HIDE DEF x
  <2> DEFINE a == x.off \div DimX
             b == x.off % DimX
  <2>2. a \in Nat /\ b \in 0 .. DimX - 1 /\ x.off = DimX * a + b
    BY <1>4, <1>5, DivMod
  <2>3. b + x.len <= DimX
    BY <2>1 DEF InRow
  <2> HIDE DEF a, b
  <2>4. DimX * a \in Nat
    BY <1>5, <2>2
  <2>5. q.off = DimX * a + (b + x.len)
    BY <1>4, <1>5, <2>2, <2>4
  <2>6. b + x.len # DimX
    <3>1. SUFFICES ASSUME b + x.len = DimX PROVE FALSE
      OBVIOUS
    <3>2. DimX * (a + 1) = DimX * a + DimX
      BY <1>5, <2>2, Z3
    <3>3. q.off = DimX * (a + 1) + 0 /\ a + 1 \in Nat /\ 0 \in 0 .. DimX - 1
      BY <1>5, <2>2, <2>4, <2>5, <3>1, <3>2
    <3>4. q.off % DimX = 0
      BY <1>4, <1>5, <3>3, DivUnique
    <3> QED
      BY <3>4
  <2>7. b + x.len \in 0 .. DimX - 1
    <3>1. b + x.len \in Nat
      BY <1>4, <2>2
    <3> QED
      BY ONLY <1>5, <2>3, <2>6, <3>1
  <2>8. q.off % DimX = b + x.len
    BY ONLY <1>4, <1>5, <2>2, <2>5, <2>7, DivUnique
  <2>9. (b + x.len) + q.len <= DimX
    BY <2>8 DEF InRow
  <2>10. b + (x.len + q.len) <= DimX
    BY <1>4, <1>5, <2>2, <2>9
  <2> QED
    BY <1>2, <2>10 DEF InRow, b, x
<1>7. Elements(t[n]) = Elements(x) \cup Elements(q)
  <2>1. Elements(t[n]) = x.off .. x.off + (x.len + q.len) - 1
    BY <1>2 DEF Elements
  <2>2. Elements(x) = x.off .. x.off + x.len - 1 /\ Elements(q) = q.off .. q.off + q.len - 1
    BY DEF Elements
  <2>3. x.off \in Nat /\ x.len \in Nat /\ q.off \in Nat /\ q.len \in Nat /\ q.off = x.off + x.len
    BY <1>4
  <2> HIDE DEF x
  <2>4. ASSUME NEW e
        PROVE  e \in x.off .. x.off + (x.len + q.len) - 1
                 <=> e \in x.off .. x.off + x.len - 1 \/ e \in q.off .. q.off + q.len - 1
    BY ONLY <2>3
  <2> QED
    BY ONLY <2>1, <2>2, <2>4
<1>8. End(t[n]) = End(q)
  <2> HIDE DEF x
  <2> QED
    BY <1>2, <1>4 DEF End
<1>9. Elements(x) \subseteq Covered(m)
  BY <1>3 DEF Covered
<1>10. \A i \in 1 .. n - 1 : i \in 1 .. n /\ i # n /\ t[i] = m[i]
  BY <1>2
<1>11. \A i \in 1 .. n - 1 : /\ Elements(t[i]) \cap Elements(t[n]) = {}
                             /\ Elements(t[i]) \subseteq Covered(m)
  <2> TAKE i \in 1 .. n - 1
  <2>1. i \in 1 .. n /\ i # n /\ t[i] = m[i]
    BY <1>10
  <2>2. Elements(m[i]) \cap Elements(x) = {}
    BY <1>3, <2>1 DEF Apart
  <2>3. Elements(m[i]) \subseteq Covered(m)
    BY <2>1 DEF Covered
  <2> QED
    BY <1>7, <2>1, <2>2, <2>3
<1>12. \A i \in 1 .. n : i \in 1 .. n - 1 \/ i = n
  BY <1>2
<1>13. \A i \in 1 .. n : InRow(t[i])
  BY <1>6, <1>10, <1>12 DEF Apart
<1>14. ASSUME NEW i \in 1 .. n, NEW j \in 1 .. n, i # j
       PROVE  Elements(t[i]) \cap Elements(t[j]) = {}
  <2>1. CASE i = n
    <3>1. Elements(t[j]) \cap Elements(t[n]) = {}
      BY <1>11, <1>12, <1>14, <2>1
    <3> QED
      BY <2>1, <3>1
  <2>2. CASE j = n
    BY <1>11, <1>12, <1>14, <2>2
  <2>3. CASE i # n /\ j # n
    <3>1. t[i] = m[i] /\ t[j] = m[j]
      BY <1>10, <1>12, <2>3
    <3> QED
      BY <1>14, <3>1 DEF Apart
  <2> QED
    BY <2>1, <2>2, <2>3
<1>15. Covered(t) = Covered(m) \cup Elements(q)
  <2>1. ASSUME NEW e PROVE e \in Covered(t) <=> e \in Covered(m) \cup Elements(q)
    <3>1. ASSUME e \in Covered(t) PROVE e \in Covered(m) \cup Elements(q)
      <4>1. PICK i \in 1 .. n : e \in Elements(t[i])
        BY <1>2, <3>1 DEF Covered
      <4>2. CASE i = n
        BY <1>7, <1>9, <4>1, <4>2
      <4>3. CASE i # n
        BY <1>11, <1>12, <4>1, <4>3
      <4> QED
        BY <4>2, <4>3
    <3>2. ASSUME e \in Covered(m) PROVE e \in Covered(t)
      <4>1. PICK i \in 1 .. n : e \in Elements(m[i])
        BY <3>2 DEF Covered
      <4>2. e \in Elements(t[i])
        <5>1. CASE i = n
          BY <1>7, <4>1, <5>1
        <5>2. CASE i # n
          BY <1>10, <1>12, <4>1, <5>2
        <5> QED
          BY <5>1, <5>2
      <4> QED
        BY <1>2, <4>2 DEF Covered
    <3>3. ASSUME e \in Elements(q) PROVE e \in Covered(t)
      BY <1>2, <1>3, <1>7, <3>3 DEF Covered
    <3> QED
      BY <3>1, <3>2, <3>3
  <2> QED
    BY <2>1
<1> QED
  BY <1>2, <1>8, <1>13, <1>14, <1>15 DEF Apart, t

\* The elements of the first requests.
CoveredTo(s, n) == UNION {Elements(s[i]) : i \in 1 .. n}

\* Whatever joins begins where the request before it ends, but not where a
\* row does.  Then merging keeps the elements, once each, and the rows apart.
JoinsAdjoining(s, J) ==
  \A n \in 2 .. Len(s) : \A q \in Piece :
    <<q, s[n]>> \in J /\ End(q) = End(s[n - 1]) => s[n].off = End(q) /\ s[n].off % DimX # 0

\* What has become of the first n requests.
MergedSoFar(m, s, n) ==
  /\ Apart(m)
  /\ Covered(m) = CoveredTo(s, n)
  /\ m = <<>> <=> n = 0
  /\ n > 0 => End(m[Len(m)]) = End(s[n])

\* Merging keeps it so, step by step.
LEMMA MergingApart ==
  ASSUME NEW s, Apart(s), NEW J, JoinsAdjoining(s, J), NEW g, IsMerging(g, s, J),
         NEW n \in 0 .. Len(s)
  PROVE  MergedSoFar(g[n], s, n)
<1>1. /\ s \in Seq(Piece) /\ Len(s) \in Nat /\ \A i \in 1 .. Len(s) : s[i] \in Piece
  BY DEF Apart
<1> DEFINE D == {k \in Nat : k <= Len(s) => MergedSoFar(g[k], s, k)}
<1>2. 0 \in D
  <2>1. g[0] = <<>>
    BY DEF IsMerging
  <2>2. Apart(<<>>)
    BY DEF Apart
  <2>3. Covered(<<>>) = {} /\ CoveredTo(s, 0) = {}
    BY DEF Covered, CoveredTo
  <2>4. MergedSoFar(<<>>, s, 0)
    <3>1. ~(0 > 0)
      OBVIOUS
    <3> QED
      BY <2>2, <2>3, <3>1, Zenon DEF MergedSoFar
  <2> QED
    BY <2>1, <2>4
<1>3. ASSUME NEW k \in Nat, k \in D PROVE k + 1 \in D
  <2>1. SUFFICES ASSUME k + 1 <= Len(s) PROVE MergedSoFar(g[k + 1], s, k + 1)
    OBVIOUS
  <2> DEFINE m == g[k]
             q == s[k + 1]
             t == g[k + 1]
  <2>2. /\ k + 1 \in 1 .. Len(s) /\ (k + 1) - 1 = k /\ k \in 0 .. Len(s)
        /\ k > 0 => k \in 1 .. Len(s) /\ k + 1 \in 2 .. Len(s)
    BY <1>1, <2>1
  <2>3. /\ Apart(m) /\ Covered(m) = CoveredTo(s, k) /\ (m = <<>> <=> k = 0)
        /\ k > 0 => End(m[Len(m)]) = End(s[k])
    BY <1>3, <2>2 DEF MergedSoFar
  <2>4. t = MergeStep(m, q, J) /\ m \in Seq(Piece)
    BY <2>2 DEF IsMerging
  <2>5. q \in Piece /\ InRow(q)
    BY <1>1, <2>2 DEF Apart
  <2>6. Elements(q) \cap Covered(m) = {}
    <3>1. \A i \in 1 .. k : i \in 1 .. Len(s) /\ i # k + 1
      BY <2>2
    <3>2. \A i \in 1 .. k : Elements(s[i]) \cap Elements(q) = {}
      BY <2>2, <3>1 DEF Apart
    <3> QED
      BY <2>3, <3>2 DEF CoveredTo
  <2>7. CoveredTo(s, k + 1) = CoveredTo(s, k) \cup Elements(q)
    <3>1. 1 .. k + 1 = (1 .. k) \cup {k + 1}
      OBVIOUS
    <3> QED
      BY <3>1 DEF CoveredTo
  <2> HIDE DEF m, t
  <2>8. CASE m # <<>> /\ <<m[Len(m)], q>> \in J
    <3>1. k > 0 /\ End(m[Len(m)]) = End(s[k]) /\ m[Len(m)] \in Piece
      <4>1. Len(m) \in 1 .. Len(m)
        BY <2>4, <2>8
      <4>2. k > 0
        BY <2>3, <2>8
      <4> QED
        BY <2>3, <2>4, <4>1, <4>2
    <3>2. q.off = End(m[Len(m)]) /\ q.off % DimX # 0
      BY <2>2, <2>8, <3>1 DEF JoinsAdjoining
    <3>3. t = Extended(m, q)
      BY <2>4, <2>8 DEF MergeStep
    <3>4. /\ Apart(t) /\ Covered(t) = Covered(m) \cup Elements(q)
          /\ End(t[Len(m)]) = End(q)
      BY <2>3, <2>5, <2>6, <2>8, <3>2, <3>3, ExtendApart
    <3>5. Len(t) = Len(m) /\ Len(m) \in Nat \ {0}
      BY <2>4, <2>5, <2>8, <3>3, ExtendedType
    <3>6. t # <<>>
      <4>1. Len(<<>>) = 0
        OBVIOUS
      <4> QED
        BY <3>5, <4>1
    <3> QED
      BY <2>2, <2>3, <2>7, <3>4, <3>5, <3>6 DEF MergedSoFar, t
  <2>9. CASE ~(m # <<>> /\ <<m[Len(m)], q>> \in J)
    <3>1. t = Append(m, q)
      BY <2>4, <2>9 DEF MergeStep
    <3>2. /\ Apart(t) /\ Covered(t) = Covered(m) \cup Elements(q)
          /\ Len(t) = Len(m) + 1 /\ t[Len(m) + 1] = q
      BY <2>3, <2>5, <2>6, <3>1, AppendApart
    <3>3. t # <<>>
      BY <2>4, <3>1
    <3> QED
      BY <2>2, <2>3, <2>7, <3>2, <3>3 DEF MergedSoFar, t
  <2> QED
    BY <2>8, <2>9
<1>4. \A k \in Nat : k \in D
  <2> HIDE DEF D
  <2> QED
    BY <1>2, <1>3, SetInduction
<1>5. n \in Nat /\ n <= Len(s)
  BY <1>1
<1> QED
  BY <1>4, <1>5

\* Requests in ascending order, and no two of them that could be joined.
Ascends(s) == \A i, j \in 1 .. Len(s) : i < j => End(s[i]) <= s[j].off
Maximal(s) ==
  \A i, j \in 1 .. Len(s) :
    i < j => \/ End(s[i]) < s[j].off
             \/ End(s[i]) = s[j].off /\ s[j].off % DimX = 0

\* In ascending order, whatever joins adjoins.
LEMMA AscendingAdjoin ==
  ASSUME NEW s \in Seq(Piece), Ascends(s)
  PROVE  JoinsAdjoining(s, PairsOf(FALSE))
<1> SUFFICES ASSUME NEW n \in 2 .. Len(s), NEW q \in Piece,
                    <<q, s[n]>> \in PairsOf(FALSE), End(q) = End(s[n - 1])
             PROVE  s[n].off = End(q) /\ s[n].off % DimX # 0
  BY DEF JoinsAdjoining
<1>1. n - 1 \in 1 .. Len(s) /\ n \in 1 .. Len(s) /\ n - 1 < n
  OBVIOUS
<1>2. End(s[n - 1]) <= s[n].off
  BY <1>1 DEF Ascends
<1>3. s[n] \in Piece
  BY <1>1
<1>4. s[n].off \in Nat /\ End(q) \in Nat
  <2>1. s[n].off \in Nat /\ q.off \in Nat /\ q.len \in Nat
    BY <1>3 DEF Piece
  <2> QED
    BY <2>1 DEF End
<1>5. s[n].off % DimX # 0 /\ s[n].off <= End(q)
  BY DEF PairsOf, Fits, Joins, End
<1> QED
  BY <1>2, <1>4, <1>5

\* Merging of requests in ascending order leaves no two that could be joined.
LEMMA MergingMaximal ==
  ASSUME NEW s, Apart(s), Ascends(s), NEW g, IsMerging(g, s, PairsOf(FALSE)),
         NEW n \in 0 .. Len(s)
  PROVE  Maximal(g[n])
<1>1. /\ s \in Seq(Piece) /\ Len(s) \in Nat /\ \A i \in 1 .. Len(s) : s[i] \in Piece
  BY DEF Apart
<1>2. \A k \in 0 .. Len(s) : MergedSoFar(g[k], s, k)
  BY <1>1, AscendingAdjoin, MergingApart
<1> DEFINE D == {k \in Nat : k <= Len(s) => Maximal(g[k])}
<1>3. 0 \in D
  <2>1. g[0] = <<>>
    BY DEF IsMerging
  <2> QED
    BY <2>1 DEF Maximal
<1>4. ASSUME NEW k \in Nat, k \in D PROVE k + 1 \in D
  <2>1. SUFFICES ASSUME k + 1 <= Len(s) PROVE Maximal(g[k + 1])
    OBVIOUS
  <2> DEFINE m == g[k]
             q == s[k + 1]
             t == g[k + 1]
  <2>2. /\ k + 1 \in 1 .. Len(s) /\ (k + 1) - 1 = k /\ k \in 0 .. Len(s)
        /\ k > 0 => k \in 1 .. Len(s) /\ k < k + 1
    BY <1>1, <2>1
  <2>3. /\ Maximal(m) /\ (m = <<>> <=> k = 0)
        /\ k > 0 => End(m[Len(m)]) = End(s[k])
    BY <1>2, <1>4, <2>2 DEF MergedSoFar
  <2>4. t = MergeStep(m, q, PairsOf(FALSE)) /\ m \in Seq(Piece) /\ q \in Piece
    BY <1>1, <2>2 DEF IsMerging
  <2> DEFINE l == Len(m)
  <2>5. l \in Nat /\ (m # <<>> => l \in 1 .. l) /\ \A i \in 1 .. l : m[i] \in Piece
    BY <2>4
  <2>6. \A x \in Piece : x.off \in Nat /\ x.len \in Nat \ {0} /\ x.off < End(x) /\ End(x) \in Nat
    BY DEF Piece, End
  <2> HIDE DEF m, t, l
  <2>7. CASE m # <<>> /\ <<m[l], q>> \in PairsOf(FALSE)
    <3>1. t = Extended(m, q)
      BY <2>4, <2>7 DEF MergeStep, l
    <3>2. /\ Len(t) = l /\ \A i \in 1 .. l - 1 : t[i] = m[i]
          /\ t[l].off = m[l].off
      <4>1. m \in Seq(Piece) /\ m # <<>> /\ q \in Piece
        BY <2>4, <2>7
      <4> HIDE DEF q
      <4> QED
        BY ONLY <3>1, <4>1, ExtendedType DEF l
    <3>3. ASSUME NEW i \in 1 .. l, NEW j \in 1 .. l, i < j
          PROVE  End(t[i]) < t[j].off \/ (End(t[i]) = t[j].off /\ t[j].off % DimX = 0)
      <4>1. i \in 1 .. l - 1 /\ (j \in 1 .. l - 1 \/ j = l)
        BY <2>5, <3>3
      <4>2. t[i] = m[i] /\ t[j].off = m[j].off
        BY <3>2, <4>1
      <4> QED
        BY <2>3, <3>3, <4>2 DEF Maximal, l
    <3> QED
      BY <3>2, <3>3 DEF Maximal, t
  <2>8. CASE ~(m # <<>> /\ <<m[l], q>> \in PairsOf(FALSE))
    <3>1. t = Append(m, q)
      BY <2>4, <2>8 DEF MergeStep, l
    <3>2. Len(t) = l + 1 /\ t[l + 1] = q /\ \A i \in 1 .. l : t[i] = m[i]
      <4>1. m \in Seq(Piece) /\ q \in Piece
        BY <2>4
      <4> QED
        BY <3>1, <4>1, AppendProperties DEF l
    <3>3. ASSUME m # <<>>
          PROVE  End(m[l]) < q.off \/ (End(m[l]) = q.off /\ q.off % DimX = 0)
      <4>1. l \in 1 .. l /\ m[l] \in Piece /\ k > 0
        BY <2>3, <2>5, <3>3
      <4>2. End(m[l]) = End(s[k]) /\ End(s[k]) <= q.off
        BY <2>2, <2>3, <4>1 DEF Ascends, l
      <4>3. ~Joins(m[l], q)
        BY <2>4, <2>8, <3>3, <4>1 DEF PairsOf, Fits
      <4>4. q.off % DimX = 0 \/ ~(q.off <= End(m[l]))
        BY <4>3 DEF Joins, End
      <4>5. q.off \in Nat /\ End(m[l]) \in Nat
        BY <2>4, <2>6, <4>1
      <4> QED
        BY <4>2, <4>4, <4>5
    <3>4. ASSUME NEW i \in 1 .. l + 1, NEW j \in 1 .. l + 1, i < j
          PROVE  End(t[i]) < t[j].off \/ (End(t[i]) = t[j].off /\ t[j].off % DimX = 0)
      <4>1. i \in 1 .. l /\ (j \in 1 .. l \/ j = l + 1) /\ t[i] = m[i]
        BY <2>5, <3>2, <3>4
      <4>2. CASE j \in 1 .. l
        BY <2>3, <3>2, <3>4, <4>1, <4>2 DEF Maximal, l
      <4>3. CASE j = l + 1
        <5>1. t[j] = q /\ m # <<>>
          <6>1. l # 0
            BY <2>5, <4>1
          <6> QED
            BY <3>2, <4>3, <6>1 DEF l
        <5>2. CASE i = l
          BY <3>3, <4>1, <5>1, <5>2
        <5>3. CASE i # l
          <6>1. l \in 1 .. l /\ i < l /\ m[i] \in Piece /\ m[l] \in Piece
            BY <2>5, <4>1, <5>1, <5>3
          <6>2. End(m[i]) <= m[l].off
            <7>1. End(m[i]) < m[l].off \/ End(m[i]) = m[l].off
              BY <2>3, <4>1, <6>1 DEF Maximal, l
            <7> QED
              BY <2>6, <6>1, <7>1
          <6>3. m[l].off < End(m[l]) /\ End(m[l]) <= q.off
            <7>1. End(m[l]) < q.off \/ End(m[l]) = q.off
              BY <3>3, <5>1
            <7>2. End(m[l]) \in Nat /\ q.off \in Nat
              BY <2>4, <2>6, <6>1
            <7> QED
              BY <2>6, <6>1, <7>1, <7>2
          <6>4. End(m[i]) < q.off
            <7>1. End(m[i]) \in Nat /\ m[l].off \in Nat /\ End(m[l]) \in Nat /\ q.off \in Nat
              BY <2>4, <2>6, <6>1
            <7> QED
              BY ONLY <6>2, <6>3, <7>1
          <6> QED
            BY <4>1, <5>1, <6>4
        <5> QED
          BY <5>2, <5>3
      <4> QED
        BY <4>1, <4>2, <4>3
    <3> QED
      BY <3>2, <3>4 DEF Maximal, t
  <2> QED
    BY <2>7, <2>8
<1>5. \A k \in Nat : k \in D
  <2> HIDE DEF D
  <2> QED
    BY <1>3, <1>4, SetInduction
<1>6. n \in Nat /\ n <= Len(s)
  BY <1>1
<1> QED
  BY <1>5, <1>6

-----------------------------------------------------------------------------
(* Sorting.                                                                *)

\* z has the requests of s in the order f, by offset.
IsSortedBy(z, s, f) ==
  /\ z \in Seq(Piece)
  /\ Len(z) = Len(s)
  /\ f \in [1 .. Len(s) -> 1 .. Len(s)]
  /\ \A i, j \in 1 .. Len(s) : i # j => f[i] # f[j]
  /\ \A k \in 1 .. Len(s) : \E i \in 1 .. Len(s) : f[i] = k
  /\ \A k \in 1 .. Len(s) : z[k] = s[f[k]]
  /\ \A i, j \in 1 .. Len(s) : i < j => z[i].off <= z[j].off

\* Sorted() has the requests, each once, by offset.
LEMMA SortedPermutes ==
  ASSUME NEW s \in Seq(Piece)
  PROVE  \E f : IsSortedBy(Sorted(s), s, f)
<1> DEFINE n == Len(s)
           I == 1 .. n
           up(i) == {j \in I : s[j].off < s[i].off \/ (s[j].off = s[i].off /\ j <= i)}
           place == [i \in I |-> Cardinality(up(i))]
           off == [i \in I |-> s[i].off]
<1>1. /\ n \in Nat /\ DOMAIN s = I /\ I \subseteq Int /\ \A i \in I : s[i] \in Piece
      /\ off \in [I -> Nat] /\ \A i \in I : s[i].off = off[i]
  <2>1. n \in Nat /\ DOMAIN s = I /\ \A i \in I : s[i] \in Piece
    OBVIOUS
  <2> QED
    BY <2>1 DEF Piece
<1>2. IsFiniteSet(I) /\ Cardinality(I) = n
  <2>1. n \in Nat
    OBVIOUS
  <2> HIDE DEF n
  <2> QED
    BY ONLY <2>1, FS_Interval
<1>3. \A i \in I : up(i) = {j \in I : off[j] < off[i] \/ (off[j] = off[i] /\ j <= i)}
  BY <1>1
<1>4. \A i \in I : Place(s, i) = place[i]
  BY <1>1 DEF Place
<1>5. Sorted(s) = [k \in I |-> s[CHOOSE i \in I : place[i] = k]]
  <2> DEFINE c(k) == CHOOSE i \in DOMAIN s : Place(s, i) = k
             d(k) == CHOOSE i \in I : place[i] = k
  <2>1. \A k : c(k) = d(k)
    <3> HIDE DEF I, place
    <3> QED
      BY <1>1, <1>4
  <2>2. Sorted(s) = [k \in 1 .. Len(s) |-> s[c(k)]]
    BY DEF Sorted
  <2> HIDE DEF c, d, place
  <2>3. Sorted(s) = [k \in I |-> s[d(k)]]
    BY ONLY <2>1, <2>2
  <2> QED
    BY <2>3 DEF d
<1>6. \A i \in I : IsFiniteSet(up(i)) /\ Cardinality(up(i)) \in I
  <2> TAKE i \in I
  <2>1. up(i) \in SUBSET I /\ i \in up(i)
    BY <1>1
  <2> HIDE DEF up, I
  <2>2. IsFiniteSet(up(i)) /\ Cardinality(up(i)) <= n
    BY <1>2, <2>1, FS_Subset
  <2>3. Cardinality(up(i)) \in Nat /\ Cardinality(up(i)) # 0
    BY <2>1, <2>2, FS_CardinalityType, FS_EmptySet
  <2> QED
    BY <1>1, <2>2, <2>3 DEF I
<1>7. ASSUME NEW i \in I, NEW j \in I, off[i] < off[j] \/ (off[i] = off[j] /\ i < j)
      PROVE  place[i] < place[j]
  <2>1. up(i) \in SUBSET up(j) /\ j \in up(j) /\ j \notin up(i)
    <3>1. \A k \in I : off[k] \in Nat /\ k \in Int
      BY <1>1
    <3> HIDE DEF off, up, I
    <3>2. ASSUME NEW k \in up(i) PROVE k \in up(j)
      <4>1. k \in I /\ (off[k] < off[i] \/ (off[k] = off[i] /\ k <= i))
        BY <1>3, <3>2
      <4>2. off[k] < off[j] \/ (off[k] = off[j] /\ k <= j)
        BY <1>7, <3>1, <4>1
      <4> QED
        BY <1>3, <4>1, <4>2
    <3>3. j \in up(j)
      BY <1>3, <3>1
    <3>4. j \notin up(i)
      BY <1>3, <1>7, <3>1
    <3> QED
      BY <3>2, <3>3, <3>4
  <2>2. place[i] = Cardinality(up(i)) /\ place[j] = Cardinality(up(j))
    OBVIOUS
  <2> HIDE DEF up, place
  <2>3. Cardinality(up(i)) <= Cardinality(up(j)) /\ Cardinality(up(i)) # Cardinality(up(j))
    BY <1>6, <2>1, FS_Subset
  <2>4. Cardinality(up(i)) \in Int /\ Cardinality(up(j)) \in Int
    BY <1>6
  <2> QED
    BY <2>2, <2>3, <2>4
<1>8. place \in [I -> I]
  BY <1>6
<1> HIDE DEF place, up
<1>9. \A i, j \in I : place[i] = place[j] => i = j
  <2> SUFFICES ASSUME NEW i \in I, NEW j \in I, place[i] = place[j], i # j PROVE FALSE
    OBVIOUS
  <2>1. /\ off[i] \in Nat /\ off[j] \in Nat /\ i \in Int /\ j \in Int
        /\ place[i] \in Int /\ place[j] \in Int
    BY <1>1, <1>8
  <2> HIDE DEF off, I
  <2>2. \/ off[i] < off[j] \/ (off[i] = off[j] /\ i < j)
        \/ off[j] < off[i] \/ (off[j] = off[i] /\ j < i)
    BY <2>1
  <2>3. place[i] < place[j] \/ place[j] < place[i]
    BY <1>7, <2>2
  <2> QED
    BY <2>1, <2>3
<1>10. place \in Surjection(I, I)
  <2>1. place \in Injection(I, I)
    BY <1>8, <1>9 DEF Injection, IsInjective
  <2> QED
    BY <1>2, <2>1, FS_Injection
<1> DEFINE f == [k \in I |-> CHOOSE i \in I : place[i] = k]
<1>11. \A k \in I : f[k] \in I /\ place[f[k]] = k
  BY <1>10 DEF Surjection
<1>12. \A k \in I : Sorted(s)[k] = s[f[k]]
  BY <1>5
<1>13. f \in [I -> I]
  BY <1>11
<1> HIDE DEF f
<1>14. \A i, j \in I : i # j => f[i] # f[j]
  BY <1>11
<1>15. \A k \in I : \E i \in I : f[i] = k
  <2> TAKE k \in I
  <2>1. place[k] \in I
    BY <1>8
  <2>2. f[place[k]] \in I /\ place[f[place[k]]] = place[k]
    BY <1>11, <2>1
  <2>3. f[place[k]] = k
    BY <1>9, <2>2
  <2> QED
    BY <2>1, <2>3
<1>16. ASSUME NEW i \in I, NEW j \in I, i < j PROVE Sorted(s)[i].off <= Sorted(s)[j].off
  <2>1. /\ f[i] \in I /\ f[j] \in I /\ place[f[i]] = i /\ place[f[j]] = j
        /\ i \in Int /\ j \in Int
    BY <1>1, <1>11
  <2>2. Sorted(s)[i].off = off[f[i]] /\ Sorted(s)[j].off = off[f[j]]
    BY <1>1, <1>12, <2>1
  <2>3. off[f[i]] \in Nat /\ off[f[j]] \in Nat
    BY <1>1, <2>1
  <2> HIDE DEF off, I
  <2>4. ~(off[f[j]] < off[f[i]])
    <3>1. SUFFICES ASSUME off[f[j]] < off[f[i]] PROVE FALSE
      OBVIOUS
    <3>2. place[f[j]] < place[f[i]]
      BY <1>7, <2>1, <3>1
    <3> QED
      BY <1>16, <2>1, <3>2
  <2> QED
    BY <2>2, <2>3, <2>4
<1>17. Sorted(s) \in Seq(Piece) /\ Len(Sorted(s)) = n
  <2>1. Sorted(s) \in [1 .. n -> Piece]
    <3>1. \A k \in I : s[f[k]] \in Piece
      BY <1>1, <1>13
    <3>2. Sorted(s) = [k \in I |-> Sorted(s)[k]]
      BY <1>5
    <3> QED
      BY <1>12, <3>1, <3>2
  <2> QED
    BY <1>1, <2>1, FunctionIsSeq
<1>18. IsSortedBy(Sorted(s), s, f)
  BY <1>12, <1>13, <1>14, <1>15, <1>16, <1>17 DEF IsSortedBy
<1> QED
  BY <1>18

\* Sorting keeps the requests; those that do not overlap then ascend.
LEMMA SortedApart ==
  ASSUME NEW s, Apart(s)
  PROVE  /\ Apart(Sorted(s))
         /\ Covered(Sorted(s)) = Covered(s)
         /\ Ascends(Sorted(s))
<1> DEFINE n == Len(s)
           z == Sorted(s)
<1>1. s \in Seq(Piece) /\ n \in Nat
  BY DEF Apart
<1>2. PICK f : IsSortedBy(z, s, f)
  BY <1>1, SortedPermutes
<1> HIDE DEF z
<1>3. Apart(z)
  <2>1. \A k \in 1 .. n : f[k] \in 1 .. n /\ z[k] = s[f[k]]
    BY <1>2 DEF IsSortedBy
  <2>2. \A k \in 1 .. n : InRow(z[k])
    BY <2>1 DEF Apart
  <2>3. \A i, j \in 1 .. n : i # j => Elements(z[i]) \cap Elements(z[j]) = {}
    <3> TAKE i, j \in 1 .. n
    <3> HAVE i # j
    <3>1. f[i] # f[j] /\ f[i] \in 1 .. n /\ f[j] \in 1 .. n
      BY <1>2 DEF IsSortedBy
    <3>2. Elements(s[f[i]]) \cap Elements(s[f[j]]) = {}
      BY <3>1 DEF Apart
    <3> QED
      BY <2>1, <3>2
  <2> QED
    BY <1>2, <2>2, <2>3 DEF Apart, IsSortedBy
<1>4. Covered(z) = Covered(s)
  <2>1. Len(z) = n
    BY <1>2 DEF IsSortedBy
  <2>2. ASSUME NEW e PROVE e \in Covered(z) <=> e \in Covered(s)
    <3>1. ASSUME e \in Covered(z) PROVE e \in Covered(s)
      <4>1. PICK k \in 1 .. n : e \in Elements(z[k])
        BY <2>1, <3>1 DEF Covered
      <4>2. f[k] \in 1 .. n /\ e \in Elements(s[f[k]])
        BY <1>2, <4>1 DEF IsSortedBy
      <4> QED
        BY <4>2 DEF Covered
    <3>2. ASSUME e \in Covered(s) PROVE e \in Covered(z)
      <4>1. PICK k \in 1 .. n : e \in Elements(s[k])
        BY <3>2 DEF Covered
      <4>2. PICK i \in 1 .. n : f[i] = k
        BY <1>2 DEF IsSortedBy
      <4>3. e \in Elements(z[i])
        BY <1>2, <4>1, <4>2 DEF IsSortedBy
      <4> QED
        BY <2>1, <4>3 DEF Covered
    <3> QED
      BY <3>1, <3>2
  <2> QED
    BY <2>2
<1>5. Ascends(z)
  <2> SUFFICES ASSUME NEW i \in 1 .. Len(z), NEW j \in 1 .. Len(z), i < j
               PROVE  End(z[i]) <= z[j].off
    BY DEF Ascends
  <2>1. i \in 1 .. n /\ j \in 1 .. n /\ i # j
    BY <1>2 DEF IsSortedBy
  <2>2. z[i].off <= z[j].off /\ z[i] \in Piece /\ z[j] \in Piece
    <3>1. z \in Seq(Piece)
      BY <1>2 DEF IsSortedBy
    <3>2. z[i].off <= z[j].off
      BY <1>2, <2>1 DEF IsSortedBy
    <3> QED
      BY <3>1, <3>2
  <2>3. Elements(z[i]) \cap Elements(z[j]) = {}
    BY <1>3, <2>1 DEF Apart
  <2>4. z[i].off \in Nat /\ z[i].len \in Nat /\ z[j].off \in Nat /\ z[j].len \in Nat \ {0}
    BY <2>2 DEF Piece
  <2>5. z[j].off \in Elements(z[j])
    BY <2>4 DEF Elements
  <2>6. z[j].off \notin z[i].off .. z[i].off + z[i].len - 1
    BY <2>3, <2>5 DEF Elements
  <2> QED
    BY <2>2, <2>4, <2>6 DEF End
<1> QED
  BY <1>3, <1>4, <1>5 DEF z

\* What a rank makes of the requests it has read ...
LEMMA ReadApart ==
  ASSUME NEW s, Apart(s)
  PROVE  /\ Apart(Merged(FALSE, Sorted(s)))
         /\ Covered(Merged(FALSE, Sorted(s))) = Covered(s)
         /\ Maximal(Merged(FALSE, Sorted(s)))
<1> DEFINE z == Sorted(s)
<1>1. Apart(z) /\ Covered(z) = Covered(s) /\ Ascends(z)
  BY SortedApart
<1> HIDE DEF z
<1>2. z \in Seq(Piece) /\ Len(z) \in 0 .. Len(z)
  BY <1>1 DEF Apart
<1>3. PICK g : IsMerging(g, z, PairsOf(FALSE)) /\ Merged(FALSE, z) = g[Len(z)]
  BY <1>2, MergedMerging
<1>4. JoinsAdjoining(z, PairsOf(FALSE))
  BY <1>1, <1>2, AscendingAdjoin
<1>5. MergedSoFar(g[Len(z)], z, Len(z))
  BY <1>1, <1>2, <1>3, <1>4, MergingApart
<1>6. Maximal(g[Len(z)])
  BY <1>1, <1>2, <1>3, MergingMaximal
<1> QED
  BY <1>1, <1>3, <1>5, <1>6 DEF MergedSoFar, Covered, CoveredTo, z

\* ... and what dat2decomp makes of a list.
LEMMA FollowApart ==
  ASSUME NEW s, Apart(s)
  PROVE  /\ Apart(Merged(TRUE, s))
         /\ Covered(Merged(TRUE, s)) = Covered(s)
<1>1. s \in Seq(Piece) /\ Len(s) \in 0 .. Len(s)
  BY DEF Apart
<1>2. PICK g : IsMerging(g, s, PairsOf(TRUE)) /\ Merged(TRUE, s) = g[Len(s)]
  BY <1>1, MergedMerging
<1>3. JoinsAdjoining(s, PairsOf(TRUE))
  BY DEF JoinsAdjoining, PairsOf, Fits, Follows, End
<1>4. MergedSoFar(g[Len(s)], s, Len(s))
  BY <1>1, <1>2, <1>3, MergingApart
<1> QED
  BY <1>2, <1>4 DEF MergedSoFar, Covered, CoveredTo

-----------------------------------------------------------------------------
(* dat2decomp: the elements of a process, and the gaps.                    *)

\* The members of T in a list that names none of them twice.
LEMMA KeptOnce ==
  ASSUME NEW s \in Seq(Int), NEW T \in SUBSET Nat,
         \A i, j \in 1 .. Len(s) : s[i] \in T /\ s[i] = s[j] => i = j
  PROVE  /\ Kept(s, T) \in Seq(T)
         /\ \A a, b \in 1 .. Len(Kept(s, T)) : Kept(s, T)[a] = Kept(s, T)[b] => a = b
         /\ ToSet(Kept(s, T)) = ToSet(s) \cap T
<1> DEFINE n == Len(s)
           x == [i \in 1 .. n |-> IF s[i] \in T THEN <<s[i]>> ELSE <<>>]
           k == Kept(s, T)
<1>1. n \in Nat /\ DOMAIN s = 1 .. n
  OBVIOUS
<1>2. /\ x \in Seq(Seq(T)) /\ Len(x) = n /\ k = FlattenSeq(x)
      /\ \A i \in 1 .. n : /\ x[i] \in Seq(T)
                           /\ s[i] \in T => Len(x[i]) = 1 /\ x[i][1] = s[i]
                           /\ s[i] \notin T => Len(x[i]) = 0
  <2>1. k = FlattenSeq(x)
    BY DEF Kept
  <2>2. ASSUME NEW i \in 1 .. n
        PROVE  /\ x[i] \in Seq(T)
               /\ s[i] \in T => Len(x[i]) = 1 /\ x[i][1] = s[i]
               /\ s[i] \notin T => Len(x[i]) = 0
    <3>1. CASE s[i] \in T
      <4>1. x[i] = <<s[i]>>
        BY <3>1
      <4> HIDE DEF x
      <4> QED
        BY <3>1, <4>1
    <3>2. CASE s[i] \notin T
      <4>1. x[i] = <<>>
        BY <3>2
      <4> HIDE DEF x
      <4> QED
        BY <3>2, <4>1
    <3> QED
      BY <3>1, <3>2
  <2>3. x = [i \in 1 .. n |-> x[i]]
    OBVIOUS
  <2> HIDE DEF x
  <2>4. x \in [1 .. n -> Seq(T)]
    BY <2>2, <2>3
  <2>5. x \in Seq(Seq(T)) /\ Len(x) = n
    BY <1>1, <2>4, FunctionIsSeq
  <2> QED
    BY <2>1, <2>2, <2>5
<1> HIDE DEF x, k
<1>3. PICK g : IsConcat(g, x, T, n) /\ k = g[n]
  BY <1>2, FlattenIsConcat
<1>4. IsLaidOut(g, x, n)
  BY <1>1, <1>2, <1>3, ConcatElements
<1> DEFINE h == [i \in 0 .. n |-> Len(g[i])]
           w == [i \in 1 .. n |-> Len(x[i])]
<1>5. IsPrefixSum(h, w, n)
  BY <1>1, <1>2, <1>3, ConcatLengths
<1>6. /\ h[n] = Len(k) /\ \A i \in 0 .. n : h[i] = Len(g[i])
      /\ \A i \in 1 .. n : w[i] = Len(x[i])
  BY <1>1, <1>3
<1> HIDE DEF h, w
<1>7. /\ h \in [0 .. n -> Nat] /\ h[0] = 0
      /\ \A i \in 1 .. n : h[i] = h[i - 1] + w[i]
  BY <1>5 DEF IsPrefixSum
<1>8. k \in Seq(T)
  BY <1>1, <1>3 DEF IsConcat
<1>9. ASSUME NEW i \in 1 .. n, s[i] \in T
      PROVE  h[i] \in 1 .. Len(k) /\ k[h[i]] = s[i] /\ h[i] = h[i - 1] + 1
  <2>1. w[i] = 1 /\ Len(x[i]) = 1 /\ x[i][1] = s[i]
    BY <1>2, <1>6, <1>9
  <2>2. h[i] = h[i - 1] + 1
    BY <1>7, <2>1
  <2>3. 1 \in 1 .. Len(x[i]) /\ i - 1 \in 0 .. n
    BY <2>1
  <2>4. /\ Len(g[i - 1]) + 1 \in 1 .. Len(g[n])
        /\ g[n][Len(g[i - 1]) + 1] = x[i][1]
    BY <1>4, <2>3 DEF IsLaidOut
  <2>5. h[i - 1] = Len(g[i - 1])
    BY <1>6, <2>3
  <2> QED
    BY <1>3, <2>1, <2>2, <2>4, <2>5
<1>10. ASSUME NEW a \in 1 .. Len(k)
       PROVE  \E i \in 1 .. n : s[i] \in T /\ h[i] = a /\ k[a] = s[i]
  <2>1. a \in 1 .. h[n]
    BY <1>6
  <2>2. PICK i \in 1 .. n : h[i - 1] < a /\ a <= h[i]
    BY <1>1, <1>5, <2>1, PrefixPasses
  <2>3. h[i] = h[i - 1] + w[i] /\ h[i - 1] \in Nat /\ h[i] \in Nat
    <3>1. i - 1 \in 0 .. n /\ i \in 0 .. n
      OBVIOUS
    <3> QED
      BY <1>7, <3>1
  <2>4. s[i] \in T
    <3>1. SUFFICES ASSUME s[i] \notin T PROVE FALSE
      OBVIOUS
    <3>2. w[i] = 0
      BY <1>2, <1>6, <3>1
    <3> QED
      BY <2>2, <2>3, <3>2
  <2>5. h[i] = h[i - 1] + 1 /\ k[h[i]] = s[i]
    BY <1>9, <2>4
  <2>6. h[i] = a
    BY <2>2, <2>3, <2>5
  <2> QED
    BY <2>4, <2>5, <2>6
<1>11. ASSUME NEW a \in 1 .. Len(k), NEW b \in 1 .. Len(k), k[a] = k[b] PROVE a = b
  <2>1. PICK i \in 1 .. n : s[i] \in T /\ h[i] = a /\ k[a] = s[i]
    BY <1>10
  <2>2. PICK j \in 1 .. n : s[j] \in T /\ h[j] = b /\ k[b] = s[j]
    BY <1>10
  <2>3. i = j
    BY <1>11, <2>1, <2>2
  <2> QED
    BY <2>1, <2>2, <2>3
<1>12. ToSet(k) = ToSet(s) \cap T
  <2>1. DOMAIN k = 1 .. Len(k)
    BY <1>8
  <2>2. ASSUME NEW e PROVE e \in ToSet(k) <=> e \in ToSet(s) /\ e \in T
    <3>1. e \in ToSet(k) <=> \E a \in 1 .. Len(k) : k[a] = e
      BY <2>1 DEF ToSet
    <3>2. e \in ToSet(s) <=> \E i \in 1 .. n : s[i] = e
      BY <1>1 DEF ToSet
    <3> QED
      BY <1>9, <1>10, <3>1, <3>2
  <2> QED
    BY <2>2
<1> QED
  BY <1>8, <1>11, <1>12 DEF k

\* Requests for single elements do not overlap.
LEMMA SinglesApart ==
  ASSUME NEW k \in Seq(Nat), \A a, b \in 1 .. Len(k) : k[a] = k[b] => a = b
  PROVE  /\ Apart(Singles(k))
         /\ Covered(Singles(k)) = ToSet(k)
<1> DEFINE n == Len(k)
           z == Singles(k)
<1>1. n \in Nat /\ DOMAIN k = 1 .. n /\ \A i \in 1 .. n : k[i] \in Nat
  OBVIOUS
<1>2. z \in [1 .. n -> Piece] /\ \A i \in 1 .. n : z[i] = Req(k[i], 1)
  <2>1. \A i \in 1 .. n : Req(k[i], 1) \in Piece
    BY <1>1 DEF Req, Piece
  <2>2. z = [i \in 1 .. n |-> Req(k[i], 1)]
    BY DEF Singles
  <2> QED
    BY <2>1, <2>2
<1> HIDE DEF z
<1>3. z \in Seq(Piece) /\ Len(z) = n
  BY <1>1, <1>2, FunctionIsSeq
<1>4. \A i \in 1 .. n : z[i].off = k[i] /\ z[i].len = 1 /\ Elements(z[i]) = {k[i]}
  <2> TAKE i \in 1 .. n
  <2>1. z[i].off = k[i] /\ z[i].len = 1 /\ k[i] \in Nat
    BY <1>1, <1>2 DEF Req
  <2>2. Elements(z[i]) = k[i] .. k[i] + 1 - 1
    BY <2>1 DEF Elements
  <2>3. k[i] .. k[i] + 1 - 1 = {k[i]}
    BY <2>1
  <2> QED
    BY <2>1, <2>2, <2>3
<1>5. \A i \in 1 .. n : InRow(z[i])
  <2> TAKE i \in 1 .. n
  <2>1. k[i] \in Nat /\ DimX \in Positive /\ DimX \in Nat
    BY <1>1, DecompAssumption DEF Positive
  <2>2. k[i] % DimX \in 0 .. DimX - 1
    BY <2>1, DivMod
  <2>3. (k[i] % DimX) + 1 <= DimX
    BY <2>1, <2>2
  <2> QED
    BY <1>4, <2>3 DEF InRow
<1>6. \A i, j \in 1 .. n : i # j => Elements(z[i]) \cap Elements(z[j]) = {}
  <2> TAKE i, j \in 1 .. n
  <2> HAVE i # j
  <2>1. k[i] # k[j]
    OBVIOUS
  <2>2. Elements(z[i]) = {k[i]} /\ Elements(z[j]) = {k[j]}
    BY <1>4
  <2> QED
    BY <2>1, <2>2
<1>7. Covered(z) = ToSet(k)
  <2>1. ToSet(k) = {k[i] : i \in 1 .. n}
    BY <1>1 DEF ToSet
  <2>2. Covered(z) = UNION {Elements(z[i]) : i \in 1 .. n}
    BY <1>3 DEF Covered
  <2>3. ASSUME NEW e PROVE e \in Covered(z) <=> e \in ToSet(k)
    <3>1. e \in Covered(z) <=> \E i \in 1 .. n : e \in Elements(z[i])
      BY <2>2
    <3>2. e \in ToSet(k) <=> \E i \in 1 .. n : e = k[i]
      BY <2>1
    <3>3. \A i \in 1 .. n : e \in Elements(z[i]) <=> e = k[i]
      BY <1>4
    <3> QED
      BY <3>1, <3>2, <3>3
  <2> QED
    BY <2>3
<1> QED
  BY <1>3, <1>5, <1>6, <1>7 DEF Apart, z

\* A process lists each of its elements once, and none of another's.
LEMMA ListedOnce ==
  ASSUME NEW m \in Maps, NEW p \in DProc
  PROVE  /\ Listed(m[p]) \in Seq(Element)
         /\ \A a, b \in 1 .. Len(Listed(m[p])) : Listed(m[p])[a] = Listed(m[p])[b] => a = b
         /\ OwnedBy(m, p) \subseteq Element
         /\ \A e : e \in OwnedBy(m, p) <=> \E i \in 1 .. Len(m[p]) : m[p][i] - 1 = e /\ e \in Element
<1> DEFINE n == Len(m[p])
           s == [i \in 1 .. n |-> m[p][i] - 1]
<1>1. GSize \in Nat /\ m[p] \in Seq(Nat)
  BY DecompAssumption
<1>2. n \in Nat /\ DOMAIN m[p] = 1 .. n /\ \A i \in 1 .. n : m[p][i] \in Nat
  BY <1>1
<1>3. \A i, j \in 1 .. n : m[p][i] = m[p][j] /\ m[p][i] \in 1 .. GSize => i = j
  <2> SUFFICES ASSUME NEW i \in 1 .. n, NEW j \in 1 .. n,
                      m[p][i] = m[p][j], m[p][i] \in 1 .. GSize
               PROVE  i = j
    OBVIOUS
  <2>1. <<p, i>> = <<p, j>>
    BY <1>2, DecompAssumption
  <2> QED
    BY <2>1
<1>4. s \in [1 .. n -> Int] /\ \A i \in 1 .. n : s[i] = m[p][i] - 1
  BY <1>2
<1> HIDE DEF s
<1>5. s \in Seq(Int) /\ Len(s) = n /\ DOMAIN s = 1 .. n
  BY <1>2, <1>4, FunctionIsSeq
<1>6. \A i, j \in 1 .. n : s[i] \in Element /\ s[i] = s[j] => i = j
  <2> SUFFICES ASSUME NEW i \in 1 .. n, NEW j \in 1 .. n, s[i] \in Element, s[i] = s[j]
               PROVE  i = j
    OBVIOUS
  <2>1. m[p][i] \in Nat /\ m[p][j] \in Nat /\ m[p][i] - 1 = m[p][j] - 1 /\ m[p][i] - 1 \in 0 .. GSize - 1
    BY <1>2, <1>4 DEF Element
  <2>2. m[p][i] = m[p][j] /\ m[p][i] \in 1 .. GSize
    BY <1>1, <2>1
  <2> QED
    BY <1>3, <2>2
<1>7. Element \in SUBSET Nat
  BY <1>1 DEF Element
<1>8. Listed(m[p]) = Kept(s, Element)
  BY DEF Listed, s
<1>9. /\ Listed(m[p]) \in Seq(Element)
      /\ \A a, b \in 1 .. Len(Listed(m[p])) : Listed(m[p])[a] = Listed(m[p])[b] => a = b
      /\ OwnedBy(m, p) = ToSet(s) \cap Element
  BY <1>5, <1>6, <1>7, <1>8, KeptOnce DEF OwnedBy
<1>10. \A e : e \in ToSet(s) <=> \E i \in 1 .. n : m[p][i] - 1 = e
  BY <1>4, <1>5 DEF ToSet
<1> QED
  BY <1>9, <1>10

\* No two processes own the same element.
LEMMA OwnersDiffer ==
  ASSUME NEW m \in Maps, NEW p \in DProc, NEW q \in DProc, p # q
  PROVE  OwnedBy(m, p) \cap OwnedBy(m, q) = {}
<1> SUFFICES ASSUME NEW e \in OwnedBy(m, p), e \in OwnedBy(m, q) PROVE FALSE
  OBVIOUS
<1>1. PICK i \in 1 .. Len(m[p]) : m[p][i] - 1 = e /\ e \in Element
  BY ListedOnce
<1>2. PICK j \in 1 .. Len(m[q]) : m[q][j] - 1 = e
  BY ListedOnce
<1>3. GSize \in Nat /\ m[p] \in Seq(Nat) /\ m[q] \in Seq(Nat)
  BY DecompAssumption
<1>4. /\ m[p][i] \in Nat /\ m[q][j] \in Nat
      /\ i \in DOMAIN m[p] /\ j \in DOMAIN m[q]
  BY <1>3
<1>5. m[p][i] = m[q][j] /\ m[p][i] \in 1 .. GSize
  <2>1. m[p][i] - 1 \in 0 .. GSize - 1 /\ m[p][i] - 1 = m[q][j] - 1
    BY <1>1, <1>2 DEF Element
  <2>2. m[p][i] \in Nat /\ m[q][j] \in Nat /\ GSize \in Nat
    BY <1>3, <1>4
  <2> QED
    BY ONLY <2>1, <2>2
<1>6. <<p, i>> = <<q, j>>
  BY <1>4, <1>5, DecompAssumption
<1> QED
  BY <1>6

\* The pairs of a process cover what it owns ...
LEMMA RealApart ==
  ASSUME NEW m \in Maps, NEW p \in DProc
  PROVE  Apart(Real(m, p)) /\ Covered(Real(m, p)) = OwnedBy(m, p)
<1> DEFINE k == Listed(m[p])
<1>1. Element \subseteq Nat
  BY DecompAssumption DEF Element
<1>2. k \in Seq(Nat)
  <2>1. k \in Seq(Element)
    BY ListedOnce
  <2> QED
    BY <1>1, <2>1, SeqWider
<1>3. Apart(Singles(k)) /\ Covered(Singles(k)) = OwnedBy(m, p)
  BY <1>2, ListedOnce, SinglesApart DEF OwnedBy
<1> QED
  BY <1>3, FollowApart DEF Real

\* ... and the gaps what no process does.
LEMMA GapsApart ==
  ASSUME NEW m \in Maps
  PROVE  Apart(Gaps(m)) /\ Covered(Gaps(m)) = Element \ Owned(m)
<1> DEFINE s == [i \in 1 .. GSize |-> i - 1]
           T == Element \ Owned(m)
<1>1. GSize \in Nat
  BY DecompAssumption
<1>2. s \in [1 .. GSize -> Int] /\ \A i \in 1 .. GSize : s[i] = i - 1
  BY <1>1
<1> HIDE DEF s
<1>3. s \in Seq(Int) /\ Len(s) = GSize /\ DOMAIN s = 1 .. GSize
  BY <1>1, <1>2, FunctionIsSeq
<1>4. T \in SUBSET Nat
  BY <1>1 DEF Element
<1>5. \A i, j \in 1 .. Len(s) : s[i] \in T /\ s[i] = s[j] => i = j
  BY <1>1, <1>2, <1>3
<1>6. ToSet(s) \cap T = T
  <2>1. ASSUME NEW e \in T PROVE e \in ToSet(s)
    <3>1. e \in 0 .. GSize - 1
      BY DEF Element
    <3>2. e + 1 \in 1 .. GSize /\ (e + 1) - 1 = e
      BY <1>1, <3>1
    <3>3. s[e + 1] = e
      BY <1>2, <3>2
    <3> QED
      BY <1>3, <3>2, <3>3 DEF ToSet
  <2> QED
    BY <2>1
<1> DEFINE k == Kept(s, T)
<1>7. /\ k \in Seq(T) /\ ToSet(k) = T
      /\ \A a, b \in 1 .. Len(k) : k[a] = k[b] => a = b
  BY <1>3, <1>4, <1>5, <1>6, KeptOnce
<1>8. k \in Seq(Nat)
  <2> HIDE DEF k, T
  <2> QED
    BY <1>4, <1>7, SeqWider
<1>9. Gaps(m) = Merged(TRUE, Singles(k))
  BY DEF Gaps, s
<1> HIDE DEF k
<1>10. Apart(Singles(k)) /\ Covered(Singles(k)) = T
  BY <1>7, <1>8, SinglesApart
<1> QED
  BY <1>9, <1>10, FollowApart

-----------------------------------------------------------------------------
(* Parts of a list, and two lists in a row.                                *)

\* A part of a list covers what its requests do.
LEMMA SubSeqApart ==
  ASSUME NEW s, Apart(s), NEW a \in Nat, NEW b \in Nat, a <= b, b <= Len(s)
  PROVE  /\ Apart(SubSeq(s, a + 1, b))
         /\ Covered(SubSeq(s, a + 1, b)) = UNION {Elements(s[i]) : i \in a + 1 .. b}
<1> DEFINE t == SubSeq(s, a + 1, b)
           n == b - a
<1>1. s \in Seq(Piece) /\ Len(s) \in Nat /\ \A i \in 1 .. Len(s) : s[i] \in Piece
  BY DEF Apart
<1>2. n \in Nat /\ a + 1 \in Int /\ b \in Int /\ b - (a + 1) + 1 = n
  OBVIOUS
<1>3. \A i \in a + 1 .. b : i \in 1 .. Len(s) /\ s[i] \in Piece
  BY <1>1
<1>4. t \in Seq(Piece) /\ Len(t) = n /\ \A i \in 1 .. n : t[i] = s[a + i]
  <2>1. /\ t \in Seq(Piece)
        /\ Len(t) = IF a + 1 <= b THEN b - (a + 1) + 1 ELSE 0
        /\ \A i \in 1 .. b - (a + 1) + 1 : t[i] = s[(a + 1) + i - 1]
    BY <1>2, <1>3, SubSeqProperties
  <2> HIDE DEF t
  <2>2. Len(t) = n
    BY <2>1
  <2>3. \A i \in 1 .. n : t[i] = s[a + i]
    <3> TAKE i \in 1 .. n
    <3>1. (a + 1) + i - 1 = a + i /\ i \in 1 .. b - (a + 1) + 1
      BY <1>2
    <3> QED
      BY <2>1, <3>1
  <2> QED
    BY <2>1, <2>2, <2>3
<1> HIDE DEF t
<1>5. \A i \in 1 .. n : a + i \in 1 .. Len(s) /\ a + i \in a + 1 .. b
  BY <1>1
<1>6. \A i \in 1 .. n : InRow(t[i])
  BY <1>4, <1>5 DEF Apart
<1>7. \A i, j \in 1 .. n : i # j => Elements(t[i]) \cap Elements(t[j]) = {}
  <2> TAKE i, j \in 1 .. n
  <2> HAVE i # j
  <2>1. /\ a + i \in 1 .. Len(s) /\ a + j \in 1 .. Len(s) /\ a + i # a + j
        /\ t[i] = s[a + i] /\ t[j] = s[a + j]
    BY <1>4, <1>5
  <2>2. Elements(s[a + i]) \cap Elements(s[a + j]) = {}
    BY <2>1 DEF Apart
  <2> QED
    BY <2>1, <2>2
<1>8. ASSUME NEW e
      PROVE  e \in Covered(t) <=> e \in UNION {Elements(s[i]) : i \in a + 1 .. b}
  <2>1. ASSUME e \in Covered(t) PROVE \E i \in a + 1 .. b : e \in Elements(s[i])
    <3>1. PICK i \in 1 .. n : e \in Elements(t[i])
      BY <1>4, <2>1 DEF Covered
    <3>2. e \in Elements(s[a + i])
      BY <1>4, <3>1
    <3> QED
      BY <1>5, <3>2
  <2>2. ASSUME NEW i \in a + 1 .. b, e \in Elements(s[i]) PROVE e \in Covered(t)
    <3>1. i - a \in 1 .. n /\ a + (i - a) = i
      OBVIOUS
    <3>2. t[i - a] = s[i]
      BY <1>4, <3>1
    <3>3. e \in Elements(t[i - a])
      BY <2>2, <3>2
    <3> QED
      BY <1>4, <3>1, <3>3 DEF Covered
  <2> QED
    BY <2>1, <2>2
<1> QED
  BY <1>4, <1>6, <1>7, <1>8 DEF Apart, t

\* Two lists that have nothing in common, one behind the other.
LEMMA ConcatApart ==
  ASSUME NEW s, Apart(s), NEW t, Apart(t), Covered(s) \cap Covered(t) = {}
  PROVE  /\ Apart(s \o t)
         /\ Covered(s \o t) = Covered(s) \cup Covered(t)
         /\ Len(s \o t) = Len(s) + Len(t)
<1> DEFINE n == Len(s)
           k == Len(t)
           u == s \o t
<1>1. s \in Seq(Piece) /\ t \in Seq(Piece) /\ n \in Nat /\ k \in Nat
  BY DEF Apart
<1>2. /\ u \in Seq(Piece) /\ Len(u) = n + k
      /\ \A i \in 1 .. n : u[i] = s[i]
      /\ \A i \in 1 .. k : u[n + i] = t[i] /\ n + i \in 1 .. n + k
  <2>1. u \in Seq(Piece) /\ Len(u) = n + k
    BY <1>1, ConcatProperties
  <2>2. \A i \in 1 .. n + k : u[i] = IF i <= n THEN s[i] ELSE t[i - n]
    BY <1>1, ConcatProperties
  <2> HIDE DEF u
  <2>3. \A i \in 1 .. n : u[i] = s[i]
    <3> TAKE i \in 1 .. n
    <3>1. i \in 1 .. n + k /\ i <= n
      BY <1>1
    <3> QED
      BY <2>2, <3>1
  <2>4. \A i \in 1 .. k : u[n + i] = t[i] /\ n + i \in 1 .. n + k
    <3> TAKE i \in 1 .. k
    <3>1. n + i \in 1 .. n + k /\ ~(n + i <= n) /\ (n + i) - n = i
      BY <1>1
    <3> QED
      BY <2>2, <3>1
  <2> QED
    BY <2>1, <2>3, <2>4
<1> HIDE DEF u
<1>3. \A i \in 1 .. n + k : i \in 1 .. n \/ \E j \in 1 .. k : i = n + j
  <2> TAKE i \in 1 .. n + k
  <2>1. i \in 1 .. n \/ (i - n \in 1 .. k /\ i = n + (i - n))
    BY <1>1
  <2> QED
    BY <2>1
<1>4. \A i \in 1 .. n : InRow(u[i]) /\ Elements(u[i]) = Elements(s[i]) /\ Elements(s[i]) \subseteq Covered(s)
  BY <1>2 DEF Apart, Covered
<1>5. \A i \in 1 .. k : /\ InRow(u[n + i]) /\ Elements(u[n + i]) = Elements(t[i])
                        /\ Elements(t[i]) \subseteq Covered(t)
  BY <1>2 DEF Apart, Covered
<1>6. \A i \in 1 .. n + k : InRow(u[i])
  BY <1>3, <1>4, <1>5
<1>7. ASSUME NEW i \in 1 .. n + k, NEW j \in 1 .. n + k, i # j
      PROVE  Elements(u[i]) \cap Elements(u[j]) = {}
  <2>1. CASE i \in 1 .. n /\ j \in 1 .. n
    BY <1>4, <1>7, <2>1 DEF Apart
  <2>2. CASE i \in 1 .. n /\ \E x \in 1 .. k : j = n + x
    BY <1>4, <1>5, <2>2
  <2>3. CASE j \in 1 .. n /\ \E x \in 1 .. k : i = n + x
    BY <1>4, <1>5, <2>3
  <2>4. CASE (\E x \in 1 .. k : i = n + x) /\ (\E y \in 1 .. k : j = n + y)
    <3>1. PICK x \in 1 .. k, y \in 1 .. k : i = n + x /\ j = n + y
      BY <2>4
    <3>2. x # y
      BY <1>7, <3>1
    <3>3. Elements(t[x]) \cap Elements(t[y]) = {}
      BY <3>2 DEF Apart
    <3> QED
      BY <1>5, <3>1, <3>3
  <2> QED
    BY <1>3, <2>1, <2>2, <2>3, <2>4
<1>8. ASSUME NEW e PROVE e \in Covered(u) <=> e \in Covered(s) \/ e \in Covered(t)
  <2>1. e \in Covered(u) <=> \E i \in 1 .. n + k : e \in Elements(u[i])
    BY <1>2 DEF Covered
  <2>2. e \in Covered(s) <=> \E i \in 1 .. n : e \in Elements(u[i])
    BY <1>4 DEF Covered
  <2>3. e \in Covered(t) <=> \E i \in 1 .. k : e \in Elements(u[n + i])
    BY <1>5 DEF Covered
  <2>4. 1 .. n \subseteq 1 .. n + k
    BY <1>1
  <2> QED
    BY <1>2, <1>3, <2>1, <2>2, <2>3, <2>4
<1> QED
  BY <1>2, <1>6, <1>7, <1>8 DEF Apart, u

-----------------------------------------------------------------------------
(* The share of a process in the file.                                     *)

\* A block ends within the items.
LEMMA PartEnds ==
  ASSUME NEW n \in Nat, NEW p \in Nat \ {0}, NEW r \in 0 .. p - 1
  PROVE  /\ PartStart(n, p, r) \in Nat
         /\ PartCount(n, p, r) \in Nat
         /\ PartStart(n, p, r) + PartCount(n, p, r) <= n
<1>1. PartStart(n, p, r) \in Nat /\ PartCount(n, p, r) \in Nat
  BY PartBounds
<1>2. p - 1 \in 0 .. p - 1
  OBVIOUS
<1>3. /\ PartStart(n, p, p - 1) \in Nat /\ PartCount(n, p, p - 1) \in Nat
      /\ PartStart(n, p, p - 1) + PartCount(n, p, p - 1) = n
  BY <1>2, BlocksAdjoin, PartBounds
<1>4. CASE r = p - 1
  BY <1>1, <1>3, <1>4
<1>5. CASE r # p - 1
  <2>1. r < p - 1
    BY <1>5
  <2>2. PartStart(n, p, r) + PartCount(n, p, r) <= PartStart(n, p, p - 1)
    BY <1>2, <2>1, BlocksDisjoint
  <2> QED
    BY <1>1, <1>3, <2>2
<1> QED
  BY <1>4, <1>5

\* Two blocks have nothing in common, in either order.
LEMMA PartsDiffer ==
  ASSUME NEW n \in Nat, NEW p \in Nat \ {0},
         NEW q \in 0 .. p - 1, NEW r \in 0 .. p - 1, q # r
  PROVE  Part(n, p, q) \cap Part(n, p, r) = {}
<1>1. CASE q < r
  BY <1>1, BlocksDisjoint
<1>2. CASE r < q
  <2>1. Part(n, p, r) \cap Part(n, p, q) = {}
    BY <1>2, BlocksDisjoint
  <2> QED
    BY <2>1
<1> QED
  BY <1>1, <1>2

\* The gaps are handed out, each to one process.
LEMMA FillApart ==
  ASSUME NEW m \in Maps, NEW p \in DProc
  PROVE  /\ Apart(Fill(m, p))
         /\ Covered(Fill(m, p)) = UNION {Elements(Gaps(m)[d + 1]) : d \in Part(Len(Gaps(m)), DecompProcs, p)}
         /\ Covered(Fill(m, p)) \subseteq Element \ Owned(m)
<1> DEFINE s == Gaps(m)
           n == Len(s)
           a == PartStart(n, DecompProcs, p)
           b == a + PartCount(n, DecompProcs, p)
<1>1. Apart(s) /\ Covered(s) = Element \ Owned(m)
  BY GapsApart
<1>2. n \in Nat /\ DecompProcs \in Nat \ {0} /\ p \in 0 .. DecompProcs - 1
  <2>1. s \in Seq(Piece)
    BY <1>1 DEF Apart
  <2>2. n \in Nat
    BY <2>1
  <2> QED
    BY <2>2, DecompAssumption DEF DProc
<1>3. Fill(m, p) = SubSeq(s, a + 1, b)
  BY DEF Fill
<1>4. Part(n, DecompProcs, p) = a .. b - 1
  <2>1. a \in Nat /\ PartCount(n, DecompProcs, p) \in Nat
    BY <1>2, PartEnds
  <2>2. Part(n, DecompProcs, p) = a .. a + PartCount(n, DecompProcs, p) - 1
    BY DEF Part
  <2> HIDE DEF n, a
  <2> QED
    BY <2>1, <2>2
<1>5. a \in Nat /\ b \in Nat /\ a <= b /\ b <= n
  <2>1. a \in Nat /\ PartCount(n, DecompProcs, p) \in Nat /\ b <= n
    BY <1>2, PartEnds
  <2> QED
    BY <2>1
<1> HIDE DEF a, b, s
<1>6. /\ Apart(Fill(m, p))
      /\ Covered(Fill(m, p)) = UNION {Elements(s[i]) : i \in a + 1 .. b}
  BY <1>1, <1>3, <1>5, SubSeqApart
<1>7. ASSUME NEW e
      PROVE  e \in Covered(Fill(m, p)) <=> \E d \in Part(n, DecompProcs, p) : e \in Elements(s[d + 1])
  <2>1. \A i \in a + 1 .. b : i - 1 \in a .. b - 1 /\ (i - 1) + 1 = i
    BY <1>5
  <2>2. \A d \in a .. b - 1 : d + 1 \in a + 1 .. b
    BY <1>5
  <2> HIDE DEF n
  <2>3. ASSUME NEW i \in a + 1 .. b, e \in Elements(s[i])
        PROVE  \E d \in a .. b - 1 : e \in Elements(s[d + 1])
    <3>1. i - 1 \in a .. b - 1 /\ (i - 1) + 1 = i
      BY <2>1
    <3> QED
      BY <2>3, <3>1
  <2> QED
    BY <1>4, <1>6, <2>2, <2>3
<1>8. \A d \in Part(n, DecompProcs, p) : Elements(s[d + 1]) \subseteq Covered(s)
  <2> TAKE d \in Part(n, DecompProcs, p)
  <2>1. d + 1 \in 1 .. n
    BY <1>2, <1>4, <1>5
  <2> QED
    BY <2>1 DEF Covered
<1>9. Covered(Fill(m, p)) = UNION {Elements(s[d + 1]) : d \in Part(n, DecompProcs, p)}
  BY <1>7
<1> QED
  BY <1>1, <1>6, <1>7, <1>8, <1>9 DEF s

\* No two processes fill the same element ...
LEMMA FillsDiffer ==
  ASSUME NEW m \in Maps, NEW p \in DProc, NEW q \in DProc, p # q
  PROVE  Covered(Fill(m, p)) \cap Covered(Fill(m, q)) = {}
<1> DEFINE s == Gaps(m)
           n == Len(s)
<1>1. Apart(s) /\ s \in Seq(Piece) /\ n \in Nat
  <2>1. Apart(s)
    BY GapsApart
  <2> QED
    BY <2>1 DEF Apart
<1>2. DecompProcs \in Nat \ {0} /\ p \in 0 .. DecompProcs - 1 /\ q \in 0 .. DecompProcs - 1
  BY DecompAssumption DEF DProc
<1> SUFFICES ASSUME NEW e \in Covered(Fill(m, p)), e \in Covered(Fill(m, q)) PROVE FALSE
  OBVIOUS
<1> HIDE DEF s
<1>3. PICK c \in Part(n, DecompProcs, p) : e \in Elements(s[c + 1])
  BY FillApart DEF s
<1>4. PICK d \in Part(n, DecompProcs, q) : e \in Elements(s[d + 1])
  BY FillApart DEF s
<1>5. c # d
  <2>1. Part(n, DecompProcs, p) \cap Part(n, DecompProcs, q) = {}
    BY <1>1, <1>2, PartsDiffer
  <2> QED
    BY <1>3, <1>4, <2>1
<1>6. ASSUME NEW x \in DProc, NEW y \in Part(n, DecompProcs, x) PROVE y \in Nat /\ y + 1 \in 1 .. n
  <2>1. /\ PartStart(n, DecompProcs, x) \in Nat /\ PartCount(n, DecompProcs, x) \in Nat
        /\ PartStart(n, DecompProcs, x) + PartCount(n, DecompProcs, x) <= n
    BY <1>1, <1>2, PartEnds DEF DProc
  <2> QED
    BY <1>1, <2>1 DEF Part
<1>7. c + 1 \in 1 .. n /\ d + 1 \in 1 .. n /\ c + 1 # d + 1
  <2>1. c \in Nat /\ d \in Nat /\ c + 1 \in 1 .. n /\ d + 1 \in 1 .. n
    BY <1>3, <1>4, <1>6
  <2> QED
    BY <1>5, <2>1
<1>8. Elements(s[c + 1]) \cap Elements(s[d + 1]) = {}
  BY <1>1, <1>7 DEF Apart
<1> QED
  BY <1>3, <1>4, <1>8

\* ... and every element that is not owned is in the gap of one.
LEMMA FillsCover ==
  ASSUME NEW m \in Maps, NEW e \in Element \ Owned(m)
  PROVE  \E p \in DProc : e \in Covered(Fill(m, p))
<1> DEFINE s == Gaps(m)
           n == Len(s)
<1>1. Apart(s) /\ Covered(s) = Element \ Owned(m)
  BY GapsApart
<1>2. n \in Nat /\ DecompProcs \in Nat \ {0}
  <2>1. s \in Seq(Piece)
    BY <1>1 DEF Apart
  <2> QED
    BY <2>1, DecompAssumption
<1> HIDE DEF s
<1>3. PICK i \in 1 .. n : e \in Elements(s[i])
  BY <1>1 DEF Covered
<1>4. i - 1 \in 0 .. n - 1 /\ (i - 1) + 1 = i
  BY <1>2
<1>5. PICK p \in 0 .. DecompProcs - 1 : i - 1 \in Part(n, DecompProcs, p)
  BY <1>2, <1>4, BlocksCover
<1>6. p \in DProc
  BY DEF DProc
<1>7. e \in Elements(s[(i - 1) + 1])
  BY <1>3, <1>4
<1>8. Covered(Fill(m, p)) = UNION {Elements(s[d + 1]) : d \in Part(n, DecompProcs, p)}
  BY <1>6, FillApart DEF s
<1> HIDE DEF n
<1>9. e \in Covered(Fill(m, p))
  BY <1>5, <1>7, <1>8
<1> QED
  BY <1>6, <1>9

\* All requests of a process, and their elements.
Whole(m, f, p) == Real(m, p) \o IF f THEN Fill(m, p) ELSE <<>>
Share(m, f, p) == OwnedBy(m, p) \cup IF f THEN Covered(Fill(m, p)) ELSE {}

\* The requests of a process do not overlap and cover its share.
LEMMA WholeApart ==
  ASSUME NEW m \in Maps, NEW f \in BOOLEAN, NEW p \in DProc
  PROVE  /\ Apart(Whole(m, f, p))
         /\ Covered(Whole(m, f, p)) = Share(m, f, p)
         /\ Len(Real(m, p)) \in Nat
         /\ Len(Whole(m, f, p)) \in Nat
         /\ Len(Real(m, p)) <= Len(Whole(m, f, p))
         /\ ~f => Len(Real(m, p)) = Len(Whole(m, f, p))
         /\ Share(m, f, p) \subseteq Element
<1> DEFINE t == IF f THEN Fill(m, p) ELSE <<>>
<1>1. Apart(Real(m, p)) /\ Covered(Real(m, p)) = OwnedBy(m, p) /\ OwnedBy(m, p) \subseteq Element
  BY RealApart, ListedOnce
<1>2. Apart(<<>>) /\ Covered(<<>>) = {}
  BY DEF Apart, Covered
<1>3. /\ Apart(t) /\ Covered(t) = IF f THEN Covered(Fill(m, p)) ELSE {}
      /\ Covered(t) \subseteq Element \ Owned(m)
      /\ ~f => Len(t) = 0
  <2>1. CASE f
    BY <2>1, FillApart
  <2>2. CASE ~f
    <3>1. t = <<>>
      BY <2>2
    <3> HIDE DEF t
    <3> QED
      BY <1>2, <2>2, <3>1
  <2> QED
    BY <2>1, <2>2
<1>4. OwnedBy(m, p) \subseteq Owned(m)
  BY DEF Owned
<1>5. Whole(m, f, p) = Real(m, p) \o t
  BY DEF Whole
<1> HIDE DEF t
<1>6. /\ Apart(Whole(m, f, p))
      /\ Covered(Whole(m, f, p)) = OwnedBy(m, p) \cup Covered(t)
      /\ Len(Whole(m, f, p)) = Len(Real(m, p)) + Len(t)
  <2>1. Covered(Real(m, p)) \cap Covered(t) = {}
    <3>1. Covered(Real(m, p)) \subseteq Owned(m)
      BY <1>1, <1>4
    <3>2. Covered(t) \subseteq Element \ Owned(m)
      BY <1>3
    <3> QED
      BY ONLY <3>1, <3>2
  <2> QED
    BY <1>1, <1>3, <1>5, <2>1, ConcatApart
<1>7. Len(Real(m, p)) \in Nat /\ Len(t) \in Nat
  <2>1. Real(m, p) \in Seq(Piece) /\ t \in Seq(Piece)
    BY <1>1, <1>3 DEF Apart
  <2> QED
    BY <2>1, LenProperties
<1>8. Share(m, f, p) = OwnedBy(m, p) \cup Covered(t)
  BY <1>3 DEF Share
<1>9. Share(m, f, p) \subseteq Element
  BY <1>1, <1>3, <1>8
<1>10. /\ Len(Whole(m, f, p)) \in Nat
       /\ Len(Real(m, p)) <= Len(Whole(m, f, p))
       /\ Len(t) = 0 => Len(Real(m, p)) = Len(Whole(m, f, p))
  BY ONLY <1>6, <1>7
<1> QED
  BY <1>3, <1>6, <1>7, <1>8, <1>9, <1>10

\* No two processes have a share in the same element.
LEMMA SharesDiffer ==
  ASSUME NEW m \in Maps, NEW f \in BOOLEAN, NEW p \in DProc, NEW q \in DProc, p # q
  PROVE  Share(m, f, p) \cap Share(m, f, q) = {}
<1>1. OwnedBy(m, p) \cap OwnedBy(m, q) = {}
  BY OwnersDiffer
<1>2. Covered(Fill(m, p)) \cap Covered(Fill(m, q)) = {}
  BY FillsDiffer
<1>3. OwnedBy(m, p) \subseteq Owned(m) /\ OwnedBy(m, q) \subseteq Owned(m)
  BY DEF Owned
<1>4. Covered(Fill(m, p)) \subseteq Element \ Owned(m) /\ Covered(Fill(m, q)) \subseteq Element \ Owned(m)
  BY FillApart
<1> QED
  BY <1>1, <1>2, <1>3, <1>4 DEF Share

-----------------------------------------------------------------------------
(* The list of all requests.                                               *)

Sizes(m, f) == [i \in 1 .. DecompProcs |-> Len(Whole(m, f, i - 1))]
Ends(m, f)  == Prefix(Sizes(m, f), DecompProcs)

\* The fields of the file in these terms.
LEMMA ConvertedFields ==
  ASSUME NEW m \in Maps, NEW f \in BOOLEAN
  PROVE  /\ Converted(m, f).nreqs = [p \in DProc |-> Len(Whole(m, f, p))]
         /\ Converted(m, f).fillStarts = [p \in DProc |-> Len(Real(m, p))]
         /\ Converted(m, f).list = FlattenSeq([i \in 1 .. DecompProcs |-> Whole(m, f, i - 1)])
         /\ DecompProcs \in Nat \ {0}
         /\ \A i \in 1 .. DecompProcs : i - 1 \in DProc
<1> DEFINE all == [p \in DProc |-> Real(m, p) \o IF f THEN Fill(m, p) ELSE <<>>]
<1>1. \A i \in 1 .. DecompProcs : i - 1 \in DProc
  BY DecompAssumption DEF DProc
<1>2. Converted(m, f) = [nreqs      |-> [p \in DProc |-> Len(all[p])],
                         fillStarts |-> [p \in DProc |-> Len(Real(m, p))],
                         list       |-> FlattenSeq([i \in 1 .. DecompProcs |-> all[i - 1]])]
  BY DEF Converted
<1>3. \A p \in DProc : all[p] = Whole(m, f, p)
  BY DEF Whole
<1> HIDE DEF all
<1>4. [i \in 1 .. DecompProcs |-> all[i - 1]] = [i \in 1 .. DecompProcs |-> Whole(m, f, i - 1)]
  BY <1>1, <1>3
<1>5. [p \in DProc |-> Len(all[p])] = [p \in DProc |-> Len(Whole(m, f, p))]
  BY <1>3
<1>6. /\ Converted(m, f).nreqs = [p \in DProc |-> Len(all[p])]
      /\ Converted(m, f).fillStarts = [p \in DProc |-> Len(Real(m, p))]
      /\ Converted(m, f).list = FlattenSeq([i \in 1 .. DecompProcs |-> all[i - 1]])
  BY ONLY <1>2
<1>7. DecompProcs \in Nat \ {0}
  BY DecompAssumption
<1> QED
  BY ONLY <1>1, <1>4, <1>5, <1>6, <1>7

\* The requests of each process follow those of the processes before it.
IsPacked(h, list, m, f) ==
  /\ list \in Seq(Piece)
  /\ IsPrefixSum(h, Sizes(m, f), DecompProcs)
  /\ Len(list) = h[DecompProcs]
  /\ \A p \in DProc : \A j \in 1 .. Len(Whole(m, f, p)) :
       h[p] + j \in 1 .. Len(list) /\ list[h[p] + j] = Whole(m, f, p)[j]

\* The list of the file is packed like this.
LEMMA ListPacked ==
  ASSUME NEW m \in Maps, NEW f \in BOOLEAN
  PROVE  IsPacked(Ends(m, f), Converted(m, f).list, m, f)
<1> DEFINE n == DecompProcs
           x == [i \in 1 .. n |-> Whole(m, f, i - 1)]
           l == Converted(m, f).list
<1>1. n \in Nat \ {0} /\ l = FlattenSeq(x) /\ \A i \in 1 .. n : i - 1 \in DProc
  BY ConvertedFields
<1>2. \A p \in DProc : Whole(m, f, p) \in Seq(Piece) /\ Len(Whole(m, f, p)) \in Nat
  BY WholeApart DEF Apart
<1>3. x \in [1 .. n -> Seq(Piece)] /\ \A i \in 1 .. n : x[i] = Whole(m, f, i - 1)
  BY <1>1, <1>2
<1>4. Sizes(m, f) \in [1 .. n -> Nat] /\ Sizes(m, f) = [i \in 1 .. n |-> Len(x[i])]
  <2>1. Sizes(m, f) \in [1 .. n -> Nat]
    BY <1>1, <1>2 DEF Sizes
  <2> QED
    BY <1>3, <2>1 DEF Sizes
<1> HIDE DEF x, l
<1>5. x \in Seq(Seq(Piece)) /\ Len(x) = n
  BY <1>1, <1>3, FunctionIsSeq
<1>6. PICK g : IsConcat(g, x, Piece, n) /\ l = g[n]
  BY <1>1, <1>5, FlattenIsConcat
<1>7. IsLaidOut(g, x, n)
  BY <1>1, <1>3, <1>6, ConcatElements
<1> DEFINE k == [i \in 0 .. n |-> Len(g[i])]
<1>8. IsPrefixSum(k, Sizes(m, f), n)
  <2>1. \A i \in 1 .. n : x[i] \in Seq(Piece)
    BY <1>3
  <2>2. IsPrefixSum(k, [i \in 1 .. n |-> Len(x[i])], n)
    BY <1>1, <1>6, <2>1, ConcatLengths
  <2> HIDE DEF k
  <2> QED
    BY <1>4, <2>2
<1>9. k[n] = Len(l) /\ \A i \in 0 .. n : k[i] = Len(g[i])
  BY <1>1, <1>6
<1> HIDE DEF k
<1>10. IsPrefixSum(Ends(m, f), Sizes(m, f), n)
  BY <1>1, <1>4, PrefixExists DEF Ends
<1>11. \A i \in 0 .. n : k[i] = Ends(m, f)[i]
  <2> TAKE i \in 0 .. n
  <2>1. IsPrefixSum([j \in 0 .. i |-> k[j]], Sizes(m, f), i)
    <3>1. /\ k \in [0 .. n -> Nat] /\ k[0] = 0
          /\ \A j \in 1 .. n : k[j] = k[j - 1] + Sizes(m, f)[j]
      BY <1>8 DEF IsPrefixSum
    <3> DEFINE h == [j \in 0 .. i |-> k[j]]
    <3>2. i \in Nat /\ 0 .. i \subseteq 0 .. n /\ 1 .. i \subseteq 1 .. n
      BY <1>1
    <3>3. h \in [0 .. i -> Nat] /\ h[0] = 0
      BY <3>1, <3>2
    <3>4. \A j \in 1 .. i : h[j] = h[j - 1] + Sizes(m, f)[j]
      <4> TAKE j \in 1 .. i
      <4>1. j \in 0 .. i /\ j - 1 \in 0 .. i
        BY <3>2
      <4>2. h[j] = k[j] /\ h[j - 1] = k[j - 1]
        BY <4>1
      <4> QED
        BY <3>1, <3>2, <4>2
    <3> QED
      BY <3>3, <3>4 DEF IsPrefixSum
  <2>2. [j \in 0 .. i |-> k[j]][i] = Ends(m, f)[i]
    BY <1>1, <1>10, <2>1, PrefixUnique
  <2> QED
    BY <1>1, <2>2
<1>12. l \in Seq(Piece) /\ Len(l) = Ends(m, f)[n]
  <2>1. n \in 0 .. n
    BY <1>1
  <2>2. g[n] \in Seq(Piece)
    BY <1>6, <2>1 DEF IsConcat
  <2> QED
    BY <1>6, <1>9, <1>11, <2>1, <2>2
<1>13. ASSUME NEW p \in DProc, NEW j \in 1 .. Len(Whole(m, f, p))
       PROVE  /\ Ends(m, f)[p] + j \in 1 .. Len(l)
              /\ l[Ends(m, f)[p] + j] = Whole(m, f, p)[j]
  <2>1. p + 1 \in 1 .. n /\ (p + 1) - 1 = p /\ p \in 0 .. n
    BY <1>1 DEF DProc
  <2>2. x[p + 1] = Whole(m, f, p)
    BY <1>3, <2>1
  <2>3. /\ Len(g[p]) + j \in 1 .. Len(g[n])
        /\ g[n][Len(g[p]) + j] = x[p + 1][j]
    BY <1>7, <2>1, <2>2 DEF IsLaidOut
  <2>4. Len(g[p]) = Ends(m, f)[p]
    BY <1>9, <1>11, <2>1
  <2> QED
    BY <1>6, <2>2, <2>3, <2>4
<1> QED
  BY <1>10, <1>12, <1>13 DEF IsPacked, l

\* Whose request is at a place of the list.
LEMMA ListLocated ==
  ASSUME NEW m \in Maps, NEW f \in BOOLEAN, NEW h, NEW list, IsPacked(h, list, m, f),
         NEW i \in 1 .. Len(list)
  PROVE  \E p \in DProc : /\ h[p] < i /\ i <= h[p + 1]
                          /\ i - h[p] \in 1 .. Len(Whole(m, f, p))
                          /\ list[i] = Whole(m, f, p)[i - h[p]]
<1> DEFINE n == DecompProcs
<1>1. n \in Nat \ {0} /\ \A k \in 1 .. n : k - 1 \in DProc
  BY ConvertedFields
<1>2. IsPrefixSum(h, Sizes(m, f), n) /\ i \in 1 .. h[n]
  BY DEF IsPacked
<1>3. PICK k \in 1 .. n : h[k - 1] < i /\ i <= h[k]
  BY <1>1, <1>2, PrefixPasses
<1> DEFINE p == k - 1
<1>4. p \in DProc /\ p + 1 = k /\ p \in 0 .. n
  BY <1>1, <1>3
<1>5. h[k] = h[p] + Len(Whole(m, f, p)) /\ h[p] \in Nat /\ h[k] \in Nat
  <2>1. h[k] = h[k - 1] + Sizes(m, f)[k] /\ h \in [0 .. n -> Nat]
    BY <1>2 DEF IsPrefixSum
  <2>2. Sizes(m, f)[k] = Len(Whole(m, f, k - 1))
    BY DEF Sizes
  <2> QED
    BY <1>1, <1>4, <2>1, <2>2
<1>6. Len(Whole(m, f, p)) \in Nat
  BY <1>4, WholeApart
<1> HIDE DEF p
<1>7. i - h[p] \in 1 .. Len(Whole(m, f, p)) /\ h[p] + (i - h[p]) = i
  BY <1>3, <1>4, <1>5, <1>6 DEF p
<1>8. list[h[p] + (i - h[p])] = Whole(m, f, p)[i - h[p]]
  BY <1>4, <1>7 DEF IsPacked
<1>9. h[p] < i /\ i <= h[p + 1]
  BY <1>3, <1>4 DEF p
<1> QED
  BY <1>4, <1>7, <1>8, <1>9

\* No two requests of the file overlap, with one another or with a row.
LEMMA ListApart ==
  ASSUME NEW m \in Maps, NEW f \in BOOLEAN, NEW h, NEW list, IsPacked(h, list, m, f)
  PROVE  Apart(list) /\ Covered(list) \subseteq Element
<1> DEFINE W(p) == Whole(m, f, p)
<1>1. \A p \in DProc : Apart(W(p)) /\ Covered(W(p)) = Share(m, f, p) /\ Share(m, f, p) \subseteq Element
  BY WholeApart
<1>2. \A i \in 1 .. Len(list) : \E p \in DProc : \E j \in 1 .. Len(W(p)) :
        i = h[p] + j /\ list[i] = W(p)[j]
  <2> TAKE i \in 1 .. Len(list)
  <2>1. PICK p \in DProc : /\ i - h[p] \in 1 .. Len(W(p))
                           /\ list[i] = W(p)[i - h[p]]
    BY ListLocated
  <2>2. h[p] \in Nat
    <3>1. p \in 0 .. DecompProcs
      BY DecompAssumption DEF DProc
    <3> QED
      BY <3>1 DEF IsPacked, IsPrefixSum
  <2>3. i = h[p] + (i - h[p])
    BY <2>2
  <2> HIDE DEF W
  <2> QED
    BY <2>1, <2>3
<1>3. \A p \in DProc : \A j \in 1 .. Len(W(p)) :
        InRow(W(p)[j]) /\ Elements(W(p)[j]) \subseteq Share(m, f, p)
  BY <1>1 DEF Apart, Covered
<1> HIDE DEF W
<1>4. \A i \in 1 .. Len(list) : InRow(list[i]) /\ Elements(list[i]) \subseteq Element
  BY <1>1, <1>2, <1>3
<1>5. ASSUME NEW a \in 1 .. Len(list), NEW b \in 1 .. Len(list), a # b
      PROVE  Elements(list[a]) \cap Elements(list[b]) = {}
  <2>1. PICK p \in DProc : \E i \in 1 .. Len(W(p)) : a = h[p] + i /\ list[a] = W(p)[i]
    BY <1>2
  <2>2. PICK q \in DProc : \E j \in 1 .. Len(W(q)) : b = h[q] + j /\ list[b] = W(q)[j]
    BY <1>2
  <2>i. PICK i \in 1 .. Len(W(p)) : a = h[p] + i /\ list[a] = W(p)[i]
    BY <2>1
  <2>j. PICK j \in 1 .. Len(W(q)) : b = h[q] + j /\ list[b] = W(q)[j]
    BY <2>2
  <2>3. CASE p = q
    <3>1. i # j
      BY <1>5, <2>i, <2>j, <2>3
    <3>2. Elements(W(p)[i]) \cap Elements(W(p)[j]) = {}
      BY <1>1, <2>3, <3>1 DEF Apart
    <3> QED
      BY <2>i, <2>j, <2>3, <3>2
  <2>4. CASE p # q
    <3>1. Share(m, f, p) \cap Share(m, f, q) = {}
      BY <2>4, SharesDiffer
    <3> QED
      BY <1>3, <2>i, <2>j, <3>1
  <2> QED
    BY <2>3, <2>4
<1>6. list \in Seq(Piece)
  BY DEF IsPacked
<1> QED
  BY <1>4, <1>5, <1>6 DEF Apart, Covered

\* What the requests of successive processes cover.
LEMMA BlockCovers ==
  ASSUME NEW m \in Maps, NEW f \in BOOLEAN, NEW h, NEW list, IsPacked(h, list, m, f),
         h = Ends(m, f),
         NEW a \in 0 .. DecompProcs, NEW b \in 0 .. DecompProcs, a <= b
  PROVE  UNION {Elements(list[i]) : i \in h[a] + 1 .. h[b]} = UNION {Share(m, f, p) : p \in a .. b - 1}
<1> DEFINE n == DecompProcs
<1>1. n \in Nat \ {0} /\ Sizes(m, f) \in [1 .. n -> Nat] /\ DProc = 0 .. n - 1
  <2>1. \A i \in 1 .. n : Len(Whole(m, f, i - 1)) \in Nat
    BY ConvertedFields, WholeApart
  <2> QED
    BY <2>1, DecompAssumption DEF Sizes, DProc
<1>2. h \in [0 .. n -> Nat] /\ Len(list) = h[n] /\ \A i \in 1 .. n : h[i] = h[i - 1] + Sizes(m, f)[i]
  BY DEF IsPacked, IsPrefixSum
<1>3. \A i, j \in 0 .. n : i <= j => h[i] <= h[j]
  BY <1>1, PrefixGrows DEF Ends
<1>4. n \in 0 .. n /\ h[a] \in Nat /\ h[b] \in Nat /\ h[n] \in Nat /\ h[b] <= h[n]
  BY <1>1, <1>2, <1>3
<1>5. \A p \in DProc : Covered(Whole(m, f, p)) = Share(m, f, p)
  BY WholeApart
<1>6. ASSUME NEW e, NEW i \in h[a] + 1 .. h[b], e \in Elements(list[i])
      PROVE  \E p \in a .. b - 1 : e \in Share(m, f, p)
  <2>1. i \in 1 .. Len(list)
    BY <1>2, <1>4
  <2>2. PICK p \in DProc : /\ h[p] < i /\ i <= h[p + 1]
                           /\ i - h[p] \in 1 .. Len(Whole(m, f, p))
                           /\ list[i] = Whole(m, f, p)[i - h[p]]
    BY <2>1, ListLocated
  <2>3. e \in Share(m, f, p)
    BY <1>5, <1>6, <2>2 DEF Covered
  <2>4. p \in Int /\ p \in 0 .. n /\ p + 1 \in 0 .. n /\ h[p] \in Nat /\ h[p + 1] \in Nat /\ i \in Int
    BY <1>1, <1>2, <1>4
  <2>5. a <= p
    <3>1. SUFFICES ASSUME p + 1 <= a PROVE FALSE
      BY <2>4
    <3>2. h[p + 1] <= h[a]
      BY <1>3, <2>4, <3>1
    <3> QED
      BY <1>4, <2>2, <2>4, <3>2
  <2>6. p < b
    <3>1. SUFFICES ASSUME b <= p PROVE FALSE
      BY <2>4
    <3>2. h[b] <= h[p]
      BY <1>3, <2>4, <3>1
    <3> QED
      BY <1>4, <2>2, <2>4, <3>2
  <2>7. p \in a .. b - 1
    BY <2>4, <2>5, <2>6
  <2> QED
    BY <2>3, <2>7
<1>7. ASSUME NEW e, NEW p \in a .. b - 1, e \in Share(m, f, p)
      PROVE  \E i \in h[a] + 1 .. h[b] : e \in Elements(list[i])
  <2>1. p \in DProc /\ p \in 0 .. n /\ p + 1 \in 0 .. n /\ p + 1 \in 1 .. n /\ a <= p /\ p + 1 <= b
    BY <1>1
  <2>2. PICK j \in 1 .. Len(Whole(m, f, p)) : e \in Elements(Whole(m, f, p)[j])
    BY <1>5, <1>7, <2>1 DEF Covered
  <2>3. list[h[p] + j] = Whole(m, f, p)[j]
    BY <2>1 DEF IsPacked
  <2>4. h[p + 1] = h[p] + Len(Whole(m, f, p))
    <3>1. (p + 1) - 1 = p
      BY <2>1
    <3>2. h[p + 1] = h[p] + Sizes(m, f)[p + 1]
      BY <1>2, <2>1, <3>1
    <3>3. Sizes(m, f)[p + 1] = Len(Whole(m, f, p))
      BY <2>1, <3>1 DEF Sizes
    <3> QED
      BY <3>2, <3>3
  <2>5. h[a] <= h[p] /\ h[p + 1] <= h[b] /\ h[p] \in Nat /\ Len(Whole(m, f, p)) \in Nat
    BY <1>2, <1>3, <2>1, WholeApart
  <2>6. h[p] + j \in h[a] + 1 .. h[b]
    BY <1>4, <2>4, <2>5
  <2> QED
    BY <2>2, <2>3, <2>6
<1> QED
  BY <1>6, <1>7

-----------------------------------------------------------------------------
(* What a rank reads.                                                      *)

\* The numbers of requests it goes by, as a list.
CountList == [i \in 1 .. DecompProcs |-> Counts[i - 1]]

\* read_decomp() sums the numbers of requests up to a process.
LEMMA BeforeIsPrefix ==
  ASSUME Counts \in [DProc -> Nat], NEW p \in 0 .. DecompProcs
  PROVE  /\ CountList \in [1 .. DecompProcs -> Nat]
         /\ Before(p) = Prefix(CountList, DecompProcs)[p]
<1> DEFINE n == DecompProcs
           c == Counts
           w == CountList
           F(f) == [q \in 0 .. n |-> IF q = 0 THEN 0 ELSE f[q - 1] + c[q - 1]]
           sum == CHOOSE f : f = F(f)
           h == Prefix(w, n)
<1>1. n \in Nat \ {0} /\ \A i \in 1 .. n : i - 1 \in DProc
  BY DecompAssumption DEF DProc
<1>2. c \in [DProc -> Nat]
  OBVIOUS
<1>3. Before(p) = sum[p]
  BY DEF Before
<1> HIDE DEF c
<1>4. w \in [1 .. n -> Nat] /\ \A i \in 1 .. n : w[i] = c[i - 1]
  <2>1. w = [i \in 1 .. n |-> c[i - 1]]
    BY DEF CountList, c
  <2> QED
    BY <1>1, <1>2, <2>1
<1>5. /\ h \in [0 .. n -> Nat] /\ h[0] = 0
      /\ \A i \in 1 .. n : h[i] = h[i - 1] + w[i]
  BY <1>1, <1>4, PrefixExists DEF IsPrefixSum
<1> HIDE DEF h, w
<1>6. \A f : \A q \in 0 .. n : F(f)[q] = IF q = 0 THEN 0 ELSE f[q - 1] + c[q - 1]
  OBVIOUS
<1>7. h = F(h)
  <2>1. \A q \in 0 .. n : h[q] = F(h)[q]
    <3> TAKE q \in 0 .. n
    <3>1. CASE q = 0
      BY <1>5, <1>6, <3>1
    <3>2. CASE q # 0
      <4>1. q \in 1 .. n
        BY <3>2
      <4> QED
        BY <1>4, <1>5, <1>6, <3>2, <4>1
    <3> QED
      BY <3>1, <3>2
  <2>2. F(h) = [q \in 0 .. n |-> F(h)[q]]
    OBVIOUS
  <2> HIDE DEF F
  <2> QED
    BY <1>5, <2>1, <2>2
<1>8. sum = F(sum)
  BY <1>7
<1> HIDE DEF sum, F
<1>9. \A q \in 0 .. n : sum[q] = IF q = 0 THEN 0 ELSE sum[q - 1] + c[q - 1]
  BY <1>6, <1>8
<1> DEFINE D == {k \in Nat : k <= n => sum[k] = h[k]}
<1>10. 0 \in D
  BY <1>1, <1>5, <1>9
<1>11. ASSUME NEW k \in Nat, k \in D PROVE k + 1 \in D
  <2>1. SUFFICES ASSUME k + 1 <= n PROVE sum[k + 1] = h[k + 1]
    OBVIOUS
  <2>2. /\ k + 1 \in 1 .. n /\ k + 1 \in 0 .. n /\ k + 1 # 0 /\ (k + 1) - 1 = k
        /\ sum[k] = h[k]
    <3>1. n \in Nat /\ k <= n
      BY <1>1, <2>1
    <3>2. sum[k] = h[k]
      BY <1>11, <3>1
    <3> QED
      BY <2>1, <3>1, <3>2
  <2>3. sum[k + 1] = sum[k] + c[k]
    BY <1>9, <2>2
  <2>4. h[k + 1] = h[k] + c[k]
    BY <1>4, <1>5, <2>2
  <2> QED
    BY <2>2, <2>3, <2>4
<1>12. \A k \in Nat : k \in D
  <2> HIDE DEF D
  <2> QED
    BY <1>10, <1>11, SetInduction
<1>13. sum[p] = h[p]
  BY <1>1, <1>12
<1> QED
  BY <1>3, <1>4, <1>13 DEF h, w

\* The elements of the processes whose requests a rank carries out.
RankShare(r) == UNION {Share(map, opt.fill, p) : p \in Carries(r)}

Given ==
  /\ map \in Maps
  /\ opt \in Options
  /\ nprocs \in 1 .. MaxProcs

\* The range of the inputs.
LEMMA GivenTypes ==
  ASSUME Given
  PROVE  /\ opt.fill \in BOOLEAN
         /\ opt.write \in BOOLEAN
         /\ nprocs \in Nat \ {0}
         /\ DecompProcs \in Nat \ {0}
         /\ \A r \in Rank : r \in 0 .. nprocs - 1
         /\ \A r \in Rank : Carries(r) \subseteq DProc
<1>1. opt.fill \in BOOLEAN /\ opt.write \in BOOLEAN
  BY DecompAssumption DEF Given
<1>2. nprocs \in Nat \ {0} /\ DecompProcs \in Nat \ {0}
  BY DecompAssumption DEF Given
<1>3. \A r \in Rank : r \in 0 .. nprocs - 1
  BY DEF Rank
<1>4. ASSUME NEW r \in Rank PROVE Carries(r) \subseteq DProc
  <2>1. /\ PartStart(DecompProcs, nprocs, r) \in Nat /\ PartCount(DecompProcs, nprocs, r) \in Nat
        /\ PartStart(DecompProcs, nprocs, r) + PartCount(DecompProcs, nprocs, r) <= DecompProcs
    BY <1>2, <1>3, PartEnds
  <2> QED
    BY <1>2, <2>1 DEF Carries, Part, DProc
<1> QED
  BY <1>1, <1>2, <1>3, <1>4

\* A hyperslab of the list holds requests that do not overlap; if gaps that
\* were filled are also counted, those of the processes of the rank.
LEMMA SlabApart ==
  ASSUME Given, file = Converted(map, opt.fill), NEW r \in Rank
  PROVE  /\ Apart(Slab(r))
         /\ Covered(Slab(r)) \subseteq Element
         /\ (opt.fill => opt.write) => Covered(Slab(r)) = RankShare(r)
<1> DEFINE n == DecompProcs
           l == file.list
           h == Ends(map, opt.fill)
           x == Sizes(map, opt.fill)
           c == Counts
           w == CountList
           k == Prefix(w, n)
           a == PartStart(n, nprocs, r)
           b == a + PartCount(n, nprocs, r)
<1>1. /\ opt.fill \in BOOLEAN /\ opt.write \in BOOLEAN /\ nprocs \in Nat \ {0} /\ n \in Nat \ {0}
      /\ map \in Maps /\ r \in 0 .. nprocs - 1
  BY GivenTypes DEF Given
<1>2. a \in Nat /\ b \in Nat /\ a <= b /\ b <= n
  <2>1. a \in Nat /\ PartCount(n, nprocs, r) \in Nat /\ b <= n
    BY <1>1, PartEnds
  <2> QED
    BY <2>1
<1>3. Carries(r) = a .. b - 1
  <2>1. a \in Nat /\ PartCount(n, nprocs, r) \in Nat
    BY <1>1, PartEnds
  <2>2. Carries(r) = a .. a + PartCount(n, nprocs, r) - 1
    BY DEF Carries, Part
  <2> HIDE DEF a
  <2> QED
    BY <2>1, <2>2
<1>4. Slab(r) = SubSeq(l, Before(a) + 1, Before(b))
  BY DEF Slab
<1> HIDE DEF a, b
<1>5. /\ file.nreqs = [p \in DProc |-> Len(Whole(map, opt.fill, p))]
      /\ file.fillStarts = [p \in DProc |-> Len(Real(map, p))]
      /\ \A i \in 1 .. n : i - 1 \in DProc
  BY <1>1, ConvertedFields
<1>6. \A p \in DProc : /\ Len(Real(map, p)) \in Nat /\ Len(Whole(map, opt.fill, p)) \in Nat
                       /\ Len(Real(map, p)) <= Len(Whole(map, opt.fill, p))
                       /\ ~opt.fill => Len(Real(map, p)) = Len(Whole(map, opt.fill, p))
  BY <1>1, WholeApart
<1>7. c \in [DProc -> Nat]
  BY <1>5, <1>6 DEF Counts
<1>8. w \in [1 .. n -> Nat] /\ Before(a) = k[a] /\ Before(b) = k[b]
  <2>1. a \in 0 .. n /\ b \in 0 .. n
    BY <1>1, <1>2
  <2> QED
    BY <1>7, <2>1, BeforeIsPrefix
<1>9. x \in [1 .. n -> Nat] /\ \A i \in 1 .. n : x[i] = Len(Whole(map, opt.fill, i - 1))
  BY <1>5, <1>6 DEF Sizes
<1>10. \A i \in 1 .. n : w[i] <= x[i] /\ ((opt.fill => opt.write) => w[i] = x[i])
  <2> TAKE i \in 1 .. n
  <2>1. i - 1 \in DProc
    BY <1>5
  <2>2. w[i] = c[i - 1]
    BY DEF CountList
  <2>3. c[i - 1] = IF opt.write THEN Len(Whole(map, opt.fill, i - 1)) ELSE Len(Real(map, i - 1))
    BY <1>5, <2>1 DEF Counts
  <2> HIDE DEF c, w
  <2> QED
    BY <1>1, <1>6, <1>9, <2>1, <2>2, <2>3
<1>11. IsPacked(h, l, map, opt.fill)
  BY <1>1, ListPacked
<1>12. Apart(l) /\ Covered(l) \subseteq Element
  BY <1>1, <1>11, ListApart
<1>13. k[a] \in Nat /\ k[b] \in Nat /\ k[a] <= k[b] /\ k[b] <= Len(l)
  <2>1. IsPrefixSum(k, w, n) /\ a \in 0 .. n /\ b \in 0 .. n /\ n \in 0 .. n /\ n \in Nat
    BY <1>1, <1>2, <1>8, PrefixExists
  <2>2. k[a] \in Nat /\ k[b] \in Nat /\ k[n] \in Nat
    BY <2>1 DEF IsPrefixSum
  <2>3. k[a] <= k[b] /\ k[b] <= k[n]
    BY <1>1, <1>2, <1>8, <2>1, PrefixGrows
  <2>4. k[n] <= h[n]
    BY <1>8, <1>9, <1>10, <2>1, PrefixDominates DEF Ends
  <2>5. Len(l) = h[n] /\ Len(l) \in Nat
    BY <1>11, LenProperties DEF IsPacked
  <2> HIDE DEF k, h, l
  <2> QED
    BY <2>2, <2>3, <2>4, <2>5
<1>14. /\ Apart(Slab(r))
       /\ Covered(Slab(r)) = UNION {Elements(l[i]) : i \in k[a] + 1 .. k[b]}
  <2> DEFINE u == k[a]
             v == k[b]
  <2>1. u \in Nat /\ v \in Nat /\ u <= v /\ v <= Len(l) /\ Slab(r) = SubSeq(l, u + 1, v)
    BY <1>4, <1>8, <1>13
  <2> HIDE DEF u, v, k, l
  <2>2. /\ Apart(Slab(r))
        /\ Covered(Slab(r)) = UNION {Elements(l[i]) : i \in u + 1 .. v}
    <3>1. Apart(l)
      BY <1>12
    <3>2. /\ Apart(SubSeq(l, u + 1, v))
          /\ Covered(SubSeq(l, u + 1, v)) = UNION {Elements(l[i]) : i \in u + 1 .. v}
      BY ONLY <2>1, <3>1, SubSeqApart
    <3> QED
      BY ONLY <2>1, <3>2
  <2> QED
    BY <2>2 DEF u, v
<1>15. Covered(Slab(r)) \subseteq Element
  <2>1. \A i \in k[a] + 1 .. k[b] : i \in 1 .. Len(l)
    <3>1. Len(l) \in Nat
      BY <1>11, LenProperties DEF IsPacked
    <3> HIDE DEF k, l
    <3> QED
      BY <1>13, <3>1
  <2>2. \A i \in k[a] + 1 .. k[b] : Elements(l[i]) \subseteq Covered(l)
    BY <2>1 DEF Covered
  <2> QED
    BY <1>12, <1>14, <2>2
<1>16. ASSUME opt.fill => opt.write PROVE Covered(Slab(r)) = RankShare(r)
  <2>1. w = x
    <3>1. \A i \in 1 .. n : w[i] = x[i]
      BY <1>10, <1>16
    <3>2. w \in [1 .. n -> Nat] /\ x \in [1 .. n -> Nat]
      BY <1>8, <1>9
    <3> HIDE DEF w, x
    <3>3. w = [i \in 1 .. n |-> w[i]] /\ x = [i \in 1 .. n |-> x[i]]
      BY ONLY <3>2
    <3> QED
      BY ONLY <3>1, <3>3
  <2>2. k = h
    BY <2>1 DEF Ends
  <2>3. a \in 0 .. n /\ b \in 0 .. n
    BY <1>1, <1>2
  <2>4. UNION {Elements(l[i]) : i \in h[a] + 1 .. h[b]} = UNION {Share(map, opt.fill, p) : p \in a .. b - 1}
    <3>1. h = Ends(map, opt.fill)
      OBVIOUS
    <3> HIDE DEF h, l
    <3> QED
      BY ONLY <1>1, <1>2, <1>11, <2>3, <3>1, BlockCovers
  <2> QED
    BY <1>3, <1>14, <2>2, <2>4 DEF RankShare
<1> QED
  BY <1>14, <1>15, <1>16

-----------------------------------------------------------------------------
(* The inductive invariant.                                                *)

IsReading(s, o, share) ==
  /\ Apart(s)
  /\ Covered(s) \subseteq Element
  /\ Maximal(s)
  /\ (o.fill => o.write) => Covered(s) = share

ReadInv ==
  /\ Given
  /\ file \in {None, Converted(map, opt.fill)}
  /\ DOMAIN reqs \subseteq Rank
  /\ \A r \in DOMAIN reqs : IsReading(reqs[r], opt, RankShare(r))

\* It holds at first ...
LEMMA InitReadInv ==
  Init => ReadInv
<1> SUFFICES ASSUME Init PROVE ReadInv
  OBVIOUS
<1>1. Given
  BY DEF Init, Given
<1>2. DOMAIN reqs = {}
  BY DEF Init
<1> QED
  BY <1>1, <1>2 DEF Init, ReadInv

\* ... every step keeps it ...
LEMMA NextReadInv ==
  ReadInv /\ [Next]_vars => ReadInv'
<1> SUFFICES ASSUME ReadInv, [Next]_vars PROVE ReadInv'
  OBVIOUS
<1>1. /\ Given
      /\ file \in {None, Converted(map, opt.fill)}
      /\ DOMAIN reqs \subseteq Rank
      /\ \A r \in DOMAIN reqs : IsReading(reqs[r], opt, RankShare(r))
  BY DEF ReadInv
<1>2. CASE Convert
  <2>1. /\ file' = Converted(map, opt.fill) /\ map' = map /\ opt' = opt
        /\ nprocs' = nprocs /\ reqs' = reqs
    BY <1>2 DEF Convert
  <2>2. \A r : RankShare(r)' = RankShare(r)
    BY <2>1 DEF RankShare, Carries
  <2> QED
    BY <1>1, <2>1, <2>2 DEF ReadInv, Given, Rank
<1>3. ASSUME NEW r \in Rank, ReadDecomp(r) PROVE ReadInv'
  <2> DEFINE t == Merged(FALSE, Sorted(Slab(r)))
  <2>1. /\ file # None /\ file' = file /\ map' = map /\ opt' = opt /\ nprocs' = nprocs
        /\ reqs' = [q \in DOMAIN reqs \cup {r} |-> IF q = r THEN t ELSE reqs[q]]
        /\ r \notin DOMAIN reqs
    BY <1>3 DEF ReadDecomp
  <2>2. \A q : RankShare(q)' = RankShare(q)
    BY <2>1 DEF RankShare, Carries
  <2>3. file = Converted(map, opt.fill)
    BY <1>1, <2>1
  <2>4. IsReading(t, opt, RankShare(r))
    <3>1. /\ Apart(Slab(r)) /\ Covered(Slab(r)) \subseteq Element
          /\ (opt.fill => opt.write) => Covered(Slab(r)) = RankShare(r)
      BY <1>1, <2>3, SlabApart
    <3>2. Apart(t) /\ Covered(t) = Covered(Slab(r)) /\ Maximal(t)
      BY <3>1, ReadApart
    <3> HIDE DEF t
    <3> QED
      BY <3>1, <3>2 DEF IsReading
  <2> HIDE DEF t
  <2>5. DOMAIN reqs' = DOMAIN reqs \cup {r}
    BY <2>1
  <2>6. ASSUME NEW q \in DOMAIN reqs' PROVE IsReading(reqs'[q], opt', RankShare(q)')
    <3>1. CASE q = r
      <4>1. reqs'[q] = t
        BY <2>1, <3>1
      <4> QED
        BY <2>1, <2>2, <2>4, <3>1, <4>1
    <3>2. CASE q # r
      <4>1. q \in DOMAIN reqs /\ reqs'[q] = reqs[q]
        BY <2>1, <2>5, <3>2
      <4> QED
        BY <1>1, <2>1, <2>2, <4>1
    <3> QED
      BY <3>1, <3>2
  <2>7. Given' /\ Rank' = Rank
    BY <1>1, <2>1 DEF Given, Rank
  <2>8. DOMAIN reqs' \subseteq Rank'
    BY <1>1, <2>5, <2>7
  <2>9. file' \in {None, Converted(map, opt.fill)'}
    BY <2>1, <2>3
  <2> QED
    BY <2>6, <2>7, <2>8, <2>9 DEF ReadInv
<1>4. CASE UNCHANGED vars
  <2>1. file' = file /\ map' = map /\ opt' = opt /\ nprocs' = nprocs /\ reqs' = reqs
    BY <1>4 DEF vars
  <2>2. \A q : RankShare(q)' = RankShare(q)
    BY <2>1 DEF RankShare, Carries
  <2> QED
    BY <1>1, <2>1, <2>2 DEF ReadInv, Given, Rank
<1>5. CASE Finished
  BY <1>4, <1>5 DEF Finished
<1> QED
  BY <1>2, <1>3, <1>4, <1>5 DEF Next

\* ... so it always holds.
LEMMA SpecReadInv ==
  Spec => []ReadInv
<1>1. Init => ReadInv
  BY InitReadInv
<1>2. ReadInv /\ [Next]_vars => ReadInv'
  BY NextReadInv
<1> QED
  BY <1>1, <1>2, PTL DEF Spec

-----------------------------------------------------------------------------
(* What follows from it.                                                   *)

\* Requests within the array are of the type of the pairs.
LEMMA ApartIsRequests ==
  ASSUME NEW s, Apart(s), Covered(s) \subseteq Element
  PROVE  s \in Seq(Request)
<1>1. s \in Seq(Piece) /\ Len(s) \in Nat /\ s \in [1 .. Len(s) -> Piece]
  BY DEF Apart
<1>2. ASSUME NEW i \in 1 .. Len(s) PROVE s[i] \in Request
  <2> DEFINE x == s[i]
  <2>1. x \in Piece /\ Elements(x) \subseteq Element
    BY <1>1 DEF Covered
  <2>2. x = [off |-> x.off, len |-> x.len] /\ x.off \in Nat /\ x.len \in Nat \ {0}
    BY <2>1 DEF Piece
  <2> HIDE DEF x
  <2>3. GSize \in Nat
    BY DecompAssumption
  <2>4. x.off \in Elements(x) /\ x.off + x.len - 1 \in Elements(x)
    BY <2>2 DEF Elements
  <2>5. x.off \in 0 .. GSize - 1 /\ x.off + x.len - 1 \in 0 .. GSize - 1
    BY <2>1, <2>4 DEF Element
  <2>6. x.off \in Element /\ x.len \in 1 .. GSize
    BY <2>2, <2>3, <2>5 DEF Element
  <2> QED
    BY <2>2, <2>6 DEF Request, x
<1>3. s \in [1 .. Len(s) -> Request]
  BY <1>1, <1>2
<1> QED
  BY <1>1, <1>3, FunctionIsSeq

\* The decomposition file and the requests of the ranks are well-formed,
\* whatever the map, the options and the number of ranks.
THEOREM RequestsWellFormed ==
  Spec => []TypeOK
<1>1. ReadInv => TypeOK
  <2> SUFFICES ASSUME ReadInv PROVE TypeOK
    OBVIOUS
  <2>1. Given /\ opt.fill \in BOOLEAN /\ map \in Maps
    BY GivenTypes DEF ReadInv, Given
  <2>2. map \in [DProc -> Seq(Nat)]
    BY <2>1, DecompAssumption
  <2>3. ASSUME file # None
        PROVE  /\ file.nreqs \in [DProc -> Nat]
               /\ file.fillStarts \in [DProc -> Nat]
               /\ file.list \in Seq(Request)
    <3>1. file = Converted(map, opt.fill)
      BY <2>3 DEF ReadInv
    <3>2. \A p \in DProc : Len(Real(map, p)) \in Nat /\ Len(Whole(map, opt.fill, p)) \in Nat
      BY <2>1, WholeApart
    <3>3. /\ file.nreqs = [p \in DProc |-> Len(Whole(map, opt.fill, p))]
          /\ file.fillStarts = [p \in DProc |-> Len(Real(map, p))]
      BY <2>1, <3>1, ConvertedFields
    <3>4. Apart(file.list) /\ Covered(file.list) \subseteq Element
      BY <2>1, <3>1, ListPacked, ListApart
    <3>5. file.list \in Seq(Request)
      BY <3>4, ApartIsRequests
    <3> QED
      BY <3>2, <3>3, <3>5
  <2>4. \A r \in DOMAIN reqs : reqs[r] \in Seq(Request)
    BY ApartIsRequests DEF ReadInv, IsReading
  <2> QED
    BY <2>1, <2>2, <2>3, <2>4 DEF TypeOK, Given
<1> QED
  BY <1>1, SpecReadInv, PTL

\* No request of a rank crosses the end of a row.
THEOREM RequestsInOneRow ==
  Spec => []OneRow
<1>1. ReadInv => OneRow
  <2> SUFFICES ASSUME ReadInv, NEW r \in DOMAIN reqs, NEW i \in DOMAIN reqs[r]
               PROVE  (reqs[r][i].off % DimX) + reqs[r][i].len <= DimX
    BY DEF OneRow
  <2>1. Apart(reqs[r])
    BY DEF ReadInv, IsReading
  <2>2. i \in 1 .. Len(reqs[r])
    BY <2>1 DEF Apart
  <2>3. InRow(reqs[r][i])
    BY <2>1, <2>2 DEF Apart
  <2> QED
    BY <2>3 DEF InRow
<1> QED
  BY <1>1, SpecReadInv, PTL

\* The requests of a rank ascend, and no two of them could be one.
THEOREM RequestsNoncontiguous ==
  Spec => []Noncontiguous
<1>1. ReadInv => Noncontiguous
  <2> SUFFICES ASSUME ReadInv, NEW r \in DOMAIN reqs,
                      NEW i \in DOMAIN reqs[r], NEW j \in DOMAIN reqs[r], i < j
               PROVE  \/ reqs[r][i].off + reqs[r][i].len < reqs[r][j].off
                      \/ /\ reqs[r][i].off + reqs[r][i].len = reqs[r][j].off
                         /\ reqs[r][j].off % DimX = 0
    BY DEF Noncontiguous
  <2>1. Apart(reqs[r]) /\ Maximal(reqs[r])
    BY DEF ReadInv, IsReading
  <2>2. i \in 1 .. Len(reqs[r]) /\ j \in 1 .. Len(reqs[r])
    BY <2>1 DEF Apart
  <2> QED
    BY <2>1, <2>2 DEF Maximal, End
<1> QED
  BY <1>1, SpecReadInv, PTL

\* The writers of an element, when every rank has read its requests and the
\* gaps are counted if they are filled.
LEMMA WritersOfShare ==
  ASSUME ReadInv, opt.fill => opt.write, DOMAIN reqs = Rank
  PROVE  /\ \A r \in Rank : \A e \in RankShare(r) : \E i : Writers(e) = {<<r, i>>}
         /\ \A e : (\A r \in Rank : e \notin RankShare(r)) => Writers(e) = {}
<1>1. /\ Given /\ map \in Maps /\ opt.fill \in BOOLEAN
      /\ nprocs \in Nat \ {0} /\ DecompProcs \in Nat \ {0} /\ DecompProcs \in Nat
      /\ \A r \in Rank : r \in 0 .. nprocs - 1
      /\ \A r \in Rank : Carries(r) \subseteq DProc
  BY GivenTypes DEF ReadInv, Given
<1>2. \A r \in Rank : Apart(reqs[r]) /\ Covered(reqs[r]) = RankShare(r)
  BY DEF ReadInv, IsReading
<1>3. \A r \in Rank : DOMAIN reqs[r] = 1 .. Len(reqs[r])
  BY <1>2 DEF Apart
<1>4. ASSUME NEW e, NEW w
      PROVE  w \in Writers(e) <=> \E r \in Rank : \E i \in 1 .. Len(reqs[r]) :
                                    w = <<r, i>> /\ e \in Elements(reqs[r][i])
  <2>1. ASSUME w \in Writers(e)
        PROVE  \E r \in Rank : \E i \in 1 .. Len(reqs[r]) :
                 w = <<r, i>> /\ e \in Elements(reqs[r][i])
    <3>1. PICK r \in Rank : w \in {r} \X DOMAIN reqs[r]
      BY <2>1 DEF Writers
    <3>2. PICK i \in DOMAIN reqs[r] : w = <<r, i>>
      BY <3>1
    <3>3. e \in Elements(reqs[w[1]][w[2]])
      BY <2>1 DEF Writers
    <3> QED
      BY <1>3, <3>2, <3>3
  <2>2. ASSUME NEW r \in Rank, NEW i \in 1 .. Len(reqs[r]), w = <<r, i>>, e \in Elements(reqs[r][i])
        PROVE  w \in Writers(e)
    <3>1. w \in {r} \X DOMAIN reqs[r]
      BY <1>3, <2>2
    <3>2. e \in Elements(reqs[w[1]][w[2]])
      BY <2>2
    <3> QED
      BY <3>1, <3>2 DEF Writers
  <2> QED
    BY <2>1, <2>2
<1>5. ASSUME NEW r \in Rank, NEW e \in RankShare(r) PROVE \E i : Writers(e) = {<<r, i>>}
  <2>1. PICK i \in 1 .. Len(reqs[r]) : e \in Elements(reqs[r][i])
    BY <1>2 DEF Covered
  <2>2. ASSUME NEW q \in Rank, NEW j \in 1 .. Len(reqs[q]), e \in Elements(reqs[q][j])
        PROVE  <<q, j>> = <<r, i>>
    <3>1. q = r
      <4>1. SUFFICES ASSUME q # r PROVE FALSE
        OBVIOUS
      <4>2. e \in RankShare(q)
        BY <1>2, <2>2 DEF Covered
      <4>3. PICK b \in Carries(q) : e \in Share(map, opt.fill, b)
        BY <4>2 DEF RankShare
      <4>4. PICK a \in Carries(r) : e \in Share(map, opt.fill, a)
        BY DEF RankShare
      <4>5. Carries(q) \cap Carries(r) = {}
        BY <1>1, <4>1, PartsDiffer DEF Carries
      <4>6. a # b /\ a \in DProc /\ b \in DProc
        BY <1>1, <4>5
      <4>7. Share(map, opt.fill, a) \cap Share(map, opt.fill, b) = {}
        BY <1>1, <4>6, SharesDiffer
      <4> QED
        BY <4>3, <4>4, <4>7
    <3>2. j = i
      <4>1. SUFFICES ASSUME j # i PROVE FALSE
        OBVIOUS
      <4>2. Elements(reqs[r][j]) \cap Elements(reqs[r][i]) = {}
        BY <1>2, <3>1, <4>1 DEF Apart
      <4> QED
        BY <2>1, <2>2, <3>1, <4>2
    <3> QED
      BY <3>1, <3>2
  <2>3. ASSUME NEW w PROVE w \in Writers(e) <=> w = <<r, i>>
    BY <1>4, <2>1, <2>2
  <2>4. Writers(e) = {<<r, i>>}
    BY <2>3
  <2> QED
    BY <2>4
<1>6. ASSUME NEW e, \A r \in Rank : e \notin RankShare(r) PROVE Writers(e) = {}
  <2>1. ASSUME NEW w \in Writers(e) PROVE FALSE
    <3>1. PICK r \in Rank : \E i \in 1 .. Len(reqs[r]) : e \in Elements(reqs[r][i])
      BY <1>4
    <3>2. e \in RankShare(r)
      BY <1>2, <3>1 DEF Covered
    <3> QED
      BY <1>6, <3>2
  <2> QED
    BY <2>1
<1> QED
  BY <1>5, <1>6

\* Unless gaps are filled and then not written, every element that a process
\* of the map owns is written once, by the rank that carries out the requests
\* of this process; every other element is written once with -u, and not at
\* all without.
THEOREM ElementsWrittenOnce ==
  ASSUME \A o \in Options : o.fill => o.write
  PROVE  Spec => []EachOnce
<1>1. ReadInv => EachOnce
  <2> SUFFICES ASSUME ReadInv, DOMAIN reqs = Rank
               PROVE  /\ \A p \in DProc : \A e \in OwnedBy(map, p) :
                           \E w \in Writers(e) : Writers(e) = {w} /\ p \in Carries(w[1])
                      /\ \A e \in Element \ Owned(map) :
                           IF opt.fill /\ opt.write THEN \E w \in Writers(e) : Writers(e) = {w}
                           ELSE Writers(e) = {}
    BY DEF EachOnce
  <2>1. /\ Given /\ map \in Maps /\ opt.fill \in BOOLEAN
        /\ nprocs \in Nat \ {0} /\ DecompProcs \in Nat \ {0} /\ DecompProcs \in Nat
        /\ \A r \in Rank : Carries(r) \subseteq DProc
        /\ opt.fill => opt.write
    BY GivenTypes DEF ReadInv, Given
  <2>2. ASSUME NEW p \in DProc PROVE \E r \in Rank : p \in Carries(r)
    <3>1. p \in 0 .. DecompProcs - 1
      BY DEF DProc
    <3>2. \E r \in 0 .. nprocs - 1 : p \in Part(DecompProcs, nprocs, r)
      BY <2>1, <3>1, BlocksCover
    <3> QED
      BY <3>2 DEF Rank, Carries
  <2>3. /\ \A r \in Rank : \A e \in RankShare(r) : \E i : Writers(e) = {<<r, i>>}
        /\ \A e : (\A r \in Rank : e \notin RankShare(r)) => Writers(e) = {}
    BY <2>1, WritersOfShare
  <2>4. ASSUME NEW p \in DProc, NEW e \in Share(map, opt.fill, p)
        PROVE  \E w \in Writers(e) : Writers(e) = {w} /\ p \in Carries(w[1])
    <3>1. PICK r \in Rank : p \in Carries(r)
      BY <2>2
    <3>2. e \in RankShare(r)
      BY <3>1 DEF RankShare
    <3>3. PICK i : Writers(e) = {<<r, i>>}
      BY <2>3, <3>2
    <3> QED
      BY <3>1, <3>3
  <2>5. \A p \in DProc : OwnedBy(map, p) \subseteq Share(map, opt.fill, p)
    BY DEF Share
  <2>6. ASSUME NEW e \in Element \ Owned(map)
        PROVE  IF opt.fill /\ opt.write THEN \E w \in Writers(e) : Writers(e) = {w}
               ELSE Writers(e) = {}
    <3>1. CASE opt.fill
      <4>1. PICK p \in DProc : e \in Covered(Fill(map, p))
        BY <2>1, FillsCover
      <4>2. e \in Share(map, opt.fill, p)
        BY <3>1, <4>1 DEF Share
      <4>3. \E w \in Writers(e) : Writers(e) = {w}
        BY <2>4, <4>2
      <4> QED
        BY <2>1, <3>1, <4>3
    <3>2. CASE ~opt.fill
      <4>1. ASSUME NEW r \in Rank, e \in RankShare(r) PROVE FALSE
        <5>1. PICK p \in Carries(r) : e \in Share(map, opt.fill, p)
          BY <4>1 DEF RankShare
        <5>2. p \in DProc /\ e \in OwnedBy(map, p)
          BY <2>1, <3>2, <5>1 DEF Share
        <5> QED
          BY <5>2 DEF Owned
      <4>2. Writers(e) = {}
        BY <2>3, <4>1
      <4> QED
        BY <3>2, <4>2
    <3> QED
      BY <3>1, <3>2
  <2> QED
    BY <2>4, <2>5, <2>6
<1> QED
  BY <1>1, SpecReadInv, PTL
=============================================================================
