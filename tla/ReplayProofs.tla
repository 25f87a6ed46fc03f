---------------------------- MODULE ReplayProofs -----------------------------
(***************************************************************************)
(* Proofs about SubFiles and Replay, for every number of ranks and of      *)
(* replaying processes, all their placements on nodes, all requests and    *)
(* variables.                                                              *)
(***************************************************************************)
EXTENDS Replay, PrefixSums

\* The number of cells of an array.
Volume(dims) ==
  IF Len(dims) = 1 THEN dims[1]
  ELSE IF Len(dims) = 2 THEN dims[1] * dims[2]
  ELSE (dims[1] * dims[2]) * dims[3]

\* The shapes of the decompositions: one to three dimensions, none empty.
Shape(dims) == dims \in Seq(Positive) /\ Len(dims) \in {1, 2, 3}

-----------------------------------------------------------------------------
(* Start vectors.                                                          *)

\* The lengths of the dimensions.
LEMMA Lengths ==
  ASSUME NEW dims, Shape(dims)
  PROVE  /\ Len(dims) = 1 => dims[1] \in Positive
         /\ Len(dims) = 2 => dims[1] \in Positive /\ dims[2] \in Positive
         /\ Len(dims) = 3 => dims[1] \in Positive /\ dims[2] \in Positive /\ dims[3] \in Positive
  BY DEF Shape

\* In three dimensions the first two coordinates are those of the row.
LEMMA CoordByRow ==
  ASSUME NEW dims, Shape(dims), Len(dims) = 3, NEW off \in Nat
  PROVE  LET row == off \div dims[3]
         IN  /\ row \in Nat
             /\ Coord(off, dims) = <<row \div dims[2], row % dims[2], off % dims[3]>>
<1> DEFINE d == dims[3]
           e == dims[2]
           x == off \div (d * e)
           y == (off % (d * e)) \div d
           row == off \div d
<1>1. d \in Positive /\ e \in Positive
  BY Lengths
<1>2. Coord(off, dims) = <<x, y, off % d>>
  BY DEF Coord
<1> HIDE DEF d, e
<1>3. d * e \in Positive /\ y \in 0 .. e - 1 /\ row = x * e + y
  BY <1>1, DivTwice
<1>4. x \in Nat /\ row \in Nat
  BY <1>1, <1>3, DivMod
<1>5. row = e * x + y
  <2> HIDE DEF x, y, row
  <2>1. e \in Nat
    BY <1>1 DEF Positive
  <2>2. x * e = e * x
    BY <2>1, <1>4
  <2> QED
    BY <1>3, <2>2
<1>6. row \div e = x /\ row % e = y
  <2> HIDE DEF x, y, row
  <2> QED
    BY <1>1, <1>3, <1>4, <1>5, DivUnique
<1> QED
  BY <1>2, <1>4, <1>6 DEF d, e

\* set_starts_counts() loses nothing: the cell of an offset is at that place
\* of the array in row-major order.
THEOREM CoordIsPlace ==
  ASSUME NEW dims, Shape(dims), NEW off \in Nat
  PROVE  RowMajor(Coord(off, dims), dims) = off
<1>1. CASE Len(dims) = 1
  BY <1>1 DEF Coord, RowMajor
<1>2. CASE Len(dims) = 2
  <2>1. dims[2] \in Positive /\ dims[2] \in Nat
    BY <1>2, Lengths DEF Positive
  <2>2. /\ off \div dims[2] \in Nat
        /\ off % dims[2] \in Nat
        /\ off = dims[2] * (off \div dims[2]) + (off % dims[2])
    BY <2>1, DivMod
  <2>3. dims[2] * (off \div dims[2]) = (off \div dims[2]) * dims[2]
    BY <2>1, <2>2
  <2>4. RowMajor(Coord(off, dims), dims) = (off \div dims[2]) * dims[2] + (off % dims[2])
    BY <1>2 DEF Coord, RowMajor
  <2> QED
    BY <2>2, <2>3, <2>4
<1>3. CASE Len(dims) = 3
  <2> DEFINE row == off \div dims[3]
  <2>1. /\ dims[3] \in Positive /\ dims[3] \in Nat
        /\ dims[2] \in Positive /\ dims[2] \in Nat
    BY <1>3, Lengths DEF Positive
  <2>2. row \in Nat /\ off % dims[3] \in Nat /\ off = dims[3] * row + (off % dims[3])
    BY <2>1, DivMod
  <2>3. Coord(off, dims) = <<row \div dims[2], row % dims[2], off % dims[3]>>
    BY <1>3, CoordByRow
  <2> HIDE DEF row
  <2>4. row \div dims[2] \in Nat /\ row % dims[2] \in Nat
        /\ row = dims[2] * (row \div dims[2]) + (row % dims[2])
    BY <2>1, <2>2, DivMod
  <2>5. dims[2] * (row \div dims[2]) = (row \div dims[2]) * dims[2]
        /\ dims[3] * row = row * dims[3]
    BY <2>1, <2>2, <2>4
  <2>6. RowMajor(Coord(off, dims), dims)
          = ((row \div dims[2]) * dims[2] + (row % dims[2])) * dims[3] + (off % dims[3])
    BY <1>3, <2>3 DEF RowMajor
  <2>7. (row \div dims[2]) * dims[2] + (row % dims[2]) = row
    BY <2>4, <2>5
  <2> QED
    BY <2>2, <2>5, <2>6, <2>7
<1> QED
  BY <1>1, <1>2, <1>3 DEF Shape

\* The cell of an offset within the array is a cell of the array.
THEOREM CoordInside ==
  ASSUME NEW dims, Shape(dims), NEW off \in Nat, off < Volume(dims)
  PROVE  Coord(off, dims) \in Index(dims)
<1>1. CASE Len(dims) = 1
  <2>1. dims[1] \in Nat /\ off < dims[1]
    BY <1>1, Lengths DEF Positive, Volume
  <2> QED
    BY <1>1, <2>1 DEF Coord, Index
<1>2. CASE Len(dims) = 2
  <2>1. dims[1] \in Nat /\ dims[2] \in Positive /\ dims[2] \in Nat
    BY <1>2, Lengths DEF Positive
  <2>2. dims[1] * dims[2] = dims[2] * dims[1]
    BY <2>1
  <2>3. off < dims[2] * dims[1]
    BY <1>2, <2>2 DEF Volume
  <2>4. off \div dims[2] \in 0 .. dims[1] - 1 /\ off % dims[2] \in 0 .. dims[2] - 1
    BY <2>1, <2>3, DivBelow, DivMod
  <2> QED
    BY <1>2, <2>4 DEF Coord, Index
<1>3. CASE Len(dims) = 3
  <2> DEFINE row == off \div dims[3]
  <2>1. /\ dims[3] \in Positive /\ dims[3] \in Nat
        /\ dims[2] \in Positive /\ dims[2] \in Nat /\ dims[1] \in Nat
    BY <1>3, Lengths DEF Positive
  <2>2. dims[1] * dims[2] \in Nat /\ dims[1] * dims[2] = dims[2] * dims[1]
    BY <2>1
  <2>3. (dims[1] * dims[2]) * dims[3] = dims[3] * (dims[1] * dims[2])
    BY <2>1, <2>2
  <2>4. off < dims[3] * (dims[1] * dims[2])
    BY <1>3, <2>3 DEF Volume
  <2>5. row \in 0 .. (dims[1] * dims[2]) - 1 /\ off % dims[3] \in 0 .. dims[3] - 1
    BY <2>1, <2>2, <2>4, DivBelow, DivMod
  <2>6. Coord(off, dims) = <<row \div dims[2], row % dims[2], off % dims[3]>>
    BY <1>3, CoordByRow
  <2> HIDE DEF row
  <2>7. row \in Nat /\ row < dims[2] * dims[1]
    BY <2>2, <2>5
  <2>8. row \div dims[2] \in 0 .. dims[1] - 1 /\ row % dims[2] \in 0 .. dims[2] - 1
    BY <2>1, <2>7, DivBelow, DivMod
  <2> QED
    BY <1>3, <2>5, <2>6, <2>8 DEF Index
<1> QED
  BY <1>1, <1>2, <1>3 DEF Shape

\* set_decomp() of the replay computes the same start vectors.
THEOREM ReplayAgrees ==
  ASSUME NEW dims, Shape(dims), NEW off \in Nat
  PROVE  ReplayCoord(off, dims) = Coord(off, dims)
<1>1. CASE Len(dims) = 1
  BY <1>1 DEF Coord, ReplayCoord
<1>2. CASE Len(dims) = 2
  BY <1>2 DEF Coord, ReplayCoord
<1>3. CASE Len(dims) = 3
  <2> DEFINE d == dims[3]
             e == dims[2]
  <2>1. d \in Positive /\ e \in Positive /\ d \in Nat /\ e \in Nat
    BY <1>3, Lengths DEF Positive
  <2>2. /\ Coord(off, dims) = <<off \div (d * e), (off % (d * e)) \div d, off % d>>
        /\ ReplayCoord(off, dims) = <<off \div (e * d), (off % (e * d)) \div d, (off % (e * d)) % d>>
    BY <1>3 DEF Coord, ReplayCoord
  <2> HIDE DEF d, e
  <2>3. e * d = d * e
    BY <2>1
  <2>4. (off % (d * e)) % d = off % d
    BY <2>1, DivTwice
  <2> QED
    BY <2>2, <2>3, <2>4
<1> QED
  BY <1>1, <1>2, <1>3 DEF Shape

\* A request that read_decomp() has not merged across a row, that is, whose
\* length fits behind its start in the last dimension, covers exactly the
\* cells of its successive elements, although only its first element has
\* been converted.
THEOREM RequestIsRow ==
  ASSUME NEW dims, Shape(dims), NEW off \in Nat, NEW len \in Nat,
         Len(dims) > 1 => (off % dims[Len(dims)]) + len <= dims[Len(dims)],
         NEW i \in 1 .. len
  PROVE  RequestCells(Coord(off, dims), len)[i] = Coord(off + i - 1, dims)
<1>0. RequestCells(Coord(off, dims), len)[i]
        = [Coord(off, dims) EXCEPT ![Len(Coord(off, dims))] = @ + i - 1]
  BY DEF RequestCells
<1>a. off + i - 1 \in Nat /\ i \in Nat /\ i >= 1 /\ i <= len
  OBVIOUS
\* The next elements of a row have the same quotient.
<1>b. ASSUME NEW d \in Positive, (off % d) + len <= d
      PROVE  /\ off \div d \in Nat /\ off % d \in Nat
             /\ (off + i - 1) \div d = off \div d
             /\ (off + i - 1) % d = (off % d) + i - 1
  <2> DEFINE q == off \div d
             r == off % d
  <2>1. d \in Nat /\ q \in Nat /\ r \in 0 .. d - 1 /\ off = d * q + r
    BY DivMod DEF Positive
  <2>2. r + len <= d
    BY <1>b
  <2> HIDE DEF q, r
  <2>3. d * q \in Nat
    BY <2>1
  <2>4. r + i - 1 \in 0 .. d - 1 /\ off + i - 1 = d * q + (r + i - 1)
    BY <2>1, <2>2, <2>3, <1>a
  <2>5. (off + i - 1) \div d = q /\ (off + i - 1) % d = r + i - 1
    BY <2>1, <2>4, <1>a, DivUnique
  <2> QED
    BY <2>1, <2>5 DEF q, r
<1>1. CASE Len(dims) = 1
  BY <1>0, <1>1 DEF Coord
<1>2. CASE Len(dims) = 2
  <2>1. dims[2] \in Positive /\ (off % dims[2]) + len <= dims[2]
    BY <1>2, Lengths
  <2>2. /\ Coord(off, dims) = <<off \div dims[2], off % dims[2]>>
        /\ Coord(off + i - 1, dims) = <<(off + i - 1) \div dims[2], (off + i - 1) % dims[2]>>
    BY <1>2 DEF Coord
  <2>3. RequestCells(Coord(off, dims), len)[i] = <<off \div dims[2], (off % dims[2]) + i - 1>>
    BY <1>0, <2>2
  <2> QED
    BY <1>b, <2>1, <2>2, <2>3
<1>3. CASE Len(dims) = 3
  <2> DEFINE row == off \div dims[3]
  <2>1. dims[3] \in Positive /\ (off % dims[3]) + len <= dims[3]
    BY <1>3, Lengths
  <2>2. (off + i - 1) \div dims[3] = row /\ (off + i - 1) % dims[3] = (off % dims[3]) + i - 1
    BY <1>b, <2>1
  <2>3. Coord(off, dims) = <<row \div dims[2], row % dims[2], off % dims[3]>>
    BY <1>3, CoordByRow
  <2>4. Coord(off + i - 1, dims) = <<row \div dims[2], row % dims[2], (off % dims[3]) + i - 1>>
    <3>1. Coord(off + i - 1, dims)
            = <<((off + i - 1) \div dims[3]) \div dims[2],
                ((off + i - 1) \div dims[3]) % dims[2], (off + i - 1) % dims[3]>>
      BY <1>3, <1>a, CoordByRow
    <3> QED
      BY <3>1, <2>2
  <2> HIDE DEF row
  <2>5. RequestCells(Coord(off, dims), len)[i]
          = <<row \div dims[2], row % dims[2], (off % dims[3]) + i - 1>>
    BY <1>0, <2>3
  <2> QED
    BY <2>4, <2>5
<1> QED
  BY <1>1, <1>2, <1>3 DEF Shape

-----------------------------------------------------------------------------
(* Ranks in a communicator.                                                *)

\* They are numbered from 0 in the order of their old ranks.
LEMMA RanksAscend ==
  ASSUME NEW S, S \subseteq Nat, IsFiniteSet(S), NEW r \in S
  PROVE  /\ RankIn(S, r) \in 0 .. Cardinality(S) - 1
         /\ RankIn(S, r) \in Nat
         /\ \A q \in S : q < r => RankIn(S, q) < RankIn(S, r)
<1> DEFINE B(x) == {q \in S : q < x}
<1>1. \A x \in S : IsFiniteSet(B(x)) /\ Cardinality(B(x)) \in Nat
  <2> TAKE x \in S
  <2>1. B(x) \in SUBSET S
    OBVIOUS
  <2> QED
    BY <2>1, FS_Subset, FS_CardinalityType
<1>2. \A x \in S : x \notin B(x)
  OBVIOUS
<1>3. ASSUME NEW x \in S, NEW T, B(x) \cup {x} \subseteq T, T \subseteq S
      PROVE  Cardinality(B(x)) < Cardinality(T)
  <2> HIDE DEF B
  <2>1. Cardinality(B(x) \cup {x}) = Cardinality(B(x)) + 1 /\ IsFiniteSet(T)
    BY <1>1, <1>2, <1>3, FS_AddElement, FS_Subset
  <2>2. Cardinality(B(x) \cup {x}) <= Cardinality(T) /\ Cardinality(T) \in Nat
    BY <1>3, <2>1, FS_Subset, FS_CardinalityType
  <2> QED
    BY <1>1, <2>1, <2>2
<1>4. Cardinality(B(r)) < Cardinality(S)
  <2>1. B(r) \cup {r} \subseteq S
    OBVIOUS
  <2> QED
    BY <1>3, <2>1
<1>5. ASSUME NEW q \in S, q < r PROVE Cardinality(B(q)) < Cardinality(B(r))
  <2>1. \A x \in S : x < q => x < r
    BY <1>5
  <2>2. B(q) \cup {q} \subseteq B(r) /\ B(r) \subseteq S
    BY <1>5, <2>1
  <2> QED
    BY <1>3, <2>2
<1>6. Cardinality(S) \in Nat
  BY FS_CardinalityType
<1> QED
  BY <1>1, <1>4, <1>5, <1>6 DEF RankIn

LEMMA RanksDiffer ==
  ASSUME NEW S, S \subseteq Nat, IsFiniteSet(S), NEW q \in S, NEW r \in S
  PROVE  RankIn(S, q) = RankIn(S, r) => q = r
<1>1. SUFFICES ASSUME q < r \/ r < q PROVE RankIn(S, q) # RankIn(S, r)
  OBVIOUS
<1>2. /\ RankIn(S, q) \in Nat /\ RankIn(S, r) \in Nat
      /\ q < r => RankIn(S, q) < RankIn(S, r)
      /\ r < q => RankIn(S, r) < RankIn(S, q)
  BY RanksAscend
<1> QED
  BY <1>1, <1>2

\* Every number below the size is somebody's.
LEMMA RanksOnto ==
  ASSUME NEW S, S \subseteq Nat, IsFiniteSet(S), NEW b \in 0 .. Cardinality(S) - 1
  PROVE  \E r \in S : RankIn(S, r) = b
<1> DEFINE n == Cardinality(S)
           T == (0 .. n - 1) \ {b}
           f == [r \in S |-> RankIn(S, r)]
<1>1. SUFFICES ASSUME \A r \in S : RankIn(S, r) # b PROVE FALSE
  OBVIOUS
<1>2. n \in Nat
  BY FS_CardinalityType
<1>3. f \in [S -> T]
  BY <1>1, RanksAscend
<1>4. IsFiniteSet(T) /\ Cardinality(T) < n
  <2> HIDE DEF n
  <2>1. IsFiniteSet(0 .. n - 1) /\ Cardinality(0 .. n - 1) = n /\ b \in 0 .. n - 1
    BY <1>2, FS_Interval DEF n
  <2>2. IsFiniteSet(T) /\ Cardinality(T) = n - 1
    BY <2>1, FS_RemoveElement
  <2> QED
    BY <1>2, <2>2
<1>a. \A x \in S : f[x] = RankIn(S, x)
  OBVIOUS
<1> HIDE DEF T, f
<1>5. PICK x \in S, y \in S : x # y /\ f[x] = f[y]
  BY <1>3, <1>4, FS_PigeonHole
<1> QED
  BY <1>a, <1>5, RanksDiffer

-----------------------------------------------------------------------------
(* Nodes.                                                                  *)

\* A placement of ranks 0 .. n - 1, at least one.
IsPlacement(p) == \E n \in Nat \ {0} : DOMAIN p = 0 .. n - 1

Roots(p)     == {r \in DOMAIN p : SubRank(p, r) = 0}
NodeID(p, r) == RankIn(Roots(p), SubRoot(p, r))

LEMMA NodeProperties ==
  ASSUME NEW p, IsPlacement(p), NEW r \in DOMAIN p
  PROVE  /\ DOMAIN p \subseteq Nat /\ IsFiniteSet(DOMAIN p)
         /\ OnNode(p, r) \subseteq DOMAIN p /\ r \in OnNode(p, r)
         /\ IsFiniteSet(OnNode(p, r)) /\ OnNode(p, r) \subseteq Nat
         /\ \A q \in OnNode(p, r) : OnNode(p, q) = OnNode(p, r) /\ q \in DOMAIN p
<1>1. DOMAIN p \subseteq Nat /\ IsFiniteSet(DOMAIN p)
  BY FS_Interval DEF IsPlacement
<1>2. OnNode(p, r) \in SUBSET (DOMAIN p)
  BY DEF OnNode
<1>3. IsFiniteSet(OnNode(p, r))
  BY <1>1, <1>2, FS_Subset
<1>4. r \in OnNode(p, r) /\ \A q \in OnNode(p, r) : OnNode(p, q) = OnNode(p, r)
  BY DEF OnNode
<1> QED
  BY <1>1, <1>2, <1>3, <1>4

\* On a node ranks are numbered from 0.
LEMMA SubRanks ==
  ASSUME NEW p, IsPlacement(p), NEW r \in DOMAIN p
  PROVE  /\ SubRank(p, r) \in 0 .. Cardinality(OnNode(p, r)) - 1
         /\ SubRank(p, r) \in Nat
         /\ Cardinality(OnNode(p, r)) \in Nat
         /\ \A q \in OnNode(p, r) : SubRank(p, q) = RankIn(OnNode(p, r), q)
         /\ \A q \in OnNode(p, r) : SubRank(p, q) = SubRank(p, r) => q = r
         /\ \A b \in 0 .. Cardinality(OnNode(p, r)) - 1 :
              \E q \in OnNode(p, r) : SubRank(p, q) = b
<1> DEFINE S == OnNode(p, r)
<1>1. S \subseteq Nat /\ IsFiniteSet(S) /\ r \in S
  BY NodeProperties
<1>2. \A q \in S : SubRank(p, q) = RankIn(S, q)
  BY NodeProperties DEF SubRank
<1> HIDE DEF S
<1>3. /\ RankIn(S, r) \in 0 .. Cardinality(S) - 1
      /\ RankIn(S, r) \in Nat
      /\ \A q \in S : RankIn(S, q) = RankIn(S, r) => q = r
  BY <1>1, RanksAscend, RanksDiffer
<1>4. \A b \in 0 .. Cardinality(S) - 1 : \E q \in S : RankIn(S, q) = b
  BY <1>1, RanksOnto
<1>5. Cardinality(S) \in Nat
  BY <1>1, FS_CardinalityType
<1>6. /\ SubRank(p, r) \in 0 .. Cardinality(S) - 1 /\ SubRank(p, r) \in Nat
      /\ \A q \in S : SubRank(p, q) = SubRank(p, r) => q = r
  BY <1>1, <1>2, <1>3
<1>7. \A b \in 0 .. Cardinality(S) - 1 : \E q \in S : SubRank(p, q) = b
  BY <1>2, <1>4
<1> QED
  BY <1>2, <1>5, <1>6, <1>7 DEF S

\* Every node has one root, and nodes are numbered by their roots.
LEMMA RootProperties ==
  ASSUME NEW p, IsPlacement(p), NEW r \in DOMAIN p
  PROVE  /\ SubRoot(p, r) \in OnNode(p, r) /\ SubRoot(p, r) \in DOMAIN p
         /\ SubRank(p, SubRoot(p, r)) = 0
         /\ SubRoot(p, r) \in Roots(p)
         /\ \A q \in OnNode(p, r) : SubRoot(p, q) = SubRoot(p, r)
         /\ SubRank(p, r) = 0 <=> SubRoot(p, r) = r
         /\ Roots(p) \subseteq Nat /\ IsFiniteSet(Roots(p))
<1>1. PICK x \in OnNode(p, r) : SubRank(p, x) = 0
  <2>1. 0 \in 0 .. Cardinality(OnNode(p, r)) - 1
    BY SubRanks
  <2> QED
    BY <2>1, SubRanks
<1>2. SubRoot(p, r) \in OnNode(p, r) /\ SubRank(p, SubRoot(p, r)) = 0
  BY <1>1 DEF SubRoot
<1>3. OnNode(p, r) \subseteq DOMAIN p /\ r \in OnNode(p, r)
  BY NodeProperties
<1>4. \A q \in OnNode(p, r) : SubRoot(p, q) = SubRoot(p, r)
  BY NodeProperties DEF SubRoot
<1>5. SubRank(p, r) = 0 => SubRoot(p, r) = r
  BY <1>2, SubRanks
<1>6. SubRoot(p, r) \in Roots(p)
  BY <1>2, <1>3 DEF Roots
<1>7. Roots(p) \in SUBSET (DOMAIN p)
  BY DEF Roots
<1>8. Roots(p) \subseteq Nat /\ IsFiniteSet(Roots(p))
  BY <1>7, NodeProperties, FS_Subset
<1> QED
  BY <1>2, <1>3, <1>4, <1>5, <1>6, <1>8

LEMMA NodeNumbers ==
  ASSUME NEW p, IsPlacement(p), NEW r \in DOMAIN p
  PROVE  /\ NodeID(p, r) \in 0 .. Cardinality(Roots(p)) - 1
         /\ NodeID(p, r) \in Nat
         /\ Cardinality(Roots(p)) \in Nat
         /\ \A q \in DOMAIN p : NodeID(p, q) = NodeID(p, r) <=> q \in OnNode(p, r)
         /\ \A n \in 0 .. Cardinality(Roots(p)) - 1 : \E q \in DOMAIN p : NodeID(p, q) = n
<1> DEFINE S == Roots(p)
<1>1. /\ S \subseteq Nat /\ IsFiniteSet(S)
      /\ \A q \in DOMAIN p : SubRoot(p, q) \in S /\ SubRoot(p, q) \in OnNode(p, q)
  BY RootProperties
<1>2. \A q \in S : q \in DOMAIN p /\ SubRoot(p, q) = q
  BY RootProperties DEF Roots
<1>3. \A q \in DOMAIN p : NodeID(p, q) = RankIn(S, SubRoot(p, q))
  BY DEF NodeID
<1> HIDE DEF S
<1>4. Cardinality(S) \in Nat
  BY <1>1, FS_CardinalityType
<1>5. NodeID(p, r) \in 0 .. Cardinality(S) - 1 /\ NodeID(p, r) \in Nat
  BY <1>1, <1>3, RanksAscend
<1>6. ASSUME NEW q \in DOMAIN p
      PROVE  NodeID(p, q) = NodeID(p, r) <=> q \in OnNode(p, r)
  <2>1. ASSUME NodeID(p, q) = NodeID(p, r) PROVE q \in OnNode(p, r)
    <3>1. SubRoot(p, q) = SubRoot(p, r)
      BY <1>1, <1>3, <2>1, RanksDiffer
    <3>2. OnNode(p, SubRoot(p, q)) = OnNode(p, q) /\ OnNode(p, SubRoot(p, r)) = OnNode(p, r)
      BY <1>1, NodeProperties
    <3> QED
      BY <3>1, <3>2, NodeProperties
  <2>2. ASSUME q \in OnNode(p, r) PROVE NodeID(p, q) = NodeID(p, r)
    BY <1>3, <2>2, RootProperties
  <2> QED
    BY <2>1, <2>2
<1>7. ASSUME NEW n \in 0 .. Cardinality(S) - 1 PROVE \E q \in DOMAIN p : NodeID(p, q) = n
  <2>1. PICK q \in S : RankIn(S, q) = n
    BY <1>1, RanksOnto
  <2> QED
    BY <1>2, <1>3, <2>1
<1> QED
  BY <1>4, <1>5, <1>6, <1>7 DEF S

\* The splits: the roots' communicator numbers the nodes.
LEMMA RootColour ==
  ASSUME NEW p, IsPlacement(p), NEW r \in DOMAIN p
  PROVE  LET q == SubRoot(p, r)
         IN  Colour(p, q) = Roots(p) /\ RankIn(Colour(p, q), q) = NodeID(p, r)
<1>1. SubRank(p, SubRoot(p, r)) = 0
  BY RootProperties
<1>2. Colour(p, SubRoot(p, r)) = Roots(p)
  BY <1>1 DEF Colour, Roots
<1> QED
  BY <1>2 DEF NodeID

-----------------------------------------------------------------------------
(* Sums of the values of a function.                                       *)

Under(f, S) == UNION {{x} \X (1 .. f[x]) : x \in S}
SumOn(f, S)   == Total([x \in S |-> f[x]])

LEMMA SumIsSize ==
  ASSUME NEW f, NEW S
  PROVE  SumOn(f, S) = Cardinality(Under(f, S))
<1> DEFINE g == [x \in S |-> f[x]]
<1>1. DOMAIN g = S /\ \A x \in S : g[x] = f[x]
  OBVIOUS
<1>2. UNION {{x} \X (1 .. g[x]) : x \in DOMAIN g} = Under(f, S)
  BY <1>1 DEF Under
<1> QED
  BY <1>2 DEF SumOn, Total

LEMMA UnderFinite ==
  ASSUME NEW f, NEW S, IsFiniteSet(S), \A x \in S : f[x] \in Nat
  PROVE  IsFiniteSet(Under(f, S)) /\ SumOn(f, S) \in Nat
<1> DEFINE T == {{x} \X (1 .. f[x]) : x \in S}
           g == [x \in S |-> {x} \X (1 .. f[x])]
<1>1. g \in Surjection(S, T)
  BY DEF Surjection
<1>2. \A A \in T : IsFiniteSet(A)
  <2> SUFFICES ASSUME NEW x \in S PROVE IsFiniteSet({x} \X (1 .. f[x]))
    OBVIOUS
  <2>1. f[x] \in Int /\ 1 \in Int
    OBVIOUS
  <2>2. IsFiniteSet({x}) /\ IsFiniteSet(1 .. f[x])
    BY <2>1, FS_Singleton, FS_Interval
  <2> QED
    BY <2>2, FS_Product
<1> HIDE DEF T, g
<1>3. IsFiniteSet(T)
  BY <1>1, FS_Surjection
<1>4. IsFiniteSet(UNION T)
  BY <1>2, <1>3, FS_UNION
<1>5. UNION T = Under(f, S)
  BY DEF T, Under
<1> QED
  BY <1>4, <1>5, SumIsSize, FS_CardinalityType

LEMMA SumSplits ==
  ASSUME NEW f, NEW A, NEW B, IsFiniteSet(A), IsFiniteSet(B), A \cap B = {},
         \A x \in A \cup B : f[x] \in Nat
  PROVE  SumOn(f, A \cup B) = SumOn(f, A) + SumOn(f, B)
<1>1. IsFiniteSet(Under(f, A)) /\ IsFiniteSet(Under(f, B)) /\ SumOn(f, A) \in Nat /\ SumOn(f, B) \in Nat
  BY UnderFinite
<1>2. Under(f, A \cup B) = Under(f, A) \cup Under(f, B)
  BY DEF Under
<1>3. Under(f, A) \cap Under(f, B) = {}
  BY DEF Under
<1>4. Cardinality(Under(f, A) \cup Under(f, B)) = Cardinality(Under(f, A)) + Cardinality(Under(f, B)) - 0
  BY <1>1, <1>3, FS_Union, FS_EmptySet
<1> QED
  BY <1>1, <1>2, <1>4, SumIsSize

LEMMA SumOfOne ==
  ASSUME NEW f, NEW a, f[a] \in Nat
  PROVE  SumOn(f, {a}) = f[a]
<1>1. Under(f, {a}) = {a} \X (1 .. f[a])
  BY DEF Under
<1>2. IsFiniteSet({a}) /\ Cardinality({a}) = 1
  BY FS_Singleton
<1>3. IsFiniteSet(1 .. f[a]) /\ Cardinality(1 .. f[a]) = f[a]
  <2>1. f[a] \in Int /\ 1 \in Int
    OBVIOUS
  <2>2. /\ IsFiniteSet(1 .. f[a])
        /\ Cardinality(1 .. f[a]) = IF 1 > f[a] THEN 0 ELSE f[a] - 1 + 1
    BY <2>1, FS_Interval
  <2> QED
    BY <2>2
<1>4. Cardinality({a} \X (1 .. f[a])) = Cardinality({a}) * Cardinality(1 .. f[a])
  BY <1>2, <1>3, FS_Product
<1>5. Cardinality({a} \X (1 .. f[a])) = f[a]
  <2>1. 1 * f[a] = f[a]
    OBVIOUS
  <2> QED
    BY ONLY <1>2, <1>3, <1>4, <2>1
<1>6. SumOn(f, {a}) = Cardinality(Under(f, {a}))
  BY SumIsSize
<1> QED
  BY ONLY <1>1, <1>5, <1>6

LEMMA SumEmpty ==
  ASSUME NEW f
  PROVE  SumOn(f, {}) = 0
<1>1. Under(f, {}) = {}
  BY DEF Under
<1> QED
  BY <1>1, SumIsSize, FS_EmptySet

LEMMA SumGrows ==
  ASSUME NEW f, NEW A, NEW B, A \subseteq B, IsFiniteSet(B), \A x \in B : f[x] \in Nat
  PROVE  SumOn(f, A) <= SumOn(f, B)
<1>1. A \in SUBSET B
  OBVIOUS
<1>2. IsFiniteSet(A)
  BY <1>1, FS_Subset
<1>3. IsFiniteSet(B \ A)
  BY FS_Difference
<1>4. A \cup (B \ A) = B /\ A \cap (B \ A) = {}
  OBVIOUS
<1>5. SumOn(f, A) \in Nat /\ SumOn(f, B \ A) \in Nat
  BY <1>2, <1>3, UnderFinite
<1>6. SumOn(f, A \cup (B \ A)) = SumOn(f, A) + SumOn(f, B \ A)
  BY <1>2, <1>3, <1>4, SumSplits
<1>7. SumOn(f, B) = SumOn(f, A) + SumOn(f, B \ A)
  BY ONLY <1>4, <1>6
<1> QED
  BY <1>5, <1>7

-----------------------------------------------------------------------------
(* Lists of lists, element by element.                                     *)

IsMapped(s, t, F) ==
  /\ Len(t) = Len(s)
  /\ \A i \in 1 .. Len(s) : /\ Len(t[i]) = Len(s[i])
                            /\ \A j \in 1 .. Len(s[i]) : t[i][j] = F[s[i][j]]

LEMMA FlattenMaps ==
  ASSUME NEW S, NEW T, NEW s \in Seq(Seq(S)), NEW t \in Seq(Seq(T)), NEW F, IsMapped(s, t, F)
  PROVE  /\ FlattenSeq(s) \in Seq(S) /\ FlattenSeq(t) \in Seq(T)
         /\ Len(FlattenSeq(t)) = Len(FlattenSeq(s))
         /\ \A k \in 1 .. Len(FlattenSeq(s)) : FlattenSeq(t)[k] = F[FlattenSeq(s)[k]]
<1> DEFINE n == Len(s)
<1>0. /\ Len(t) = Len(s)
      /\ \A i \in 1 .. Len(s) : /\ Len(t[i]) = Len(s[i])
                                /\ \A j \in 1 .. Len(s[i]) : t[i][j] = F[s[i][j]]
  BY DEF IsMapped
<1>1. n \in Nat /\ \A i \in 1 .. n : s[i] \in Seq(S) /\ t[i] \in Seq(T)
  BY <1>0
<1>2. PICK g : IsConcat(g, s, S, n) /\ FlattenSeq(s) = g[n]
  BY FlattenIsConcat
<1>3. PICK h : IsConcat(h, t, T, n) /\ FlattenSeq(t) = h[n]
  BY <1>0, FlattenIsConcat
<1>4. /\ g \in [0 .. n -> Seq(S)] /\ g[0] = <<>> /\ \A i \in 1 .. n : g[i] = g[i - 1] \o s[i]
      /\ h \in [0 .. n -> Seq(T)] /\ h[0] = <<>> /\ \A i \in 1 .. n : h[i] = h[i - 1] \o t[i]
  BY <1>2, <1>3 DEF IsConcat
<1> HIDE DEF n
<1> DEFINE D == {k \in Nat : k <= n => /\ Len(h[k]) = Len(g[k])
                                      /\ \A j \in 1 .. Len(g[k]) : h[k][j] = F[g[k][j]]}
<1>5. 0 \in D
  BY <1>4
<1>6. ASSUME NEW k \in Nat, k \in D PROVE k + 1 \in D
  <2>1. SUFFICES ASSUME k + 1 <= n
                 PROVE  /\ Len(h[k + 1]) = Len(g[k + 1])
                        /\ \A j \in 1 .. Len(g[k + 1]) : h[k + 1][j] = F[g[k + 1][j]]
    OBVIOUS
  <2>2. k + 1 \in 1 .. n /\ k \in 0 .. n /\ (k + 1) - 1 = k
    BY <2>1, <1>1
  <2> DEFINE a == g[k]
             b == h[k]
             x == s[k + 1]
             y == t[k + 1]
  <2>3. /\ a \in Seq(S) /\ b \in Seq(T) /\ x \in Seq(S) /\ y \in Seq(T)
        /\ g[k + 1] = a \o x /\ h[k + 1] = b \o y
    BY <1>1, <1>4, <2>2
  <2>4. /\ Len(b) = Len(a) /\ \A j \in 1 .. Len(a) : b[j] = F[a[j]]
        /\ Len(y) = Len(x) /\ \A j \in 1 .. Len(x) : y[j] = F[x[j]]
    <3>1. Len(b) = Len(a) /\ \A j \in 1 .. Len(a) : b[j] = F[a[j]]
      BY <1>1, <1>6, <2>1
    <3> QED
      BY <1>0, <2>2, <3>1 DEF n
  <2> HIDE DEF a, b, x, y
  <2>5. /\ Len(a) \in Nat /\ Len(x) \in Nat
        /\ Len(a \o x) = Len(a) + Len(x) /\ Len(b \o y) = Len(a) + Len(x)
    <3>1. Len(a) \in Nat /\ Len(x) \in Nat
      BY <2>3, LenProperties
    <3>2. Len(a \o x) = Len(a) + Len(x) /\ Len(b \o y) = Len(b) + Len(y)
      BY <2>3, ConcatProperties
    <3> QED
      BY <2>4, <3>1, <3>2
  <2>6. ASSUME NEW j \in 1 .. Len(a \o x) PROVE (b \o y)[j] = F[(a \o x)[j]]
    <3>1. j \in Nat /\ j >= 1 /\ j <= Len(a) + Len(x)
      BY <2>5
    <3>2. CASE j <= Len(a)
      <4>1. (a \o x)[j] = a[j] /\ (b \o y)[j] = b[j]
        BY <2>3, <2>4, <2>5, <3>1, <3>2, ConcatProperties
      <4> QED
        BY <2>4, <3>1, <3>2, <4>1
    <3>3. CASE ~(j <= Len(a))
      <4>1. (a \o x)[j] = x[j - Len(a)] /\ (b \o y)[j] = y[j - Len(a)]
        BY <2>3, <2>4, <2>5, <3>1, <3>3, ConcatProperties
      <4>2. j - Len(a) \in 1 .. Len(x)
        BY <2>5, <3>1, <3>3
      <4> QED
        BY <2>4, <4>1, <4>2
    <3> QED
      BY <3>2, <3>3
  <2> QED
    BY <2>3, <2>5, <2>6
<1>7. n \in D
  <2> HIDE DEF D
  <2> QED
    BY <1>1, <1>5, <1>6, SetInduction DEF n
<1>8. g[n] \in Seq(S) /\ h[n] \in Seq(T)
  BY <1>1, <1>4 DEF n
<1> QED
  BY <1>2, <1>3, <1>7, <1>8, <1>1 DEF n

\* A finite set of natural numbers has a largest member.
LEMMA MaxIs ==
  ASSUME NEW S, S \subseteq Nat, IsFiniteSet(S), S # {}
  PROVE  Max(S) \in S /\ \A y \in S : y <= Max(S)
<1> DEFINE D == {k \in Nat : \A T \in SUBSET Nat :
                   IsFiniteSet(T) /\ Cardinality(T) = k /\ T # {} => \E x \in T : \A y \in T : x >= y}
<1>1. 0 \in D
  BY FS_EmptySet
<1>2. ASSUME NEW k \in Nat, k \in D PROVE k + 1 \in D
  <2>1. SUFFICES ASSUME NEW T \in SUBSET Nat, IsFiniteSet(T), Cardinality(T) = k + 1, T # {}
                 PROVE  \E x \in T : \A y \in T : x >= y
    OBVIOUS
  <2>2. PICK a \in T : TRUE
    BY <2>1
  <2> DEFINE U == T \ {a}
  <2>3. IsFiniteSet(U) /\ Cardinality(U) = k /\ U \in SUBSET Nat
    <3>1. IsFiniteSet(T \ {a}) /\ Cardinality(T \ {a}) = Cardinality(T) - 1
      BY <2>1, <2>2, FS_RemoveElement
    <3> QED
      BY <2>1, <3>1
  <2>4. CASE U = {}
    BY <2>2, <2>4
  <2>5. CASE U # {}
    <3>1. PICK b \in U : \A y \in U : b >= y
      BY <1>2, <2>3, <2>5
    <3>2. CASE b >= a
      BY <3>1, <3>2
    <3>3. CASE a >= b
      <4>1. \A y \in T : a >= y
        BY <3>1, <3>3, <2>1
      <4> QED
        BY <2>2, <4>1
    <3> QED
      BY <2>2, <3>1, <3>2, <3>3
  <2> QED
    BY <2>4, <2>5
<1>3. Cardinality(S) \in Nat
  BY FS_CardinalityType
<1>4. Cardinality(S) \in D
  <2> HIDE DEF D
  <2> QED
    BY <1>1, <1>2, <1>3, SetInduction
<1>5. \E x \in S : \A y \in S : x >= y
  BY <1>4
<1>6. Max(S) \in S /\ \A y \in S : Max(S) >= y
  BY <1>5 DEF Max
<1> QED
  BY <1>6

-----------------------------------------------------------------------------
(* What calc_metadata() computes.                                          *)

N == Cardinality(Rank)

LEMMA Given ==
  /\ N \in Nat \ {0} /\ Rank = 0 .. N - 1 /\ Rank \subseteq Nat /\ IsFiniteSet(Rank)
  /\ \A p \in Placements : DOMAIN p = Rank /\ IsPlacement(p)
  /\ \A p \in Replays : IsPlacement(p)
  /\ \A d \in Decomp : Shape(Dims[d])
  /\ \A d \in Decomp, r \in Rank : Reqs[d][r] \in Seq(Nat \X (Nat \ {0}))
<1>1. N \in Nat /\ IsFiniteSet(Rank) /\ Rank = 0 .. N - 1 /\ Rank # {}
  BY SubFilesAssumption, FS_CardinalityType DEF N
<1>2. N # 0
  BY <1>1
<1>3. \A p \in Placements : DOMAIN p = Rank /\ IsPlacement(p)
  BY <1>1, <1>2, SubFilesAssumption DEF IsPlacement
<1>4. ASSUME NEW p \in Replays PROVE IsPlacement(p)
  <2>1. /\ IsFiniteSet(DOMAIN p) /\ DOMAIN p # {}
        /\ DOMAIN p = 0 .. Cardinality(DOMAIN p) - 1
    BY ReplayAssumption
  <2>2. Cardinality(DOMAIN p) \in Nat
    BY <2>1, FS_CardinalityType
  <2>3. Cardinality(DOMAIN p) # 0
    BY <2>1, <2>2
  <2> QED
    BY <2>1, <2>2, <2>3 DEF IsPlacement
<1>5. ASSUME NEW d \in Decomp PROVE Shape(Dims[d])
  <2>1. Dims[d] \in Seq(Nat \ {0}) /\ Len(Dims[d]) \in 1 .. 3
    BY SubFilesAssumption DEF Decomp
  <2>2. Positive = Nat \ {0}
    BY DEF Positive
  <2> QED
    BY <2>1, <2>2 DEF Shape
<1>6. \A d \in Decomp, r \in Rank : Reqs[d][r] \in Seq(Nat \X (Nat \ {0}))
  BY SubFilesAssumption
<1> QED
  BY <1>1, <1>2, <1>3, <1>4, <1>5, <1>6

\* The elements that requests list are numbers.
LEMMA ElementsAreNumbers ==
  ASSUME NEW s \in Seq(Nat \X (Nat \ {0}))
  PROVE  Elements(s) \in Seq(Nat) /\ Len(Elements(s)) \in Nat
<1> DEFINE e == [i \in 1 .. Len(s) |-> [j \in 1 .. s[i][2] |-> s[i][1] + j - 1]]
<1>1. \A i \in 1 .. Len(s) : s[i][1] \in Nat /\ s[i][2] \in Nat
  OBVIOUS
<1>2. ASSUME NEW i \in 1 .. Len(s) PROVE e[i] \in Seq(Nat)
  <2> DEFINE a == s[i][1]
             n == s[i][2]
  <2>1. a \in Nat /\ n \in Nat
    BY <1>1
  <2> HIDE DEF a, n
  <2>2. [j \in 1 .. n |-> a + j - 1] \in [1 .. n -> Nat]
    BY <2>1
  <2>3. [j \in 1 .. n |-> a + j - 1] \in Seq(Nat)
    BY <2>1, <2>2
  <2> QED
    BY <2>3 DEF a, n
<1>3. e \in Seq(Seq(Nat))
  BY <1>2
<1> HIDE DEF e
<1>4. PICK g : IsConcat(g, e, Nat, Len(e)) /\ FlattenSeq(e) = g[Len(e)]
  BY <1>3, FlattenIsConcat
<1>5. Len(e) \in Nat
  BY <1>3
<1>6. FlattenSeq(e) \in Seq(Nat)
  <2>1. g \in [0 .. Len(e) -> Seq(Nat)] /\ Len(e) \in 0 .. Len(e)
    BY <1>4, <1>5 DEF IsConcat
  <2> QED
    BY <1>4, <2>1
<1> QED
  BY <1>6 DEF Elements, e

CountsOf(d) == [r \in Rank |-> CountOf(d, r)]

LEMMA Amounts ==
  ASSUME NEW d \in Decomp
  PROVE  /\ \A r \in Rank : CountOf(d, r) \in Nat /\ CountsOf(d)[r] = CountOf(d, r)
         /\ \A S \in SUBSET Rank : /\ IsFiniteSet(S)
                                   /\ SumOver(d, S) = SumOn(CountsOf(d), S)
                                   /\ SumOver(d, S) \in Nat
<1>1. \A r \in Rank : CountOf(d, r) \in Nat /\ CountsOf(d)[r] = CountOf(d, r)
  BY Given, ElementsAreNumbers DEF CountOf, CountsOf
<1>2. ASSUME NEW S \in SUBSET Rank
      PROVE  /\ IsFiniteSet(S)
             /\ SumOver(d, S) = SumOn(CountsOf(d), S)
             /\ SumOver(d, S) \in Nat
  <2>1. IsFiniteSet(S)
    BY Given, FS_Subset
  <2>2. [q \in S |-> CountOf(d, q)] = [q \in S |-> CountsOf(d)[q]]
    BY <1>1
  <2>3. SumOver(d, S) = SumOn(CountsOf(d), S)
    BY <2>2 DEF SumOver, SumOn
  <2>4. SumOn(CountsOf(d), S) \in Nat
    BY <1>1, <2>1, UnderFinite
  <2> QED
    BY <2>1, <2>3, <2>4
<1> QED
  BY <1>1, <1>2

\* All ranks together list every element that has an owner once.
LEMMA ListedOnce ==
  ASSUME NEW d \in Decomp
  PROVE  IsFiniteSet(Listed(d)) /\ SumOver(d, Rank) = Cardinality(Listed(d))
<1> DEFINE E(r) == Elements(Reqs[d][r])
           U == Under(CountsOf(d), Rank)
           f == [u \in U |-> E(u[1])[u[2]]]
<1>1. \A r \in Rank : /\ E(r) \in Seq(Nat) /\ CountsOf(d)[r] = Len(E(r))
                      /\ ToSet(E(r)) = {E(r)[i] : i \in 1 .. Len(E(r))}
  BY Given, ElementsAreNumbers, Amounts DEF CountOf, ToSet
<1>2. \A u \in U : /\ u[1] \in Rank /\ u[2] \in 1 .. Len(E(u[1]))
                   /\ u = <<u[1], u[2]>>
  BY <1>1 DEF Under
<1>3. \A r \in Rank : \A i \in 1 .. Len(E(r)) : <<r, i>> \in U
  BY <1>1 DEF Under
<1>4. f \in [U -> Listed(d)]
  <2> SUFFICES ASSUME NEW u \in U PROVE E(u[1])[u[2]] \in Listed(d)
    OBVIOUS
  <2>1. u[1] \in Rank /\ E(u[1])[u[2]] \in ToSet(E(u[1]))
    BY <1>1, <1>2
  <2> QED
    BY <2>1 DEF Listed
<1>5. ASSUME NEW x \in Listed(d) PROVE \E u \in U : f[u] = x
  <2>1. PICK r \in Rank : x \in ToSet(E(r))
    BY DEF Listed
  <2>2. PICK i \in 1 .. Len(E(r)) : x = E(r)[i]
    BY <1>1, <2>1
  <2>3. <<r, i>> \in U
    BY <1>3
  <2>4. f[<<r, i>>] = E(r)[i]
    BY <2>3
  <2> QED
    BY <2>2, <2>3, <2>4
<1>6. ASSUME NEW u \in U, NEW w \in U, f[u] = f[w] PROVE u = w
  <2>1. E(u[1])[u[2]] = E(w[1])[w[2]]
    BY <1>6
  <2>2. \A i \in DOMAIN E(u[1]), j \in DOMAIN E(w[1]) :
          E(u[1])[i] = E(w[1])[j] => u[1] = w[1] /\ i = j
    BY <1>2, SubFilesAssumption
  <2>3. u[2] \in DOMAIN E(u[1]) /\ w[2] \in DOMAIN E(w[1])
    BY <1>1, <1>2
  <2>4. u[1] = w[1] /\ u[2] = w[2]
    BY <2>1, <2>2, <2>3
  <2> QED
    BY <1>2, <2>4
<1>7. IsFiniteSet(U) /\ SumOver(d, Rank) = Cardinality(U)
  <2>1. IsFiniteSet(Rank) /\ \A r \in Rank : CountsOf(d)[r] \in Nat
    BY Amounts, Given
  <2>2. SumOver(d, Rank) = SumOn(CountsOf(d), Rank)
    BY Amounts
  <2> QED
    BY <2>1, <2>2, UnderFinite, SumIsSize
<1> HIDE DEF f, U
<1>8. f \in Bijection(U, Listed(d))
  BY <1>4, <1>5, <1>6 DEF Bijection, Injection, Surjection, IsInjective
<1> QED
  BY <1>7, <1>8, FS_Bijection DEF ExistsBijection

\* The scan and the reductions over the ranks of a node.
LEMMA Scanned ==
  ASSUME NEW p \in Placements, NEW r \in Rank, NEW d \in Decomp
  PROVE  LET S == OnNode(p, r)
         IN  /\ SubRank(p, r) = 0 => Exscan(d, S, r) = 0
             /\ \A q \in S :
                  /\ SubRank(p, q) = SubRank(p, r) + 1
                       => Exscan(d, S, q) = Exscan(d, S, r) + CountOf(d, r)
                  /\ Exscan(d, S, q) + CountOf(d, q) <= SumOver(d, S)
             /\ Len(Reqs[d][r]) <= Max({Len(Reqs[d][q]) : q \in S})
<1> DEFINE S == OnNode(p, r)
           B(q) == {x \in S : x < q}
           f == CountsOf(d)
<1>0. IsPlacement(p) /\ DOMAIN p = Rank
  BY Given
<1>1. /\ S \subseteq Rank /\ r \in S /\ IsFiniteSet(S) /\ S \subseteq Nat
  BY <1>0, NodeProperties
<1>2. \A q \in S : SubRank(p, q) = RankIn(S, q) /\ RankIn(S, q) \in Nat
  BY <1>0, <1>1, SubRanks, RanksAscend
<1>3. \A q \in S : \A x \in S : x < q => SubRank(p, x) < SubRank(p, q)
  BY <1>1, <1>2, RanksAscend
<1>4. \A q \in S : \A x \in S : q \in Nat /\ x \in Nat /\ q \in Rank
  BY <1>1
<1>5. /\ \A x \in Rank : f[x] \in Nat /\ f[x] = CountOf(d, x)
      /\ \A T \in SUBSET Rank : IsFiniteSet(T) /\ SumOver(d, T) = SumOn(f, T) /\ SumOn(f, T) \in Nat
  BY Amounts
<1>6. \A q \in S : B(q) \in SUBSET Rank /\ Exscan(d, S, q) = SumOver(d, B(q))
  BY <1>1 DEF Exscan
<1> HIDE DEF S, f
<1>7. ASSUME SubRank(p, r) = 0 PROVE Exscan(d, S, r) = 0
  <2>1. B(r) = {}
    <3>1. SUFFICES ASSUME NEW x \in S, x < r PROVE FALSE
      OBVIOUS
    <3>2. SubRank(p, x) < SubRank(p, r) /\ SubRank(p, x) \in Nat
      BY <1>1, <1>2, <1>3, <3>1
    <3> QED
      BY <1>7, <3>2
  <2>2. Exscan(d, S, r) = SumOn(f, B(r))
    BY <1>1, <1>5, <1>6
  <2> QED
    BY <2>1, <2>2, SumEmpty
<1>8. ASSUME NEW q \in S PROVE SumOn(f, B(q) \cup {q}) = Exscan(d, S, q) + CountOf(d, q)
  <2>1. B(q) \cap {q} = {}
    BY <1>4
  <2>2. IsFiniteSet(B(q)) /\ IsFiniteSet({q}) /\ \A x \in B(q) \cup {q} : f[x] \in Nat
    BY <1>4, <1>5, <1>6, FS_Singleton
  <2> HIDE DEF B
  <2>3. SumOn(f, B(q) \cup {q}) = SumOn(f, B(q)) + SumOn(f, {q})
    BY <2>1, <2>2, SumSplits
  <2>4. SumOn(f, {q}) = f[q] /\ f[q] = CountOf(d, q)
    BY <1>4, <1>5, SumOfOne
  <2>5. SumOn(f, B(q)) = Exscan(d, S, q)
    BY <1>5, <1>6
  <2> QED
    BY ONLY <2>3, <2>4, <2>5
<1>9. ASSUME NEW q \in S, SubRank(p, q) = SubRank(p, r) + 1
      PROVE  Exscan(d, S, q) = Exscan(d, S, r) + CountOf(d, r)
  <2>1. SubRank(p, r) \in Nat /\ SubRank(p, q) \in Nat
    BY <1>1, <1>2
  <2>2. r < q
    <3>1. SUFFICES ASSUME ~(r < q) PROVE FALSE
      OBVIOUS
    <3>2. q = r \/ q < r
      BY <1>1, <1>4, <3>1
    <3>3. q < r => SubRank(p, q) < SubRank(p, r)
      BY <1>1, <1>3
    <3> QED
      BY <1>9, <2>1, <3>2, <3>3
  <2>3. ASSUME NEW x \in S, x < q PROVE x < r \/ x = r
    <3>1. SubRank(p, x) < SubRank(p, q) /\ SubRank(p, x) \in Nat
      BY <1>2, <1>3, <2>3
    <3>2. r < x => SubRank(p, r) < SubRank(p, x)
      BY <1>1, <1>3
    <3>3. ~(r < x)
      BY <1>9, <2>1, <3>1, <3>2
    <3> QED
      BY <1>1, <1>4, <3>3
  <2>4. \A x \in S : x < r => x < q
    BY <1>1, <1>4, <2>2
  <2>5. B(q) = B(r) \cup {r}
    BY <1>1, <2>2, <2>3, <2>4
  <2>6. Exscan(d, S, q) = SumOn(f, B(q))
    BY <1>5, <1>6
  <2> QED
    BY <1>1, <1>8, <2>5, <2>6
<1>10. ASSUME NEW q \in S PROVE Exscan(d, S, q) + CountOf(d, q) <= SumOver(d, S)
  <2>1. B(q) \cup {q} \subseteq S /\ IsFiniteSet(S) /\ \A x \in S : f[x] \in Nat
    BY <1>1, <1>4, <1>5
  <2>2. SumOn(f, B(q) \cup {q}) <= SumOn(f, S)
    <3> HIDE DEF B
    <3> QED
      BY <2>1, SumGrows
  <2>3. SumOver(d, S) = SumOn(f, S)
    BY <1>1, <1>5
  <2> QED
    BY <1>8, <2>2, <2>3
<1>11. Len(Reqs[d][r]) <= Max({Len(Reqs[d][q]) : q \in S})
  <2> DEFINE T == {Len(Reqs[d][q]) : q \in S}
             g == [q \in S |-> Len(Reqs[d][q])]
  <2>1. \A q \in S : Len(Reqs[d][q]) \in Nat
    BY <1>4, Given
  <2>2. T \subseteq Nat /\ Len(Reqs[d][r]) \in T
    BY <1>1, <2>1
  <2>3. g \in Surjection(S, T)
    BY DEF Surjection
  <2> HIDE DEF T, g
  <2>4. IsFiniteSet(T)
    BY <1>1, <2>3, FS_Surjection
  <2>5. Len(Reqs[d][r]) <= Max(T)
    BY <2>2, <2>4, MaxIs
  <2> QED
    BY <2>5 DEF T
<1> QED
  BY <1>7, <1>9, <1>10, <1>11 DEF S

\* A sum over all ranks is the sum of the sums over the nodes.
LEMMA SumOfNodes ==
  ASSUME NEW p, IsPlacement(p), NEW f, \A x \in DOMAIN p : f[x] \in Nat,
         NEW g, \A r \in Roots(p) : g[r] = SumOn(f, OnNode(p, r))
  PROVE  SumOn(g, Roots(p)) = SumOn(f, DOMAIN p)
<1> DEFINE I == Roots(p)
           S == DOMAIN p
           A == [r \in I |-> OnNode(p, r)]
<1>a. PICK n \in Nat \ {0} : S = 0 .. n - 1
  BY DEF IsPlacement
<1>b. I \subseteq S /\ IsFiniteSet(S) /\ \A i \in I : i \in S
  BY NodeProperties, <1>a, FS_Interval DEF Roots
<1>c. \A r \in I : A[r] \subseteq S /\ A[r] = OnNode(p, r) /\ g[r] = SumOn(f, A[r])
  BY <1>b, NodeProperties
<1>d. ASSUME NEW q \in I, NEW r \in I, q # r PROVE A[q] \cap A[r] = {}
  <2>1. SUFFICES ASSUME NEW x \in OnNode(p, q), x \in OnNode(p, r) PROVE FALSE
    BY <1>c
  <2>2. OnNode(p, q) = OnNode(p, r)
    BY <2>1, <1>b, NodeProperties
  <2>3. q \in OnNode(p, r) /\ SubRank(p, q) = 0 /\ SubRank(p, r) = 0
    BY <2>2, <1>b, NodeProperties DEF Roots
  <2> QED
    BY <2>3, <1>b, <1>d, SubRanks
<1>e. \A q \in S : \E r \in I : q \in A[r]
  <2> TAKE q \in S
  <2>1. SubRoot(p, q) \in I /\ SubRoot(p, q) \in OnNode(p, q)
    BY RootProperties
  <2>2. q \in OnNode(p, SubRoot(p, q))
    BY <2>1, NodeProperties
  <2> QED
    BY <2>1, <2>2
<1>f. (\A x \in S : f[x] \in Nat) /\ \A i \in I : i \in Nat /\ i < n
  BY <1>a, <1>b
<1> HIDE DEF I, S, A
<1> DEFINE J(k) == {i \in I : i < k}
           U(k) == UNION {A[i] : i \in J(k)}
           D == {k \in Nat : SumOn(g, J(k)) = SumOn(f, U(k))}
<1>1. \A k \in Nat : J(k) \in SUBSET S /\ U(k) \in SUBSET S
  BY <1>b, <1>c
<1>2. \A i \in I : g[i] \in Nat /\ IsFiniteSet(A[i])
  <2> TAKE i \in I
  <2>1. A[i] \in SUBSET S /\ \A x \in A[i] : f[x] \in Nat
    BY <1>c, <1>f
  <2>2. IsFiniteSet(A[i])
    BY <1>b, <2>1, FS_Subset
  <2> QED
    BY <1>c, <2>1, <2>2, UnderFinite
<1>3. 0 \in D
  <2>1. J(0) = {} /\ U(0) = {}
    <3>0. \A i \in I : ~(i < 0)
      BY <1>f
    <3>1. J(0) = {}
      BY <3>0
    <3> QED
      BY <3>1
  <2> QED
    BY <2>1, SumEmpty
<1>4. ASSUME NEW k \in Nat, k \in D PROVE k + 1 \in D
  <2>1. CASE k \notin I
    <3>1. \A i \in I : i < k + 1 <=> i < k
      BY <1>f, <2>1
    <3>2. J(k + 1) = J(k)
      BY <3>1
    <3>3. SumOn(g, J(k + 1)) = SumOn(f, U(k + 1))
      BY <1>4, <3>2
    <3> QED
      BY <3>3
  <2>2. CASE k \in I
    <3>0. \A i \in I : (i < k + 1 <=> (i < k \/ i = k)) /\ (i < k => i # k)
      BY <1>f
    <3>1. J(k + 1) = J(k) \cup {k} /\ J(k) \cap {k} = {}
      BY <2>2, <3>0
    <3>2. U(k + 1) = U(k) \cup A[k]
      BY <3>1
    <3>3. U(k) \cap A[k] = {}
      <4>1. \A i \in J(k) : A[i] \cap A[k] = {}
        BY <1>d, <2>2, <3>0
      <4> QED
        BY <4>1
    <3>4. SumOn(g, J(k) \cup {k}) = SumOn(g, J(k)) + SumOn(g, {k})
      <4>1. IsFiniteSet(J(k)) /\ IsFiniteSet({k})
        BY <1>b, <1>1, FS_Subset, FS_Singleton
      <4>2. \A x \in J(k) \cup {k} : g[x] \in Nat
        BY <1>2, <2>2
      <4> HIDE DEF J
      <4> QED
        BY <3>1, <4>1, <4>2, SumSplits
    <3>5. SumOn(f, U(k) \cup A[k]) = SumOn(f, U(k)) + SumOn(f, A[k])
      <4>1. IsFiniteSet(U(k)) /\ IsFiniteSet(A[k])
        BY <1>b, <1>1, <1>2, <2>2, FS_Subset
      <4>2. \A x \in U(k) \cup A[k] : f[x] \in Nat
        BY <1>1, <1>c, <1>f, <2>2
      <4> HIDE DEF U
      <4> QED
        BY <3>3, <4>1, <4>2, SumSplits
    <3>6. SumOn(g, {k}) = g[k] /\ g[k] = SumOn(f, A[k])
      BY <1>2, <1>c, <2>2, SumOfOne
    <3>7. SumOn(g, J(k)) = SumOn(f, U(k))
      BY <1>4
    <3>8. SumOn(g, J(k + 1)) = SumOn(f, U(k + 1))
      BY ONLY <3>1, <3>2, <3>4, <3>5, <3>6, <3>7
    <3> QED
      BY <3>8
  <2> QED
    BY <2>1, <2>2
<1>5. n \in D
  <2>1. n \in Nat
    OBVIOUS
  <2> HIDE DEF D
  <2> QED
    BY <1>3, <1>4, <2>1, SetInduction
<1>6. J(n) = I
  BY <1>f
<1>7. SumOn(g, J(n)) = SumOn(f, U(n))
  BY <1>5
<1>8. U(n) = S
  <2>1. \A x \in U(n) : x \in S
    BY <1>1
  <2>2. \A x \in S : x \in U(n)
    BY <1>e, <1>6
  <2> QED
    BY <2>1, <2>2
<1>9. SumOn(g, I) = SumOn(f, S)
  BY ONLY <1>6, <1>7, <1>8
<1> QED
  BY <1>9 DEF I, S

\* The numbers of elements in all subfiles add up to those with an owner.
LEMMA NodesAddUp ==
  ASSUME NEW p \in Placements, NEW d \in Decomp, NEW g,
         \A r \in Roots(p) : g[r] = SumOver(d, OnNode(p, r))
  PROVE  Total([r \in {SubRoot(p, q) : q \in Rank} |-> g[r]]) = Cardinality(Listed(d))
<1>0. IsPlacement(p) /\ DOMAIN p = Rank
  BY Given
<1>1. {SubRoot(p, q) : q \in Rank} = Roots(p)
  <2>1. \A q \in Rank : SubRoot(p, q) \in Roots(p)
    BY <1>0, RootProperties
  <2>2. \A r \in Roots(p) : r \in Rank /\ SubRoot(p, r) = r
    BY <1>0, RootProperties DEF Roots
  <2> QED
    BY <2>1, <2>2
<1>2. \A r \in Roots(p) : OnNode(p, r) \in SUBSET Rank
  BY <1>0, NodeProperties DEF Roots
<1>3. /\ \A x \in DOMAIN p : CountsOf(d)[x] \in Nat
      /\ \A r \in Roots(p) : g[r] = SumOn(CountsOf(d), OnNode(p, r))
      /\ SumOver(d, Rank) = SumOn(CountsOf(d), Rank)
  BY <1>0, <1>2, Amounts
<1>4. SumOn(g, Roots(p)) = SumOn(CountsOf(d), DOMAIN p)
  BY <1>0, <1>3, SumOfNodes
<1>5. SumOn(g, Roots(p)) = Cardinality(Listed(d))
  BY <1>0, <1>3, <1>4, ListedOnce
<1> QED
  BY <1>1, <1>5 DEF SumOn

-----------------------------------------------------------------------------
(* The metadata of the writing ranks.                                      *)

Numbered == {r \in Rank : pc[r] \notin {"split", "bcast"}}

\* What a rank's metadata is in each phase. In blob layout a rank that waits
\* for the broadcast holds what the split gave it.
Metadata ==
  /\ layout \in {"canonical", "blob"} /\ place \in Placements
  /\ \A r \in Rank : pc[r] \in IF layout = "canonical" THEN {"calc", "post", "wait", "flushed", "closed"}
                               ELSE {"split", "bcast", "scan", "post", "wait", "flushed", "closed"}
  /\ layout = "blob" =>
       /\ \A r \in Rank : pc[r] = "bcast" =>
            /\ nsub[r] = Cardinality(Colour(place, r))
            /\ id[r] = RankIn(Colour(place, r), r)
       /\ \A r \in Numbered :
            /\ nsub[r] = Cardinality(Roots(place))
            /\ id[r] = NodeID(place, r)
       /\ \A r \in Counted : OnNode(place, r) \subseteq Counted
       /\ \A r \in Counted, d \in Decomp :
            /\ count[d][r] = CountOf(d, r)
            /\ start[d][r] = Exscan(d, OnNode(place, r), r)
            /\ nelems[d][r] = SumOver(d, OnNode(place, r))
            /\ maxReqs[d][r] = Max({Len(Reqs[d][q]) : q \in OnNode(place, r)})

LEMMA MetadataInit == InitWrite => Metadata
<1> SUFFICES ASSUME InitWrite PROVE Metadata
  OBVIOUS
<1>1. layout \in {"canonical", "blob"} /\ place \in Placements
  BY DEF InitWrite
<1>2. \A r \in Rank : pc[r] = IF layout = "blob" THEN "split" ELSE "calc"
  BY DEF InitWrite
<1> QED
  BY <1>1, <1>2 DEF Metadata, Numbered, Counted

\* The ranks of a node and its members.
LEMMA NodeMembers ==
  ASSUME place \in Placements, NEW S \in Nodes
  PROVE  /\ S \subseteq Rank /\ S # {}
         /\ \A r \in S : OnNode(place, r) = S
         /\ \A r \in Rank : OnNode(place, r) = S => r \in S
<1>1. PICK x \in Rank : S = OnNode(place, x)
  BY DEF Nodes
<1>2. DOMAIN place = Rank /\ IsPlacement(place)
  BY Given
<1>3. S \subseteq Rank /\ x \in S /\ \A r \in S : OnNode(place, r) = S
  BY <1>1, <1>2, NodeProperties
<1>4. \A r \in Rank : OnNode(place, r) = S => r \in S
  BY <1>2, NodeProperties
<1> QED
  BY <1>3, <1>4

LEMMA MetadataStep == Metadata /\ NextWrite => Metadata'
<1> SUFFICES ASSUME Metadata, NextWrite PROVE Metadata'
  OBVIOUS
<1> USE DEF Metadata
<1>1. /\ place \in Placements /\ DOMAIN place = Rank /\ IsPlacement(place)
      /\ layout \in {"canonical", "blob"}
  BY Given
<1>2. CASE Split
  <2>1. /\ UNCHANGED <<layout, place>>
        /\ At(Rank, "split")
        /\ \A r \in Rank : /\ pc'[r] = "bcast"
                           /\ nsub'[r] = Cardinality(Colour(place, r))
                           /\ id'[r] = RankIn(Colour(place, r), r)
    BY <1>2 DEF Split, Go
  <2>2. layout = "blob"
    <3>1. \E r \in Rank : pc[r] = "split"
      BY <2>1, Given DEF At
    <3> QED
      BY <1>1, <3>1
  <2> QED
    BY <1>1, <2>1, <2>2 DEF Numbered, Counted
<1>3. CASE \E S \in Nodes : Bcast(S)
  <2>1. PICK S \in Nodes : Bcast(S)
    BY <1>3
  <2>2. /\ UNCHANGED <<layout, place, start, count, nelems, maxReqs>>
        /\ \A r \in S : pc[r] = "bcast"
        /\ \A r \in Rank : pc'[r] = IF r \in S THEN "scan" ELSE pc[r]
    BY <2>1 DEF Bcast, At, Go
  <2>3. S \subseteq Rank /\ S # {} /\ \A r \in S : OnNode(place, r) = S
    BY <1>1, <2>1, NodeMembers
  <2>4. layout = "blob"
    BY <1>1, <2>2, <2>3
  <2>5. ASSUME NEW r \in S
        PROVE  nsub'[r] = Cardinality(Roots(place)) /\ id'[r] = NodeID(place, r)
    <3>1. SubRoot(place, r) \in S /\ SubRoot(place, r) \in Rank
      BY <1>1, <2>3, RootProperties
    <3>2. /\ nsub'[r] = nsub[SubRoot(place, r)]
          /\ id'[r] = id[SubRoot(place, r)]
      BY <1>1, <2>1, <2>3 DEF Bcast, FromRoot
    <3>3. /\ nsub[SubRoot(place, r)] = Cardinality(Colour(place, SubRoot(place, r)))
          /\ id[SubRoot(place, r)] = RankIn(Colour(place, SubRoot(place, r)), SubRoot(place, r))
      BY <2>2, <2>4, <3>1
    <3> QED
      BY <1>1, <2>3, <3>2, <3>3, RootColour
  <2>6. \A r \in Rank \ S : nsub'[r] = nsub[r] /\ id'[r] = id[r]
    BY <2>1 DEF Bcast
  <2>7. Counted' = Counted
    BY <2>2 DEF Counted
  <2>8. \A r \in Numbered' : nsub'[r] = Cardinality(Roots(place)) /\ id'[r] = NodeID(place, r)
    <3> TAKE r \in Numbered'
    <3>1. r \in S \/ (r \in Rank \ S /\ r \in Numbered)
      BY <2>2 DEF Numbered
    <3> QED
      BY <2>4, <2>5, <2>6, <3>1
  <2>9. \A r \in Rank : pc'[r] = "bcast" => pc[r] = "bcast" /\ r \in Rank \ S
    BY <2>2
  <2>10. \A r \in Rank : pc'[r] \in {"split", "bcast", "scan", "post", "wait", "flushed", "closed"}
    BY <2>2, <2>4
  <2> QED
    BY <1>1, <2>2, <2>4, <2>6, <2>7, <2>8, <2>9, <2>10
<1>4. CASE \E S \in Nodes : Scan(S)
  <2>1. PICK S \in Nodes : Scan(S)
    BY <1>4
  <2>2. /\ UNCHANGED <<layout, place, nsub, id>>
        /\ \A r \in S : pc[r] = "scan"
        /\ \A r \in Rank : pc'[r] = IF r \in S THEN "post" ELSE pc[r]
    BY <2>1 DEF Scan, At, Go
  <2>3. S \subseteq Rank /\ S # {} /\ \A r \in S : OnNode(place, r) = S
    BY <1>1, <2>1, NodeMembers
  <2>4. layout = "blob"
    BY <1>1, <2>2, <2>3
  <2>5. \A r \in S, d \in Decomp :
          /\ count'[d][r] = CountOf(d, r)
          /\ start'[d][r] = Exscan(d, S, r)
          /\ nelems'[d][r] = SumOver(d, S)
          /\ maxReqs'[d][r] = Max({Len(Reqs[d][q]) : q \in S})
    BY <2>1, <2>3 DEF Scan, Reduced
  <2>6. \A r \in Rank \ S, d \in Decomp :
          /\ count'[d][r] = count[d][r] /\ start'[d][r] = start[d][r]
          /\ nelems'[d][r] = nelems[d][r] /\ maxReqs'[d][r] = maxReqs[d][r]
    BY <2>1 DEF Scan, Reduced
  <2>7. \A r \in Counted', d \in Decomp :
          /\ count'[d][r] = CountOf(d, r)
          /\ start'[d][r] = Exscan(d, OnNode(place, r), r)
          /\ nelems'[d][r] = SumOver(d, OnNode(place, r))
          /\ maxReqs'[d][r] = Max({Len(Reqs[d][q]) : q \in OnNode(place, r)})
    <3> TAKE r \in Counted', d \in Decomp
    <3>1. CASE r \in S
      BY <2>3, <2>5, <3>1
    <3>2. CASE r \notin S
      <4>1. r \in Rank \ S /\ r \in Counted
        BY <2>2, <3>2 DEF Counted
      <4> QED
        BY <2>4, <2>6, <4>1
    <3> QED
      BY <3>1, <3>2
  <2>8. \A r \in Numbered' : nsub'[r] = Cardinality(Roots(place)) /\ id'[r] = NodeID(place, r)
    BY <2>2, <2>4 DEF Numbered
  <2>9. \A r \in Rank : pc'[r] = "bcast" => pc[r] = "bcast"
    BY <2>2
  <2>10. \A r \in Rank : pc'[r] \in {"split", "bcast", "scan", "post", "wait", "flushed", "closed"}
    BY <2>2, <2>4
  <2>11. \A r \in Counted' : OnNode(place, r) \subseteq Counted'
    <3>1. Counted' = Counted \cup S
      BY <2>2, <2>3 DEF Counted
    <3> QED
      BY <2>3, <2>4, <3>1
  <2> QED
    BY <1>1, <2>2, <2>4, <2>7, <2>8, <2>9, <2>10, <2>11
<1>5. CASE \E r \in Rank : Calc(r)
  <2>1. PICK x \in Rank : Calc(x)
    BY <1>5
  <2>2. layout = "canonical" /\ UNCHANGED <<layout, place>>
    BY <1>1, <2>1 DEF Calc
  <2>3. \A r \in Rank : pc'[r] = IF r = x THEN "post" ELSE pc[r]
    BY <2>1 DEF Calc, Go
  <2> QED
    BY <1>1, <2>2, <2>3
\* The other actions move counted ranks only.
<1>6. ASSUME UNCHANGED <<layout, place, nsub, id, start, count, nelems, maxReqs>>,
             NEW S, NEW l \in {"wait", "flushed", "closed"}, Go(S, l),
             \A r \in S \cap Rank : pc[r] \in {"post", "wait", "flushed"}
      PROVE  Metadata'
  <2>1. \A r \in Rank : \/ pc'[r] = pc[r]
                        \/ pc[r] \in {"post", "wait", "flushed"} /\ pc'[r] \in {"wait", "flushed", "closed"}
    BY <1>6 DEF Go
  <2>2. Numbered' = Numbered /\ Counted' = Counted
    BY <2>1 DEF Numbered, Counted
  <2>3. \A r \in Rank : pc'[r] = "bcast" => pc[r] = "bcast"
    BY <2>1
  <2>4. \A r \in Rank : pc'[r] \in IF layout = "canonical" THEN {"calc", "post", "wait", "flushed", "closed"}
                               ELSE {"split", "bcast", "scan", "post", "wait", "flushed", "closed"}
    BY <1>1, <2>1
  <2> QED
    BY <1>1, <1>6, <2>2, <2>3, <2>4
<1>7. CASE \E r \in Rank : Post(r)
  BY <1>6, <1>7 DEF Post
<1>8. CASE FlushFile
  BY <1>6, <1>8 DEF FlushFile, At
<1>9. CASE \E S \in Nodes : FlushSubfile(S)
  BY <1>6, <1>9 DEF FlushSubfile, At
<1>10. CASE \E S \in IF layout = "blob" THEN Nodes ELSE {Rank} : Close(S)
  BY <1>6, <1>10 DEF Close, At
<1> QED
  BY <1>2, <1>3, <1>4, <1>5, <1>7, <1>8, <1>9, <1>10 DEF NextWrite

LEMMA MetadataStays == Metadata /\ UNCHANGED <<layout, place, pc, nsub, id, start, count, nelems, maxReqs>>
                         => Metadata'
  BY DEF Metadata, Numbered, Counted

LEMMA MetadataTile == Metadata => BlobsTile
<1> SUFFICES ASSUME Metadata, layout = "blob" PROVE BlobsTile
  BY DEF BlobsTile
<1>1. /\ place \in Placements /\ DOMAIN place = Rank /\ IsPlacement(place)
      /\ \A r \in Numbered : /\ nsub[r] = Cardinality(Roots(place))
                             /\ id[r] = NodeID(place, r)
      /\ \A r \in Counted : OnNode(place, r) \subseteq Counted
      /\ \A r \in Counted, d \in Decomp :
           /\ count[d][r] = CountOf(d, r)
           /\ start[d][r] = Exscan(d, OnNode(place, r), r)
           /\ nelems[d][r] = SumOver(d, OnNode(place, r))
           /\ maxReqs[d][r] = Max({Len(Reqs[d][q]) : q \in OnNode(place, r)})
  BY Given DEF Metadata
<1>2. ASSUME NEW r \in Counted, NEW d \in Decomp
      PROVE  /\ SubRank(place, r) = 0 => start[d][r] = 0
             /\ Len(Reqs[d][r]) <= maxReqs[d][r]
             /\ \A q \in OnNode(place, r) :
                  /\ SubRank(place, q) = SubRank(place, r) + 1
                       => start[d][q] = start[d][r] + count[d][r]
                  /\ start[d][q] + count[d][q] <= nelems[d][r]
  <2>1. r \in Rank /\ \A q \in OnNode(place, r) : q \in Counted /\ OnNode(place, q) = OnNode(place, r)
    BY <1>1, NodeProperties DEF Counted
  <2>2. /\ SubRank(place, r) = 0 => Exscan(d, OnNode(place, r), r) = 0
        /\ \A q \in OnNode(place, r) :
             /\ SubRank(place, q) = SubRank(place, r) + 1
                  => Exscan(d, OnNode(place, r), q) = Exscan(d, OnNode(place, r), r) + CountOf(d, r)
             /\ Exscan(d, OnNode(place, r), q) + CountOf(d, q) <= SumOver(d, OnNode(place, r))
        /\ Len(Reqs[d][r]) <= Max({Len(Reqs[d][q]) : q \in OnNode(place, r)})
    BY <1>1, <2>1, Scanned
  <2>3. /\ count[d][r] = CountOf(d, r)
        /\ start[d][r] = Exscan(d, OnNode(place, r), r)
        /\ nelems[d][r] = SumOver(d, OnNode(place, r))
        /\ maxReqs[d][r] = Max({Len(Reqs[d][q]) : q \in OnNode(place, r)})
    BY <1>1
  <2>4. \A q \in OnNode(place, r) : /\ count[d][q] = CountOf(d, q)
                                    /\ start[d][q] = Exscan(d, OnNode(place, r), q)
    BY <1>1, <2>1
  <2> QED
    BY <2>2, <2>3, <2>4
<1>3. ASSUME Counted = Rank, NEW d \in Decomp
      PROVE  Total([r \in {SubRoot(place, q) : q \in Rank} |-> nelems[d][r]]) = Cardinality(Listed(d))
  <2>1. \A r \in Roots(place) : nelems[d][r] = SumOver(d, OnNode(place, r))
    BY <1>1, <1>3 DEF Roots
  <2> QED
    BY <1>1, <2>1, NodesAddUp
<1>4. ASSUME NEW q \in Numbered, NEW r \in Numbered
      PROVE  (id[q] = id[r] <=> place[q] = place[r]) /\ id[r] \in 0 .. nsub[r] - 1
  <2>1. q \in Rank /\ r \in Rank
    BY DEF Numbered
  <2>2. q \in OnNode(place, r) <=> place[q] = place[r]
    BY <1>1, <2>1 DEF OnNode
  <2> QED
    BY <1>1, <2>1, <2>2, NodeNumbers
<1> QED
  BY <1>2, <1>3, <1>4 DEF BlobsTile, Numbered

\* What the replay leaves alone.
LEMMA ReplayFrame ==
  NextReplay => /\ UNCHANGED <<layout, place, pc, nsub, id, start, count, nelems, maxReqs, posted, subfile, rplace>>
                /\ WaitWrites \/ UNCHANGED file
<1> SUFFICES ASSUME NextReplay
             PROVE  \/ UNCHANGED wvars /\ UNCHANGED rplace
                    \/ /\ WaitWrites
                       /\ UNCHANGED <<layout, place, pc, nsub, id, start, count, nelems, maxReqs,
                                      posted, subfile, rplace>>
  BY DEF wvars
<1>1. CASE RSplit
  BY <1>1 DEF RSplit
<1>2. CASE RCreate
  BY <1>2 DEF RCreate
<1>3. CASE RDefine
  BY <1>3 DEF RDefine
<1>4. CASE WaitWrites
  BY <1>4 DEF WaitWrites
<1>5. CASE RClose
  BY <1>5 DEF RClose
<1>6. ASSUME NEW S \in NodesOfP, RBcast(S) PROVE UNCHANGED wvars /\ UNCHANGED rplace
  BY <1>6 DEF RBcast
<1>7. ASSUME NEW S \in NodesOfP, ROpen(S) PROVE UNCHANGED wvars /\ UNCHANGED rplace
  BY <1>7 DEF ROpen
<1>8. ASSUME NEW S \in NodesOfP, ReadDecomp(S) PROVE UNCHANGED wvars /\ UNCHANGED rplace
  BY <1>8 DEF ReadDecomp
<1>9. ASSUME NEW S \in NodesOfP, WaitReads(S) PROVE UNCHANGED wvars /\ UNCHANGED rplace
  BY <1>9 DEF WaitReads
<1>10. ASSUME NEW p \in P, PostReads(p) \/ PostWrites(p) PROVE UNCHANGED wvars /\ UNCHANGED rplace
  BY <1>10 DEF PostReads, PostWrites
<1> QED
  BY <1>1, <1>2, <1>3, <1>4, <1>5, <1>6, <1>7, <1>8, <1>9, <1>10 DEF NextReplay

LEMMA MetadataNext == Metadata /\ [Next]_vars => Metadata'
<1> SUFFICES ASSUME Metadata, [Next]_vars PROVE Metadata'
  OBVIOUS
<1>1. CASE NextWrite
  BY <1>1, MetadataStep
<1>2. CASE NextReplay
  BY <1>2, ReplayFrame, MetadataStays
<1>3. CASE UNCHANGED vars
  BY <1>3, MetadataStays DEF vars, wvars
<1> QED
  BY <1>1, <1>2, <1>3 DEF Next

\* The metadata of the subfiles is right in every state: blobs tile the
\* subfiles, D*.nelems of all subfiles add up to the elements that have an
\* owner, and subfiles have different numbers (calc_metadata()).
THEOREM MetadataRight == Spec => []BlobsTile
<1>1. Init => Metadata
  BY MetadataInit DEF Init
<1> QED
  BY <1>1, MetadataNext, MetadataTile, PTL DEF Spec

-----------------------------------------------------------------------------
(* Cells.                                                                  *)

\* The start vector of the place of a cell is the cell.
LEMMA PlaceIsCoord ==
  ASSUME NEW dims, Shape(dims), NEW c \in Index(dims)
  PROVE  /\ RowMajor(c, dims) \in Nat
         /\ Coord(RowMajor(c, dims), dims) = c
         /\ c # <<>>
<1>1. CASE Len(dims) = 1
  <2>1. dims[1] \in Nat
    BY <1>1, Lengths DEF Positive
  <2>2. PICK a \in 0 .. dims[1] - 1 : c = <<a>>
    BY <1>1 DEF Index
  <2>3. RowMajor(c, dims) = a /\ a \in Nat
    BY <1>1, <2>1, <2>2 DEF RowMajor
  <2> QED
    BY <1>1, <2>2, <2>3 DEF Coord
<1>2. CASE Len(dims) = 2
  <2>1. dims[1] \in Nat /\ dims[2] \in Nat /\ dims[2] \in Positive
    BY <1>2, Lengths DEF Positive
  <2>2. c \in (0 .. dims[1] - 1) \X (0 .. dims[2] - 1)
    BY <1>2 DEF Index
  <2> DEFINE a == c[1]
             b == c[2]
  <2>3. a \in Nat /\ b \in 0 .. dims[2] - 1 /\ b \in Nat /\ c = <<a, b>>
    BY <2>1, <2>2
  <2>4. RowMajor(c, dims) = a * dims[2] + b
    BY <1>2 DEF RowMajor
  <2> HIDE DEF a, b
  <2>5. a * dims[2] = dims[2] * a /\ dims[2] * a \in Nat
    BY <2>1, <2>3
  <2>6. RowMajor(c, dims) \in Nat /\ RowMajor(c, dims) = dims[2] * a + b
    BY <2>3, <2>4, <2>5
  <2>7. RowMajor(c, dims) \div dims[2] = a /\ RowMajor(c, dims) % dims[2] = b
    BY <2>1, <2>3, <2>6, DivUnique
  <2>8. Coord(RowMajor(c, dims), dims) = <<a, b>>
    BY <1>2, <2>7 DEF Coord
  <2> QED
    BY <2>3, <2>6, <2>8
<1>3. CASE Len(dims) = 3
  <2>1. /\ dims[1] \in Nat /\ dims[2] \in Nat /\ dims[2] \in Positive
        /\ dims[3] \in Nat /\ dims[3] \in Positive
    BY <1>3, Lengths DEF Positive
  <2>2. c \in (0 .. dims[1] - 1) \X (0 .. dims[2] - 1) \X (0 .. dims[3] - 1)
    BY <1>3 DEF Index
  <2> DEFINE a == c[1]
             b == c[2]
             e == c[3]
  <2>3. /\ a \in Nat /\ b \in 0 .. dims[2] - 1 /\ b \in Nat
        /\ e \in 0 .. dims[3] - 1 /\ e \in Nat /\ c = <<a, b, e>>
    BY <2>1, <2>2
  <2>4. RowMajor(c, dims) = (a * dims[2] + b) * dims[3] + e
    BY <1>3 DEF RowMajor
  <2> HIDE DEF a, b, e
  <2> DEFINE row == a * dims[2] + b
  <2>5. a * dims[2] = dims[2] * a /\ dims[2] * a \in Nat
    BY <2>1, <2>3
  <2>6. row \in Nat /\ row = dims[2] * a + b
    BY <2>3, <2>5
  <2> HIDE DEF row
  <2>7. row \div dims[2] = a /\ row % dims[2] = b
    BY <2>1, <2>3, <2>6, DivUnique
  <2>8. RowMajor(c, dims) = row * dims[3] + e
    BY <2>4 DEF row
  <2>9. row * dims[3] = dims[3] * row /\ dims[3] * row \in Nat
    BY <2>1, <2>6
  <2>10. RowMajor(c, dims) \in Nat /\ RowMajor(c, dims) = dims[3] * row + e
    BY <2>3, <2>8, <2>9
  <2>11. RowMajor(c, dims) \div dims[3] = row /\ RowMajor(c, dims) % dims[3] = e
    BY <2>1, <2>3, <2>6, <2>10, DivUnique
  <2>12. Coord(RowMajor(c, dims), dims) = <<a, b, e>>
    BY <1>3, <2>7, <2>10, <2>11, CoordByRow
  <2> QED
    BY <2>3, <2>10, <2>12
<1> QED
  BY <1>1, <1>2, <1>3 DEF Shape

\* A request that starts in the array and ends in the row it starts in, as
\* read_decomp() makes them.
IsRequest(off, len, dims) ==
  /\ \E c \in Index(dims) : RowMajor(c, dims) = off
  /\ (off % dims[Len(dims)]) + len <= dims[Len(dims)]

\* All its cells are in the array.
LEMMA RowInside ==
  ASSUME NEW dims, Shape(dims), NEW off \in Nat, NEW len \in Nat, IsRequest(off, len, dims),
         NEW j \in 1 .. len
  PROVE  /\ RequestCells(Coord(off, dims), len)[j] = Coord(off + j - 1, dims)
         /\ Coord(off + j - 1, dims) \in Index(dims)
<1>1. PICK c \in Index(dims) : RowMajor(c, dims) = off
  BY DEF IsRequest
<1>2. (off % dims[Len(dims)]) + len <= dims[Len(dims)]
  BY DEF IsRequest
<1>3. RequestCells(Coord(off, dims), len)[j] = Coord(off + j - 1, dims)
  BY <1>2, RequestIsRow
<1>4. Coord(off, dims) = c
  BY <1>1, PlaceIsCoord
<1>5. RequestCells(c, len)[j] = [c EXCEPT ![Len(c)] = @ + j - 1]
  BY DEF RequestCells
<1>6. [c EXCEPT ![Len(c)] = @ + j - 1] \in Index(dims)
  <2>1. CASE Len(dims) = 1
    <3>1. dims[1] \in Nat /\ dims[1] \in Positive
      BY <2>1, Lengths DEF Positive
    <3>2. PICK a \in 0 .. dims[1] - 1 : c = <<a>>
      BY <2>1 DEF Index
    <3>3. off = a
      BY <1>1, <2>1, <3>2 DEF RowMajor
    <3>4. off = dims[1] * 0 + a /\ a \in Nat /\ 0 \in Nat
      BY <3>1, <3>2, <3>3
    <3>5. off % dims[1] = a
      BY <3>1, <3>2, <3>4, DivUnique
    <3>6. a + j - 1 \in 0 .. dims[1] - 1
      BY <1>2, <2>1, <3>1, <3>2, <3>5
    <3> QED
      BY <2>1, <3>2, <3>6 DEF Index
  <2>2. CASE Len(dims) = 2
    <3>1. dims[1] \in Nat /\ dims[2] \in Nat
      BY <2>2, Lengths DEF Positive
    <3>2. PICK a \in 0 .. dims[1] - 1 : \E b \in 0 .. dims[2] - 1 : c = <<a, b>>
      BY <2>2 DEF Index
    <3>3. PICK b \in 0 .. dims[2] - 1 : c = <<a, b>>
      BY <3>2
    <3>4. off % dims[2] = b
      BY <1>4, <2>2, <3>3 DEF Coord
    <3>5. b + j - 1 \in 0 .. dims[2] - 1
      BY <1>2, <2>2, <3>1, <3>4
    <3>6. [c EXCEPT ![Len(c)] = @ + j - 1] = <<a, b + j - 1>>
      BY <3>3
    <3> QED
      BY <2>2, <3>2, <3>5, <3>6 DEF Index
  <2>3. CASE Len(dims) = 3
    <3>1. dims[1] \in Nat /\ dims[2] \in Nat /\ dims[3] \in Nat
      BY <2>3, Lengths DEF Positive
    <3>2. PICK a \in 0 .. dims[1] - 1 : \E b \in 0 .. dims[2] - 1, e \in 0 .. dims[3] - 1 : c = <<a, b, e>>
      BY <2>3 DEF Index
    <3>3. PICK b \in 0 .. dims[2] - 1, e \in 0 .. dims[3] - 1 : c = <<a, b, e>>
      BY <3>2
    <3>4. off % dims[3] = e
      BY <1>4, <2>3, <3>3 DEF Coord
    <3>5. e + j - 1 \in 0 .. dims[3] - 1
      BY <1>2, <2>3, <3>1, <3>4
    <3>6. [c EXCEPT ![Len(c)] = @ + j - 1] = <<a, b, e + j - 1>>
      BY <3>3
    <3> QED
      BY <2>3, <3>2, <3>5, <3>6 DEF Index
  <2> QED
    BY <2>1, <2>2, <2>3 DEF Shape
<1> QED
  BY <1>3, <1>4, <1>5, <1>6

LEMMA ListIs ==
  ASSUME NEW S, NEW n \in Nat, NEW f, f = [j \in 1 .. n |-> f[j]], \A j \in 1 .. n : f[j] \in S
  PROVE  f \in Seq(S) /\ Len(f) = n
<1>1. f \in [1 .. n -> S]
  OBVIOUS
<1> QED
  BY <1>1

\* The cells that a list of requests covers are those of its elements, one
\* by one.
LEMMA CellsOfElements ==
  ASSUME NEW dims, Shape(dims), NEW s \in Seq(Nat \X (Nat \ {0})),
         \A i \in DOMAIN s : IsRequest(s[i][1], s[i][2], dims)
  PROVE  LET C == Cells(Starts(s, dims), s)
             E == Elements(s)
         IN  /\ DOMAIN C = 1 .. Len(E) /\ DOMAIN E = 1 .. Len(E)
             /\ \A k \in 1 .. Len(E) : /\ E[k] \in Nat
                                       /\ C[k] = Coord(E[k], dims)
                                       /\ C[k] \in Index(dims)
                                       /\ C[k] # <<>>
                                       /\ RowMajor(C[k], dims) = E[k]
<1> DEFINE e == [i \in 1 .. Len(s) |-> [j \in 1 .. s[i][2] |-> s[i][1] + j - 1]]
           t == [i \in 1 .. Len(s) |-> RequestCells(Starts(s, dims)[i], s[i][2])]
           F == [n \in Nat |-> Coord(n, dims)]
<1>1. Len(s) \in Nat /\ DOMAIN s = 1 .. Len(s)
      /\ \A i \in 1 .. Len(s) : /\ s[i][1] \in Nat /\ s[i][2] \in Nat
                                /\ IsRequest(s[i][1], s[i][2], dims)
  OBVIOUS
<1>2. ASSUME NEW i \in 1 .. Len(s)
      PROVE  /\ e[i] \in Seq(Nat) /\ Len(e[i]) = s[i][2]
             /\ t[i] \in Seq(Index(dims)) /\ Len(t[i]) = Len(e[i])
             /\ \A j \in 1 .. Len(e[i]) : t[i][j] = F[e[i][j]]
  <2> DEFINE off == s[i][1]
             len == s[i][2]
  <2>1. off \in Nat /\ len \in Nat /\ IsRequest(off, len, dims)
    BY <1>1
  <2>2. e[i] = [j \in 1 .. len |-> off + j - 1]
    OBVIOUS
  <2>3. Starts(s, dims)[i] = Coord(off, dims)
    BY DEF Starts
  <2>4. t[i] = RequestCells(Coord(off, dims), len)
    BY <2>3
  <2> HIDE DEF off, len, e, t
  <2>5. \A j \in 1 .. len : /\ off + j - 1 \in Nat
                            /\ t[i][j] = Coord(off + j - 1, dims)
                            /\ t[i][j] \in Index(dims)
    BY <2>1, <2>4, RowInside
  <2>6. t[i] = [j \in 1 .. len |-> t[i][j]]
    BY <2>4 DEF RequestCells
  <2>7. t[i] \in Seq(Index(dims)) /\ Len(t[i]) = len
    BY <2>1, <2>5, <2>6, ListIs
  <2>8. e[i] = [j \in 1 .. len |-> e[i][j]] /\ \A j \in 1 .. len : e[i][j] = off + j - 1
    BY <2>2
  <2>9. e[i] \in Seq(Nat) /\ Len(e[i]) = len
    <3>1. \A j \in 1 .. len : e[i][j] \in Nat
      BY <2>5, <2>8
    <3> QED
      BY <2>1, <2>8, <3>1, ListIs
  <2>10. ASSUME NEW j \in 1 .. len PROVE t[i][j] = F[e[i][j]]
    <3>1. e[i][j] \in Nat /\ t[i][j] = Coord(e[i][j], dims)
      BY <2>5, <2>8
    <3> QED
      BY <3>1
  <2> QED
    BY <2>7, <2>9, <2>10 DEF len
<1>3. e \in Seq(Seq(Nat)) /\ t \in Seq(Seq(Index(dims))) /\ Len(e) = Len(s) /\ Len(t) = Len(s)
  <2>1. \A i \in 1 .. Len(s) : e[i] \in Seq(Nat) /\ t[i] \in Seq(Index(dims))
    BY <1>2
  <2>2. e = [i \in 1 .. Len(s) |-> e[i]] /\ t = [i \in 1 .. Len(s) |-> t[i]]
    OBVIOUS
  <2> HIDE DEF e, t
  <2> QED
    BY <1>1, <2>1, <2>2
<1>4. Elements(s) = FlattenSeq(e) /\ Cells(Starts(s, dims), s) = FlattenSeq(t)
  BY DEF Elements, Cells
<1>5. \A n \in Nat : F[n] = Coord(n, dims)
  OBVIOUS
<1> HIDE DEF e, t, F
<1>6. /\ FlattenSeq(e) \in Seq(Nat) /\ FlattenSeq(t) \in Seq(Index(dims))
      /\ Len(FlattenSeq(t)) = Len(FlattenSeq(e))
      /\ \A k \in 1 .. Len(FlattenSeq(e)) : FlattenSeq(t)[k] = F[FlattenSeq(e)[k]]
  <2>1. e \in Seq(Seq(Nat)) /\ t \in Seq(Seq(Index(dims))) /\ Len(t) = Len(e)
    BY <1>3
  <2>2. IsMapped(e, t, F)
    BY <1>2, <1>3, <2>1 DEF IsMapped
  <2> QED
    BY ONLY <2>1, <2>2, FlattenMaps
<1>7. ASSUME NEW k \in 1 .. Len(FlattenSeq(e))
      PROVE  /\ FlattenSeq(e)[k] \in Nat
             /\ FlattenSeq(t)[k] = Coord(FlattenSeq(e)[k], dims)
             /\ FlattenSeq(t)[k] \in Index(dims)
             /\ FlattenSeq(t)[k] # <<>>
             /\ RowMajor(FlattenSeq(t)[k], dims) = FlattenSeq(e)[k]
  <2>1. FlattenSeq(e)[k] \in Nat /\ FlattenSeq(t)[k] \in Index(dims)
    BY <1>6
  <2>2. FlattenSeq(t)[k] = Coord(FlattenSeq(e)[k], dims)
    BY <1>5, <1>6, <2>1
  <2> QED
    BY <2>1, <2>2, PlaceIsCoord, CoordIsPlace
<1>8. DOMAIN FlattenSeq(t) = 1 .. Len(FlattenSeq(e)) /\ DOMAIN FlattenSeq(e) = 1 .. Len(FlattenSeq(e))
  BY <1>6
<1> QED
  BY <1>4, <1>7, <1>8

\* The replay uses the same cells.
LEMMA SameStarts ==
  ASSUME NEW dims, Shape(dims), NEW s \in Seq(Nat \X (Nat \ {0}))
  PROVE  ReplayStarts(s, dims) = Starts(s, dims)
<1>1. \A i \in 1 .. Len(s) : ReplayCoord(s[i][1], dims) = Coord(s[i][1], dims)
  BY ReplayAgrees
<1> QED
  BY <1>1 DEF ReplayStarts, Starts

\* The cells a rank writes of a partitioned variable.
CellsBy(d, r) == Cells(Starts(Reqs[d][r], Dims[d]), Reqs[d][r])

LEMMA OwnedCells ==
  ASSUME NEW d \in Decomp, NEW r \in Rank
  PROVE  /\ CountOf(d, r) \in Nat
         /\ DOMAIN CellsBy(d, r) = 1 .. CountOf(d, r)
         /\ DOMAIN Elements(Reqs[d][r]) = 1 .. CountOf(d, r)
         /\ \A k \in 1 .. CountOf(d, r) : /\ CellsBy(d, r)[k] \in Owned(d)
                                          /\ CellsBy(d, r)[k] # <<>>
                                          /\ RowMajor(CellsBy(d, r)[k], Dims[d]) = Elements(Reqs[d][r])[k]
         /\ \A c \in Owned(d) : RowMajor(c, Dims[d]) \in ToSet(Elements(Reqs[d][r])) =>
              \E k \in 1 .. CountOf(d, r) : CellsBy(d, r)[k] = c
<1> DEFINE E == Elements(Reqs[d][r])
           C == CellsBy(d, r)
<1>1. Reqs[d][r] \in Seq(Nat \X (Nat \ {0})) /\ Shape(Dims[d])
  BY Given
<1>2. \A i \in DOMAIN Reqs[d][r] : IsRequest(Reqs[d][r][i][1], Reqs[d][r][i][2], Dims[d])
  BY SubFilesAssumption DEF IsRequest
<1>3. /\ DOMAIN C = 1 .. Len(E) /\ DOMAIN E = 1 .. Len(E)
      /\ \A k \in 1 .. Len(E) : /\ E[k] \in Nat
                                /\ C[k] = Coord(E[k], Dims[d])
                                /\ C[k] \in Index(Dims[d])
                                /\ C[k] # <<>>
                                /\ RowMajor(C[k], Dims[d]) = E[k]
  BY <1>1, <1>2, CellsOfElements DEF CellsBy
<1>4. CountOf(d, r) = Len(E) /\ CountOf(d, r) \in Nat
  BY Amounts DEF CountOf
<1>5. ASSUME NEW k \in 1 .. Len(E) PROVE C[k] \in Owned(d)
  <2>1. E[k] \in ToSet(E)
    BY <1>3 DEF ToSet
  <2>2. E[k] \in Listed(d)
    BY <2>1 DEF Listed
  <2> QED
    BY <1>3, <2>2 DEF Owned
<1>6. ASSUME NEW c \in Owned(d), RowMajor(c, Dims[d]) \in ToSet(E)
      PROVE  \E k \in 1 .. Len(E) : C[k] = c
  <2>1. PICK k \in 1 .. Len(E) : E[k] = RowMajor(c, Dims[d])
    BY <1>3, <1>6 DEF ToSet
  <2>2. c \in Index(Dims[d])
    BY DEF Owned
  <2>3. C[k] = c
    BY <1>1, <1>3, <2>1, <2>2, PlaceIsCoord
  <2> QED
    BY <2>3
<1> QED
  BY <1>3, <1>4, <1>5, <1>6

-----------------------------------------------------------------------------
(* Positions: data laid out one after the other.                           *)

\* Where the data of member x of S begins, if f[y] is the length of each y.
Position(f, S, x) == SumOn(f, {y \in S : y < x})

LEMMA Positions ==
  ASSUME NEW S, S \subseteq Nat, IsFiniteSet(S), NEW f, \A x \in S : f[x] \in Nat
  PROVE  /\ \A x \in S : Position(f, S, x) \in Nat
         /\ \A x, y \in S : \A i \in 0 .. f[x] - 1, j \in 0 .. f[y] - 1 :
              Position(f, S, x) + i = Position(f, S, y) + j => x = y /\ i = j
<1> DEFINE B(x) == {y \in S : y < x}
<1>1. \A x \in S : B(x) \in SUBSET S /\ x \in Nat
  OBVIOUS
<1>2. \A x \in S : /\ IsFiniteSet(B(x)) /\ IsFiniteSet({x}) /\ \A y \in B(x) : f[y] \in Nat
  BY <1>1, FS_Subset, FS_Singleton
<1>3. \A x \in S : Position(f, S, x) = SumOn(f, B(x)) /\ Position(f, S, x) \in Nat
  <2> TAKE x \in S
  <2>1. Position(f, S, x) = SumOn(f, B(x))
    BY DEF Position
  <2> HIDE DEF B
  <2> QED
    BY <1>2, <2>1, UnderFinite
<1>4. ASSUME NEW x \in S, NEW y \in S, x < y
      PROVE  Position(f, S, x) + f[x] <= Position(f, S, y)
  <2>1. B(x) \cap {x} = {}
    BY <1>1
  <2>2. \A z \in S : z < x => z < y
    BY <1>1, <1>4
  <2>3. B(x) \cup {x} \subseteq B(y)
    BY <1>4, <2>2
  <2> HIDE DEF B
  <2>4. SumOn(f, B(x) \cup {x}) = SumOn(f, B(x)) + SumOn(f, {x})
    <3>1. \A z \in B(x) \cup {x} : f[z] \in Nat
      BY <1>2
    <3> QED
      BY <1>2, <2>1, <3>1, SumSplits
  <2>5. SumOn(f, B(x) \cup {x}) <= SumOn(f, B(y))
    BY <1>2, <2>3, SumGrows
  <2>6. SumOn(f, {x}) = f[x]
    BY SumOfOne
  <2> QED
    BY <1>3, <2>4, <2>5, <2>6
<1>5. ASSUME NEW x \in S, NEW y \in S, NEW i \in 0 .. f[x] - 1, NEW j \in 0 .. f[y] - 1,
             Position(f, S, x) + i = Position(f, S, y) + j
      PROVE  x = y /\ i = j
  <2>1. Position(f, S, x) \in Nat /\ Position(f, S, y) \in Nat /\ f[x] \in Nat /\ f[y] \in Nat
    BY <1>3
  <2>2. x < y => Position(f, S, x) + f[x] <= Position(f, S, y)
    BY <1>4
  <2>3. y < x => Position(f, S, y) + f[y] <= Position(f, S, x)
    BY <1>4
  <2>4. ~(x < y) /\ ~(y < x)
    BY <1>5, <2>1, <2>2, <2>3
  <2>5. x = y
    BY <1>1, <2>4
  <2> QED
    BY <1>5, <2>1, <2>5
<1> QED
  BY <1>3, <1>5

\* What is stored, if no place is given two values.
LEMMA PutAt ==
  ASSUME NEW Q, \A q, w \in Q : q[1] = w[1] => q[2] = w[2], NEW q \in Q
  PROVE  q[1] \in DOMAIN Put(Q) /\ Put(Q)[q[1]] = q[2]
<1> DEFINE x == CHOOSE w \in Q : w[1] = q[1]
<1>1. x \in Q /\ x[1] = q[1]
  OBVIOUS
<1>2. q[1] \in {w[1] : w \in Q}
  OBVIOUS
<1>3. q[1] \in DOMAIN Put(Q) /\ Put(Q)[q[1]] = x[2]
  BY <1>2 DEF Put
<1> QED
  BY <1>1, <1>3

LEMMA PutFrom ==
  ASSUME NEW Q, NEW c \in DOMAIN Put(Q)
  PROVE  \E q \in Q : q[1] = c
  BY DEF Put

\* The same, if it is a whole file W.
LEMMA PutIs ==
  ASSUME NEW Q, NEW W, W = [c \in DOMAIN W |-> W[c]],
         \A q \in Q : q[1] \in DOMAIN W /\ q[2] = W[q[1]],
         \A c \in DOMAIN W : \E q \in Q : q[1] = c
  PROVE  Put(Q) = W
<1>1. \A q, w \in Q : q[1] = w[1] => q[2] = w[2]
  OBVIOUS
<1>2. \A c \in DOMAIN W : c \in DOMAIN Put(Q) /\ Put(Q)[c] = W[c]
  <2> TAKE c \in DOMAIN W
  <2>1. PICK q \in Q : q[1] = c
    OBVIOUS
  <2> QED
    BY <1>1, <2>1, PutAt
<1>3. DOMAIN Put(Q) = DOMAIN W
  <2>1. \A c \in DOMAIN Put(Q) : c \in DOMAIN W
    <3> TAKE c \in DOMAIN Put(Q)
    <3>1. PICK q \in Q : q[1] = c
      BY PutFrom
    <3> QED
      BY <3>1
  <2>2. \A c \in DOMAIN W : c \in DOMAIN Put(Q)
    BY <1>2
  <2> QED
    BY ONLY <2>1, <2>2
<1>4. Put(Q) = [c \in DOMAIN Put(Q) |-> Put(Q)[c]]
  BY DEF Put
<1> QED
  BY <1>2, <1>3, <1>4

-----------------------------------------------------------------------------
(* What the writing ranks store.                                           *)

Flushed == {r \in Rank : pc[r] \in {"flushed", "closed"}}

\* The blob of rank q on node S of variable v.
HoldsVar(data, S, q, v) ==
  \A k \in RecordsOf(v) :
    IF Vars[v].decomp = 0 THEN data[<<v, k, <<>> >>] = <<v, k, 0>>
    ELSE \A i \in 1 .. CountOf(Vars[v].decomp, q) :
           data[<<v, k, Exscan(Vars[v].decomp, S, q) + i - 1>>]
             = <<v, k, Elements(Reqs[Vars[v].decomp][q])[i]>>

\* What the subfile f has of rank q: its header and the rank's blobs.
HoldsBlob(f, q) ==
  LET S == OnNode(place, q)
      h == f.header
  IN  /\ h.dims = SubfileDims /\ h.nblobs = Cardinality(S)
      /\ h.nprocs = N /\ h.nsubfiles = Cardinality(Roots(place))
      /\ \A d \in Decomp : /\ h.start[d][SubRank(place, q)] = Exscan(d, S, q)
                           /\ h.count[d][SubRank(place, q)] = CountOf(d, q)
                           /\ h.pairs[d][SubRank(place, q)] = Reqs[d][q]
      /\ \A v \in DOMAIN Vars : HoldsVar(f.data, S, q, v)

Stores ==
  /\ DOMAIN posted = Rank
  /\ \A r \in Rank : pc[r] = "wait" => posted[r] = {v \in DOMAIN Vars : Posts(v, r)}
  /\ layout = "blob" =>
       /\ DOMAIN subfile = {NodeID(place, r) : r \in Flushed}
       /\ \A r \in Flushed : HoldsBlob(subfile[NodeID(place, r)], r)
  /\ layout = "canonical" =>
       /\ DOMAIN subfile = {}
       /\ file = IF Flushed = {} THEN <<>> ELSE Want

\* The variables are partitioned by one of the decompositions or by none.
LEMMA VarIs ==
  ASSUME NEW v \in DOMAIN Vars
  PROVE  /\ Vars[v].decomp = 0 \/ Vars[v].decomp \in Decomp
         /\ Vars[v].decomp \in Nat
         /\ Vars[v].decomp > 0 <=> Vars[v].decomp # 0
         /\ v \in Nat /\ Vars[v].rec \in BOOLEAN
         /\ Vars[v].dims \in Seq(DOMAIN DimNames)
         /\ 0 \notin Decomp
<1>1. Decomp = 1 .. Len(Dims) /\ Len(Dims) \in Nat
  BY SubFilesAssumption DEF Decomp
<1> DEFINE R == [rec : BOOLEAN, decomp : {0} \cup Decomp, dims : Seq(DOMAIN DimNames)]
<1>a. Vars \in Seq(R)
  BY SubFilesAssumption
<1>2. Vars[v] \in R /\ v \in Nat
  <2> HIDE DEF R
  <2> QED
    BY <1>a
<1> QED
  BY <1>1, <1>2

LEMMA WantIs ==
  ASSUME NEW v \in DOMAIN Vars, NEW k \in RecordsOf(v)
  PROVE  /\ Vars[v].decomp = 0 => /\ <<v, k, <<>> >> \in DOMAIN Want
                                  /\ Want[<<v, k, <<>> >>] = <<v, k, 0>>
         /\ Vars[v].decomp # 0 =>
              \A r \in Rank : \A i \in 1 .. CountOf(Vars[v].decomp, r) :
                /\ <<v, k, CellsBy(Vars[v].decomp, r)[i]>> \in DOMAIN Want
                /\ Want[<<v, k, CellsBy(Vars[v].decomp, r)[i]>>]
                     = <<v, k, Elements(Reqs[Vars[v].decomp][r])[i]>>
<1>1. CASE Vars[v].decomp = 0
  <2>1. <<v, k, <<>> >> \in CellsOf(v)
    BY <1>1 DEF CellsOf
  <2>2. <<v, k, <<>> >> \in DOMAIN Want
    BY <2>1 DEF Want
  <2> QED
    BY <1>1, <2>2 DEF Want
<1>2. CASE Vars[v].decomp # 0
  <2> DEFINE d == Vars[v].decomp
  <2>1. d \in Decomp
    BY <1>2, VarIs
  <2>2. ASSUME NEW r \in Rank, NEW i \in 1 .. CountOf(d, r)
        PROVE  LET c == <<v, k, CellsBy(d, r)[i]>>
               IN  c \in DOMAIN Want /\ Want[c] = <<v, k, Elements(Reqs[d][r])[i]>>
    <3> DEFINE c == <<v, k, CellsBy(d, r)[i]>>
    <3>1. /\ CellsBy(d, r)[i] \in Owned(d) /\ CellsBy(d, r)[i] # <<>>
          /\ RowMajor(CellsBy(d, r)[i], Dims[d]) = Elements(Reqs[d][r])[i]
      BY <2>1, OwnedCells
    <3>2. c \in CellsOf(v)
      BY <1>2, <3>1 DEF CellsOf
    <3>3. c \in DOMAIN Want
      BY <3>2 DEF Want
    <3>4. c[1] = v /\ c[2] = k /\ c[3] = CellsBy(d, r)[i]
      OBVIOUS
    <3>5. Want[c] = <<v, k, RowMajor(CellsBy(d, r)[i], Dims[d])>>
      BY <3>1, <3>3, <3>4 DEF Want
    <3> QED
      BY <3>1, <3>3, <3>5
  <2> QED
    BY <1>2, <2>2
<1> QED
  BY <1>1, <1>2

\* Every cell of the file is that of some request.
LEMMA WantFrom ==
  ASSUME NEW c \in DOMAIN Want
  PROVE  \E v \in DOMAIN Vars : \E k \in RecordsOf(v) :
           \/ Vars[v].decomp = 0 /\ c = <<v, k, <<>> >>
           \/ /\ Vars[v].decomp # 0
              /\ \E r \in Rank : \E i \in 1 .. CountOf(Vars[v].decomp, r) :
                   c = <<v, k, CellsBy(Vars[v].decomp, r)[i]>>
<1>1. PICK v \in DOMAIN Vars : c \in CellsOf(v)
  BY DEF Want
<1>2. PICK k \in RecordsOf(v), x \in IF Vars[v].decomp = 0 THEN {<<>>} ELSE Owned(Vars[v].decomp) :
        c = <<v, k, x>>
  BY <1>1 DEF CellsOf
<1>3. CASE Vars[v].decomp = 0
  BY <1>2, <1>3
<1>4. CASE Vars[v].decomp # 0
  <2> DEFINE d == Vars[v].decomp
  <2>1. d \in Decomp /\ x \in Owned(d)
    BY <1>2, <1>4, VarIs
  <2>2. PICK r \in Rank : RowMajor(x, Dims[d]) \in ToSet(Elements(Reqs[d][r]))
    BY <2>1 DEF Owned, Listed
  <2>3. PICK i \in 1 .. CountOf(d, r) : CellsBy(d, r)[i] = x
    BY <2>1, <2>2, OwnedCells
  <2> QED
    BY <1>2, <1>4, <2>3
<1> QED
  BY <1>3, <1>4

\* The flush of the canonical file writes all that is wanted.
LEMMA FlushIsWant ==
  ASSUME Metadata, Stores, FlushFile
  PROVE  file' = Want
<1> DEFINE Q == UNION {Data(r) : r \in Rank}
<1>0. /\ layout = "canonical" /\ \A r \in Rank : posted[r] = {v \in DOMAIN Vars : Posts(v, r)}
      /\ file' = Put(Q)
  BY DEF FlushFile, Stores, At
<1>a. 0 \in Rank
  BY Given
<1>1. ASSUME NEW q \in Q PROVE q[1] \in DOMAIN Want /\ q[2] = Want[q[1]]
  <2>1. PICK r \in Rank : q \in Data(r)
    OBVIOUS
  <2>2. PICK v \in posted[r] : \E k \in RecordsOf(v), i \in DOMAIN PlaceOf(v, r) :
          q = << <<v, k, PlaceOf(v, r)[i]>>, <<v, k, ElementsOf(v, r)[i]>> >>
    BY <2>1 DEF Data
  <2>3. PICK k \in RecordsOf(v), i \in DOMAIN PlaceOf(v, r) :
          q = << <<v, k, PlaceOf(v, r)[i]>>, <<v, k, ElementsOf(v, r)[i]>> >>
    BY <2>2
  <2>4. v \in DOMAIN Vars
    BY <1>0
  <2>5. CASE Vars[v].decomp = 0
    <3>1. PlaceOf(v, r) = << <<>> >> /\ ElementsOf(v, r) = <<0>> /\ i = 1
      BY <2>5, <2>3 DEF PlaceOf, ElementsOf
    <3>2. q = << <<v, k, <<>> >>, <<v, k, 0>> >>
      BY <2>3, <3>1
    <3> QED
      BY <2>4, <2>5, <3>2, WantIs
  <2>6. CASE Vars[v].decomp # 0
    <3> DEFINE d == Vars[v].decomp
    <3>1. d \in Decomp
      BY <2>4, <2>6, VarIs
    <3>2. PlaceOf(v, r) = CellsBy(d, r) /\ ElementsOf(v, r) = Elements(Reqs[d][r])
      BY <1>0, <2>6 DEF PlaceOf, ElementsOf, CellsBy
    <3>3. i \in 1 .. CountOf(d, r)
      BY <3>1, <3>2, OwnedCells
    <3>4. q[1] = <<v, k, CellsBy(d, r)[i]>> /\ q[2] = <<v, k, Elements(Reqs[d][r])[i]>>
      BY <2>3, <3>2
    <3>5. /\ <<v, k, CellsBy(d, r)[i]>> \in DOMAIN Want
          /\ Want[<<v, k, CellsBy(d, r)[i]>>] = <<v, k, Elements(Reqs[d][r])[i]>>
      BY <2>4, <2>6, <3>3, WantIs
    <3> QED
      BY ONLY <3>4, <3>5
  <2> QED
    BY <2>5, <2>6
<1>2. ASSUME NEW c \in DOMAIN Want PROVE \E q \in Q : q[1] = c
  <2>0. PICK v \in DOMAIN Vars : \E k \in RecordsOf(v) :
           \/ Vars[v].decomp = 0 /\ c = <<v, k, <<>> >>
           \/ /\ Vars[v].decomp # 0
              /\ \E r \in Rank : \E i \in 1 .. CountOf(Vars[v].decomp, r) :
                   c = <<v, k, CellsBy(Vars[v].decomp, r)[i]>>
    BY WantFrom
  <2>1. PICK k \in RecordsOf(v) :
           \/ Vars[v].decomp = 0 /\ c = <<v, k, <<>> >>
           \/ /\ Vars[v].decomp # 0
              /\ \E r \in Rank : \E i \in 1 .. CountOf(Vars[v].decomp, r) :
                   c = <<v, k, CellsBy(Vars[v].decomp, r)[i]>>
    BY <2>0
  <2>2. CASE Vars[v].decomp = 0
    <3>1. v \in posted[0]
      BY <1>0, <1>a DEF Posts
    <3>2. PlaceOf(v, 0) = << <<>> >>
      BY <2>2 DEF PlaceOf
    <3>3. 1 \in DOMAIN PlaceOf(v, 0) /\ PlaceOf(v, 0)[1] = <<>>
      BY <3>2
    <3> DEFINE q == << <<v, k, PlaceOf(v, 0)[1]>>, <<v, k, ElementsOf(v, 0)[1]>> >>
    <3>4. q \in Data(0)
      BY <3>1, <3>3 DEF Data
    <3>5. q[1] = c
      BY <2>1, <2>2, <3>3
    <3> QED
      BY <1>a, <3>4, <3>5
  <2>3. CASE Vars[v].decomp # 0
    <3> DEFINE d == Vars[v].decomp
    <3>1. d \in Decomp /\ d > 0
      BY <2>3, VarIs
    <3>2. PICK r \in Rank : \E i \in 1 .. CountOf(d, r) : c = <<v, k, CellsBy(d, r)[i]>>
      BY <2>1, <2>3
    <3>3. PICK i \in 1 .. CountOf(d, r) : c = <<v, k, CellsBy(d, r)[i]>>
      BY <3>2
    <3>4. v \in posted[r]
      BY <1>0, <3>1 DEF Posts
    <3>5. PlaceOf(v, r) = CellsBy(d, r)
      BY <1>0, <2>3 DEF PlaceOf, CellsBy
    <3>6. i \in DOMAIN PlaceOf(v, r)
      BY <3>1, <3>5, OwnedCells
    <3> DEFINE q == << <<v, k, PlaceOf(v, r)[i]>>, <<v, k, ElementsOf(v, r)[i]>> >>
    <3>7. q \in Data(r)
      BY <3>4, <3>6 DEF Data
    <3>8. q[1] = c
      BY <3>3, <3>5
    <3> QED
      BY <3>7, <3>8
  <2> QED
    BY <2>1, <2>2, <2>3
<1> HIDE DEF Q
<1>3. Want = [c \in DOMAIN Want |-> Want[c]]
  BY DEF Want
<1> QED
  BY <1>0, <1>1, <1>2, <1>3, PutIs

LEMMA ExscanIs ==
  ASSUME NEW d \in Decomp, NEW S \in SUBSET Rank
  PROVE  /\ \A r \in S : /\ Exscan(d, S, r) = Position(CountsOf(d), S, r)
                         /\ Exscan(d, S, r) \in Nat
                         /\ CountOf(d, r) \in Nat
         /\ \A q, r \in S : \A i \in 1 .. CountOf(d, q), j \in 1 .. CountOf(d, r) :
              Exscan(d, S, q) + i - 1 = Exscan(d, S, r) + j - 1 => q = r /\ i = j
<1> DEFINE f == CountsOf(d)
<1>1. S \subseteq Nat /\ IsFiniteSet(S) /\ \A x \in S : f[x] \in Nat /\ f[x] = CountOf(d, x)
  BY Given, Amounts
<1>2. ASSUME NEW r \in S PROVE Exscan(d, S, r) = Position(f, S, r)
  <2>1. {q \in S : q < r} \in SUBSET Rank
    OBVIOUS
  <2> QED
    BY <2>1, Amounts DEF Exscan, Position
<1> HIDE DEF f
<1>3. /\ \A x \in S : Position(f, S, x) \in Nat
      /\ \A x, y \in S : \A i \in 0 .. f[x] - 1, j \in 0 .. f[y] - 1 :
           Position(f, S, x) + i = Position(f, S, y) + j => x = y /\ i = j
  BY <1>1, Positions
<1>4. ASSUME NEW q \in S, NEW r \in S, NEW i \in 1 .. CountOf(d, q), NEW j \in 1 .. CountOf(d, r),
             Exscan(d, S, q) + i - 1 = Exscan(d, S, r) + j - 1
      PROVE  q = r /\ i = j
  <2>1. f[q] = CountOf(d, q) /\ f[r] = CountOf(d, r) /\ f[q] \in Nat /\ f[r] \in Nat
    BY <1>1
  <2>2. i - 1 \in 0 .. f[q] - 1 /\ j - 1 \in 0 .. f[r] - 1
    BY <2>1
  <2>3. Position(f, S, q) + (i - 1) = Position(f, S, r) + (j - 1)
    BY <1>2, <1>3, <1>4
  <2>4. q = r /\ i - 1 = j - 1
    BY <1>3, <2>2, <2>3
  <2> QED
    BY <2>4
<1> QED
  BY <1>1, <1>2, <1>3, <1>4 DEF f

\* What the header of a subfile has of one rank of its node.
LEMMA HeaderIs ==
  ASSUME Metadata, layout = "blob", NEW S \in Nodes, S \subseteq Counted, NEW q \in S
  PROVE  LET h == Header(S)
         IN  /\ h.dims = SubfileDims /\ h.nblobs = Cardinality(S)
             /\ h.nprocs = N /\ h.nsubfiles = Cardinality(Roots(place))
             /\ \A d \in Decomp : /\ h.start[d][SubRank(place, q)] = Exscan(d, S, q)
                                  /\ h.count[d][SubRank(place, q)] = CountOf(d, q)
                                  /\ h.pairs[d][SubRank(place, q)] = Reqs[d][q]
<1> DEFINE Blob   == 0 .. Cardinality(S) - 1
           who(b) == CHOOSE r \in S : RankIn(S, r) = b
           b      == SubRank(place, q)
<1>0. place \in Placements /\ DOMAIN place = Rank /\ IsPlacement(place)
  BY Given DEF Metadata
<1>1. S \subseteq Rank /\ \A r \in S : OnNode(place, r) = S
  BY <1>0, NodeMembers
<1>2. S \subseteq Nat /\ IsFiniteSet(S)
  BY <1>0, <1>1, NodeProperties
<1>3. b \in Blob /\ b = RankIn(S, q) /\ 0 \in Blob
  <2>1. Cardinality(S) \in Nat /\ b \in Blob
    BY <1>0, <1>1, SubRanks
  <2>2. b = RankIn(S, q)
    BY <1>1 DEF SubRank
  <2> QED
    BY <2>1, <2>2
<1>4. who(b) = q
  <2>1. who(b) \in S /\ RankIn(S, who(b)) = RankIn(S, q)
    BY <1>3
  <2> HIDE DEF who, b
  <2> QED
    BY <1>2, <2>1, RanksDiffer
<1>5. who(0) \in S
  <2>1. \E r \in S : RankIn(S, r) = 0
    BY <1>2, <1>3, RanksOnto
  <2> QED
    BY <2>1
<1>6. /\ nsub[who(0)] = Cardinality(Roots(place))
      /\ \A d \in Decomp : start[d][q] = Exscan(d, S, q) /\ count[d][q] = CountOf(d, q)
  <2>1. \A r \in S : r \in Counted /\ r \in Numbered
    BY DEF Counted, Numbered
  <2>2. \A r \in S : nsub[r] = Cardinality(Roots(place))
    BY <2>1 DEF Metadata
  <2>3. \A d \in Decomp : start[d][q] = Exscan(d, OnNode(place, q), q) /\ count[d][q] = CountOf(d, q)
    BY <2>1 DEF Metadata
  <2>4. OnNode(place, q) = S
    BY <1>1
  <2> HIDE DEF who
  <2> QED
    BY <1>5, <2>2, <2>3, <2>4
<1>7. Header(S) =
        [dims |-> SubfileDims, nblobs |-> NBlobs(S), nprocs |-> Cardinality(Rank),
         nsubfiles |-> nsub[who(0)],
         nelems |-> [d \in Decomp |-> nelems[d][who(0)]],
         start |-> [d \in Decomp |-> [x \in Blob |-> start[d][who(x)]]],
         count |-> [d \in Decomp |-> [x \in Blob |-> count[d][who(x)]]],
         pairs |-> [d \in Decomp |-> [x \in Blob |-> Reqs[d][who(x)]]]]
  BY DEF Header
<1>8. \A d \in Decomp : /\ Header(S).start[d][b] = start[d][who(b)]
                        /\ Header(S).count[d][b] = count[d][who(b)]
                        /\ Header(S).pairs[d][b] = Reqs[d][who(b)]
  BY <1>3, <1>7
<1>9. /\ Header(S).dims = SubfileDims /\ Header(S).nblobs = Cardinality(S)
      /\ Header(S).nprocs = N /\ Header(S).nsubfiles = nsub[who(0)]
  BY <1>7 DEF NBlobs, N
<1> HIDE DEF who, b
<1>10. \A d \in Decomp : /\ Header(S).start[d][b] = Exscan(d, S, q)
                         /\ Header(S).count[d][b] = CountOf(d, q)
                         /\ Header(S).pairs[d][b] = Reqs[d][q]
  BY <1>4, <1>6, <1>8
<1> QED
  BY <1>6, <1>9, <1>10 DEF b

StoredBy(T) == Put(UNION {Data(r) : r \in T})

\* What the flush of a subfile stores of one rank of its node.
LEMMA BlobsStored ==
  ASSUME Metadata, Stores, layout = "blob", NEW S \in Nodes, At(S, "wait"), NEW q \in S,
         NEW v \in DOMAIN Vars
  PROVE  HoldsVar(StoredBy(S), S, q, v)
<1> SUFFICES ASSUME NEW k \in RecordsOf(v)
             PROVE  LET data == StoredBy(S)
                    IN  IF Vars[v].decomp = 0 THEN data[<<v, k, <<>> >>] = <<v, k, 0>>
                        ELSE \A i \in 1 .. CountOf(Vars[v].decomp, q) :
                               data[<<v, k, Exscan(Vars[v].decomp, S, q) + i - 1>>]
                                 = <<v, k, Elements(Reqs[Vars[v].decomp][q])[i]>>
  BY DEF HoldsVar
<1> DEFINE Q == UNION {Data(r) : r \in S}
<1>0. place \in Placements /\ DOMAIN place = Rank /\ IsPlacement(place)
  BY Given DEF Metadata
<1>1. S \in SUBSET Rank /\ \A r \in S : OnNode(place, r) = S
  BY <1>0, NodeMembers
<1>2. \A r \in S : r \in Counted /\ posted[r] = {w \in DOMAIN Vars : Posts(w, r)}
  BY <1>1 DEF At, Counted, Stores
<1>3. \A r \in S, d \in Decomp : start[d][r] = Exscan(d, S, r) /\ count[d][r] = CountOf(d, r)
  BY <1>1, <1>2 DEF Metadata
\* The places and the data of a rank.
<1>4. ASSUME NEW r \in S, NEW w \in DOMAIN Vars
      PROVE  /\ Vars[w].decomp = 0 => PlaceOf(w, r) = << <<>> >> /\ ElementsOf(w, r) = <<0>>
             /\ Vars[w].decomp # 0 =>
                  /\ DOMAIN PlaceOf(w, r) = 1 .. CountOf(Vars[w].decomp, r)
                  /\ \A i \in 1 .. CountOf(Vars[w].decomp, r) :
                       PlaceOf(w, r)[i] = Exscan(Vars[w].decomp, S, r) + i - 1
                  /\ ElementsOf(w, r) = Elements(Reqs[Vars[w].decomp][r])
  <2>1. CASE Vars[w].decomp = 0
    BY <2>1 DEF PlaceOf, ElementsOf
  <2>2. CASE Vars[w].decomp # 0
    <3> DEFINE d == Vars[w].decomp
    <3>1. d \in Decomp
      BY <2>2, VarIs
    <3>2. PlaceOf(w, r) = [i \in 1 .. CountOf(d, r) |-> Exscan(d, S, r) + i - 1]
      BY <1>3, <2>2, <3>1 DEF PlaceOf
    <3>3. ElementsOf(w, r) = Elements(Reqs[d][r])
      BY <2>2 DEF ElementsOf
    <3> QED
      BY <2>2, <3>2, <3>3
  <2> QED
    BY <2>1, <2>2
<1>5. ASSUME NEW x \in Q
      PROVE  \E r \in S : \E w \in DOMAIN Vars : \E m \in RecordsOf(w) : \E i \in DOMAIN PlaceOf(w, r) :
               x = << <<w, m, PlaceOf(w, r)[i]>>, <<w, m, ElementsOf(w, r)[i]>> >>
  <2>1. PICK r \in S : x \in Data(r)
    OBVIOUS
  <2>2. PICK w \in posted[r] : \E m \in RecordsOf(w), i \in DOMAIN PlaceOf(w, r) :
          x = << <<w, m, PlaceOf(w, r)[i]>>, <<w, m, ElementsOf(w, r)[i]>> >>
    BY <2>1 DEF Data
  <2>3. w \in DOMAIN Vars
    BY <1>2
  <2> QED
    BY <2>2, <2>3
<1>6. ASSUME NEW x \in Q, NEW y \in Q, x[1] = y[1] PROVE x[2] = y[2]
  <2>1. PICK r \in S : \E w \in DOMAIN Vars : \E m \in RecordsOf(w) : \E i \in DOMAIN PlaceOf(w, r) :
          x = << <<w, m, PlaceOf(w, r)[i]>>, <<w, m, ElementsOf(w, r)[i]>> >>
    BY <1>5
  <2>2. PICK w \in DOMAIN Vars : \E m \in RecordsOf(w) : \E i \in DOMAIN PlaceOf(w, r) :
          x = << <<w, m, PlaceOf(w, r)[i]>>, <<w, m, ElementsOf(w, r)[i]>> >>
    BY <2>1
  <2>3. PICK m \in RecordsOf(w), i \in DOMAIN PlaceOf(w, r) :
          x = << <<w, m, PlaceOf(w, r)[i]>>, <<w, m, ElementsOf(w, r)[i]>> >>
    BY <2>2
  <2>4. PICK t \in S : \E u \in DOMAIN Vars : \E n \in RecordsOf(u) : \E j \in DOMAIN PlaceOf(u, t) :
          y = << <<u, n, PlaceOf(u, t)[j]>>, <<u, n, ElementsOf(u, t)[j]>> >>
    BY <1>5
  <2>5. PICK u \in DOMAIN Vars : \E n \in RecordsOf(u) : \E j \in DOMAIN PlaceOf(u, t) :
          y = << <<u, n, PlaceOf(u, t)[j]>>, <<u, n, ElementsOf(u, t)[j]>> >>
    BY <2>4
  <2>6. PICK n \in RecordsOf(u), j \in DOMAIN PlaceOf(u, t) :
          y = << <<u, n, PlaceOf(u, t)[j]>>, <<u, n, ElementsOf(u, t)[j]>> >>
    BY <2>5
  <2>7. w = u /\ m = n /\ PlaceOf(w, r)[i] = PlaceOf(w, t)[j]
    <3>1. x[1] = <<w, m, PlaceOf(w, r)[i]>> /\ y[1] = <<u, n, PlaceOf(u, t)[j]>>
      BY <2>3, <2>6
    <3>2. <<w, m, PlaceOf(w, r)[i]>> = <<u, n, PlaceOf(u, t)[j]>>
      BY <1>6, <3>1
    <3> QED
      BY <3>2
  <2>8. x[2] = <<w, m, ElementsOf(w, r)[i]>> /\ y[2] = <<w, m, ElementsOf(w, t)[j]>>
    BY <2>3, <2>6, <2>7
  <2>9. j \in DOMAIN PlaceOf(w, t)
    BY <2>6, <2>7
  <2>10. ElementsOf(w, r)[i] = ElementsOf(w, t)[j]
    <3>1. CASE Vars[w].decomp = 0
      <4>1. /\ PlaceOf(w, r) = << <<>> >> /\ PlaceOf(w, t) = << <<>> >>
            /\ ElementsOf(w, r) = <<0>> /\ ElementsOf(w, t) = <<0>>
        BY <1>4, <3>1
      <4>2. i = 1 /\ j = 1
        BY <2>3, <2>9, <4>1
      <4> QED
        BY <4>1, <4>2
    <3>2. CASE Vars[w].decomp # 0
      <4> DEFINE d == Vars[w].decomp
      <4>1. d \in Decomp
        BY <3>2, VarIs
      <4>2. /\ i \in 1 .. CountOf(d, r) /\ j \in 1 .. CountOf(d, t)
            /\ PlaceOf(w, r)[i] = Exscan(d, S, r) + i - 1
            /\ PlaceOf(w, t)[j] = Exscan(d, S, t) + j - 1
        BY <1>4, <2>3, <2>9, <3>2
      <4>3. r = t /\ i = j
        <5>1. Exscan(d, S, r) + i - 1 = Exscan(d, S, t) + j - 1
          BY <2>7, <4>2
        <5>2. i \in 1 .. CountOf(d, r) /\ j \in 1 .. CountOf(d, t)
          BY <4>2
        <5> QED
          BY ONLY <1>1, <4>1, <5>1, <5>2, ExscanIs
      <4> QED
        BY <4>3
    <3> QED
      BY <3>1, <3>2
  <2> QED
    BY <2>8, <2>10
<1>7. ASSUME NEW r \in S, Posts(v, r), NEW i \in DOMAIN PlaceOf(v, r)
      PROVE  Put(Q)[<<v, k, PlaceOf(v, r)[i]>>] = <<v, k, ElementsOf(v, r)[i]>>
  <2> DEFINE x == << <<v, k, PlaceOf(v, r)[i]>>, <<v, k, ElementsOf(v, r)[i]>> >>
  <2>1. v \in posted[r]
    BY <1>2, <1>7
  <2>2. x \in Data(r)
    BY <2>1 DEF Data
  <2>3. x \in Q
    BY <2>2
  <2>4. x[1] = <<v, k, PlaceOf(v, r)[i]>> /\ x[2] = <<v, k, ElementsOf(v, r)[i]>>
    OBVIOUS
  <2> HIDE DEF Q, x
  <2>5. Put(Q)[x[1]] = x[2]
    BY <1>6, <2>3, PutAt
  <2> QED
    BY <2>4, <2>5
<1> HIDE DEF Q
<1>8. CASE Vars[v].decomp = 0
  <2>1. PICK r \in S : SubRank(place, r) = 0
    <3>1. SubRoot(place, q) \in OnNode(place, q) /\ SubRank(place, SubRoot(place, q)) = 0
      BY <1>0, <1>1, RootProperties
    <3> QED
      BY <1>1, <3>1
  <2>2. Posts(v, r)
    BY <2>1 DEF Posts
  <2>3. PlaceOf(v, r) = << <<>> >> /\ ElementsOf(v, r) = <<0>>
    BY <1>4, <1>8
  <2>4. 1 \in DOMAIN PlaceOf(v, r) /\ PlaceOf(v, r)[1] = <<>> /\ ElementsOf(v, r)[1] = 0
    BY <2>3
  <2>5. Put(Q)[<<v, k, <<>> >>] = <<v, k, 0>>
    BY <1>7, <2>2, <2>4
  <2> QED
    BY <1>8, <2>5 DEF Q, StoredBy
<1>9. CASE Vars[v].decomp # 0
  <2> DEFINE d == Vars[v].decomp
  <2>1. Posts(v, q)
    BY <1>9, VarIs DEF Posts
  <2>2. ASSUME NEW i \in 1 .. CountOf(d, q)
        PROVE  Put(Q)[<<v, k, Exscan(d, S, q) + i - 1>>] = <<v, k, Elements(Reqs[d][q])[i]>>
    <3>1. i \in DOMAIN PlaceOf(v, q) /\ PlaceOf(v, q)[i] = Exscan(d, S, q) + i - 1
          /\ ElementsOf(v, q) = Elements(Reqs[d][q])
      BY <1>4, <1>9
    <3>2. Put(Q)[<<v, k, PlaceOf(v, q)[i]>>] = <<v, k, ElementsOf(v, q)[i]>>
      BY <1>7, <2>1, <3>1
    <3> QED
      BY <3>1, <3>2
  <2> QED
    BY <1>9, <2>2 DEF Q, StoredBy
<1> QED
  BY <1>8, <1>9

\* The flush of a subfile leaves there what every rank of its node has.
LEMMA FlushHoldsBlobs ==
  ASSUME Metadata, Stores, NEW S \in Nodes, FlushSubfile(S)
  PROVE  /\ layout = "blob"
         /\ \A q \in S : /\ HoldsBlob(subfile'[NodeID(place, q)], q)
                         /\ DOMAIN subfile' = DOMAIN subfile \cup {NodeID(place, q)}
                         /\ \A n \in DOMAIN subfile : n # NodeID(place, q) => subfile'[n] = subfile[n]
<1>0. place \in Placements /\ DOMAIN place = Rank /\ IsPlacement(place)
  BY Given DEF Metadata
<1>1. S \subseteq Rank /\ \A r \in S : OnNode(place, r) = S
  BY <1>0, NodeMembers
<1>2. layout = "blob" /\ At(S, "wait")
  BY DEF FlushSubfile
<1>3. \A r \in S : r \in Counted /\ r \in Numbered
  BY <1>1, <1>2 DEF At, Counted, Numbered
<1>4. SUFFICES ASSUME NEW q \in S
               PROVE  /\ HoldsBlob(subfile'[NodeID(place, q)], q)
                      /\ DOMAIN subfile' = DOMAIN subfile \cup {NodeID(place, q)}
                      /\ \A n \in DOMAIN subfile : n # NodeID(place, q) => subfile'[n] = subfile[n]
  BY <1>2
<1> DEFINE m == NodeID(place, q)
           names == {id[r] : r \in S}
           new == [n \in names |-> [header |-> Header(S), data |-> StoredBy({x \in S : id[x] = n})]]
<1>5. \A r \in S : id[r] = m
  <2> TAKE r \in S
  <2>1. id[r] = NodeID(place, r)
    BY <1>2, <1>3 DEF Metadata
  <2>2. r \in OnNode(place, q) /\ q \in Rank /\ r \in Rank
    BY <1>0, <1>1
  <2>3. NodeID(place, r) = NodeID(place, q)
    BY <1>0, <2>2, NodeNumbers
  <2> QED
    BY <2>1, <2>3
<1>6. names = {m} /\ {x \in S : id[x] = m} = S
  BY <1>5
<1>7. new[m].header = Header(S) /\ new[m].data = StoredBy(S) /\ DOMAIN new = {m}
  <2>1. m \in names
    BY <1>6
  <2>2. new[m] = [header |-> Header(S), data |-> StoredBy({x \in S : id[x] = m})]
    BY <2>1
  <2> HIDE DEF new, m
  <2>3. new[m].header = Header(S) /\ new[m].data = StoredBy(S)
    BY <1>6, <2>2
  <2> QED
    BY <1>6, <2>3 DEF new
<1>8. subfile' = Over(new, subfile)
  BY DEF FlushSubfile, StoredBy
<1> HIDE DEF m, names, new
<1>9. /\ DOMAIN subfile' = DOMAIN subfile \cup {m}
      /\ subfile'[m] = new[m]
      /\ \A n \in DOMAIN subfile : n # m => subfile'[n] = subfile[n]
  BY <1>7, <1>8 DEF Over
<1>10. HoldsBlob(subfile'[m], q)
  <2> DEFINE f == subfile'[m]
  <2>1. f.header = Header(S) /\ f.data = StoredBy(S)
    BY <1>7, <1>9
  <2>2. OnNode(place, q) = S /\ S \subseteq Counted
    BY <1>1, <1>3
  <2> HIDE DEF f
  <2>3. /\ f.header.dims = SubfileDims /\ f.header.nblobs = Cardinality(S)
        /\ f.header.nprocs = N /\ f.header.nsubfiles = Cardinality(Roots(place))
        /\ \A d \in Decomp : /\ f.header.start[d][SubRank(place, q)] = Exscan(d, S, q)
                             /\ f.header.count[d][SubRank(place, q)] = CountOf(d, q)
                             /\ f.header.pairs[d][SubRank(place, q)] = Reqs[d][q]
    BY <1>2, <2>1, <2>2, HeaderIs
  <2>4. \A v \in DOMAIN Vars : HoldsVar(f.data, S, q, v)
    BY <1>2, <2>1, BlobsStored
  <2>5. HoldsBlob(f, q)
    BY <2>2, <2>3, <2>4 DEF HoldsBlob
  <2> QED
    BY <2>5 DEF f
<1> QED
  BY <1>9, <1>10 DEF m

LEMMA StoresInit == InitWrite => Stores
<1> SUFFICES ASSUME InitWrite PROVE Stores
  OBVIOUS
<1>1. /\ DOMAIN posted = Rank /\ DOMAIN subfile = {} /\ file = <<>>
      /\ \A r \in Rank : pc[r] \in {"split", "calc"}
  BY DEF InitWrite
<1>2. Flushed = {}
  BY <1>1 DEF Flushed
<1> QED
  BY <1>1, <1>2 DEF Stores

LEMMA StoresStep == Metadata /\ Stores /\ NextWrite => Stores'
<1> SUFFICES ASSUME Metadata, Stores, NextWrite PROVE Stores'
  OBVIOUS
<1>0. /\ place \in Placements /\ DOMAIN place = Rank /\ IsPlacement(place)
      /\ layout \in {"canonical", "blob"} /\ 0 \in Rank
  BY Given DEF Metadata
\* Whatever moves ranks that are not flushed.
<1>1. ASSUME UNCHANGED <<layout, place, posted, subfile, file>>,
             \A r \in Rank : pc'[r] = "wait" => pc[r] = "wait",
             Flushed' = Flushed
      PROVE  Stores'
  BY <1>1 DEF Stores, Posts, HoldsBlob
<1>2. ASSUME UNCHANGED <<layout, place, posted, subfile, file>>,
             NEW S, NEW l \in {"bcast", "scan", "post"}, Go(S, l),
             \A r \in S \cap Rank : pc[r] \notin {"flushed", "closed"}
      PROVE  Stores'
  <2>1. \A r \in Rank : pc'[r] = IF r \in S THEN l ELSE pc[r]
    BY <1>2 DEF Go
  <2>2. Flushed' = Flushed /\ \A r \in Rank : pc'[r] = "wait" => pc[r] = "wait"
    BY <1>2, <2>1 DEF Flushed
  <2> QED
    BY <1>1, <1>2, <2>2
<1>3. CASE Split
  BY <1>2, <1>3 DEF Split, At
<1>4. CASE \E S \in Nodes : Bcast(S)
  BY <1>2, <1>4 DEF Bcast, At
<1>5. CASE \E S \in Nodes : Scan(S)
  BY <1>2, <1>5 DEF Scan, At
<1>6. CASE \E r \in Rank : Calc(r)
  BY <1>2, <1>6 DEF Calc
<1>7. CASE \E r \in Rank : Post(r)
  <2>1. PICK x \in Rank : Post(x)
    BY <1>7
  <2>2. /\ UNCHANGED <<layout, place, subfile, file>> /\ pc[x] = "post"
        /\ \A r \in Rank : pc'[r] = IF r = x THEN "wait" ELSE pc[r]
        /\ posted' = [posted EXCEPT ![x] = {v \in DOMAIN Vars : Posts(v, x)}]
    BY <2>1 DEF Post, Go
  <2>3. Flushed' = Flushed
    BY <2>2 DEF Flushed
  <2>4. DOMAIN posted' = Rank
        /\ \A r \in Rank : pc'[r] = "wait" => posted'[r] = {v \in DOMAIN Vars : Posts(v, r)}
    <3>1. DOMAIN posted = Rank /\ \A r \in Rank : pc[r] = "wait" => posted[r] = {v \in DOMAIN Vars : Posts(v, r)}
      BY DEF Stores
    <3>2. posted'[x] = {v \in DOMAIN Vars : Posts(v, x)} /\ \A r \in Rank : r # x => posted'[r] = posted[r]
      BY <2>2, <3>1
    <3> QED
      BY <2>2, <3>1, <3>2
  <2> QED
    BY <2>2, <2>3, <2>4 DEF Stores, Posts, HoldsBlob
<1>8. CASE FlushFile
  <2>1. /\ UNCHANGED <<layout, place, subfile>> /\ layout = "canonical"
        /\ \A r \in Rank : pc'[r] = "flushed"
        /\ DOMAIN posted' = Rank
    BY <1>8 DEF FlushFile, Go
  <2>2. file' = Want
    BY <1>8, FlushIsWant
  <2>3. Flushed' # {}
    BY <1>0, <2>1 DEF Flushed
  <2> QED
    BY <2>1, <2>2, <2>3 DEF Stores
<1>9. CASE \E S \in Nodes : FlushSubfile(S)
  <2>1. PICK S \in Nodes : FlushSubfile(S)
    BY <1>9
  <2>2. S \subseteq Rank /\ S # {} /\ \A r \in S : OnNode(place, r) = S
    BY <1>0, NodeMembers
  <2>3. /\ UNCHANGED <<layout, place, file>> /\ layout = "blob"
        /\ \A r \in S : pc[r] = "wait"
        /\ \A r \in Rank : pc'[r] = IF r \in S THEN "flushed" ELSE pc[r]
        /\ posted' = [r \in Rank |-> IF r \in S THEN {} ELSE posted[r]]
    BY <2>1 DEF FlushSubfile, Go, At
  <2>4. Flushed' = Flushed \cup S
    BY <2>2, <2>3 DEF Flushed
  <2>5. PICK x \in S : TRUE
    BY <2>2
  <2> DEFINE m == NodeID(place, x)
  <2>6. \A r \in Rank : NodeID(place, r) = m <=> r \in S
    BY <1>0, <2>2, <2>5, NodeNumbers
  <2>7. /\ \A r \in S : HoldsBlob(subfile'[m], r)
        /\ DOMAIN subfile' = DOMAIN subfile \cup {m}
        /\ \A n \in DOMAIN subfile : n # m => subfile'[n] = subfile[n]
    <3>1. \A r \in S : r \in Rank /\ NodeID(place, r) = m
      BY <2>2, <2>6
    <3> HIDE DEF m
    <3> QED
      BY <2>1, <2>5, <3>1, FlushHoldsBlobs
  <2> HIDE DEF m
  <2>8. DOMAIN subfile' = {NodeID(place, r) : r \in Flushed'}
    <3>1. DOMAIN subfile = {NodeID(place, r) : r \in Flushed} /\ Flushed \subseteq Rank
      BY <2>3 DEF Stores, Flushed
    <3>2. {NodeID(place, r) : r \in Flushed'} = {NodeID(place, r) : r \in Flushed} \cup {m}
      BY <2>2, <2>4, <2>5, <2>6
    <3> QED
      BY <2>7, <3>1, <3>2
  <2>9. ASSUME NEW r \in Flushed' PROVE HoldsBlob(subfile'[NodeID(place, r)], r)
    <3>1. CASE r \in S
      BY <2>2, <2>6, <2>7, <3>1
    <3>2. CASE r \notin S
      <4>1. r \in Flushed /\ r \in Rank
        BY <2>4, <3>2 DEF Flushed
      <4>2. HoldsBlob(subfile[NodeID(place, r)], r) /\ NodeID(place, r) \in DOMAIN subfile
        BY <2>3, <4>1 DEF Stores
      <4>3. NodeID(place, r) # m
        BY <2>6, <3>2, <4>1
      <4> QED
        BY <2>7, <4>2, <4>3
    <3> QED
      BY <3>1, <3>2
  <2>10. \A r \in Rank : pc'[r] = "wait" => pc[r] = "wait" /\ posted'[r] = posted[r]
    BY <2>3
  <2> QED
    BY <2>3, <2>8, <2>9, <2>10 DEF Stores, Posts, HoldsBlob
<1>10. CASE \E S \in IF layout = "blob" THEN Nodes ELSE {Rank} : Close(S)
  <2>1. PICK S \in IF layout = "blob" THEN Nodes ELSE {Rank} : Close(S)
    BY <1>10
  <2>2. /\ UNCHANGED <<layout, place, posted, subfile, file>>
        /\ \A r \in S : pc[r] = "flushed"
        /\ \A r \in Rank : pc'[r] = IF r \in S THEN "closed" ELSE pc[r]
    BY <2>1 DEF Close, At, Go
  <2>3. Flushed' = Flushed /\ \A r \in Rank : pc'[r] = "wait" => pc[r] = "wait"
    BY <2>2 DEF Flushed
  <2> QED
    BY <1>1, <2>2, <2>3
<1> QED
  BY <1>3, <1>4, <1>5, <1>6, <1>7, <1>8, <1>9, <1>10 DEF NextWrite

-----------------------------------------------------------------------------
(* The processes of the replay and the ranks whose blobs they take.        *)

\* Process p of placement x takes the blob of rank q of placement w.
Match(w, x, p, q) == NodeID(w, q) = NodeID(x, p) /\ SubRank(w, q) = SubRank(x, p)
Partner(w, x, p)  == CHOOSE q \in DOMAIN w : Match(w, x, p, q)

\* When all ranks are done every node has its subfile.
LEMMA AllStored ==
  ASSUME Metadata, Stores, layout = "blob", Written
  PROVE  /\ DOMAIN subfile = {NodeID(place, r) : r \in Rank}
         /\ \A r \in Rank : HoldsBlob(subfile[NodeID(place, r)], r)
<1>1. Flushed = Rank
  BY DEF Flushed, Written, At
<1> QED
  BY <1>1 DEF Stores

LEMMA WriteOver == Metadata /\ Written => ~NextWrite
<1> SUFFICES ASSUME Metadata, Written, NextWrite PROVE FALSE
  OBVIOUS
<1>0. place \in Placements /\ 0 \in Rank /\ \A r \in Rank : pc[r] = "closed"
  BY Given DEF Metadata, Written, At
<1>1. \A S \in Nodes : \E r \in S : r \in Rank /\ pc[r] = "closed"
  <2> TAKE S \in Nodes
  <2>1. S \subseteq Rank /\ S # {}
    BY <1>0, NodeMembers
  <2> QED
    BY <1>0, <2>1
<1>2. ~Split /\ ~FlushFile
  BY <1>0 DEF Split, FlushFile, At
<1>3. \A S \in Nodes : ~Bcast(S) /\ ~Scan(S) /\ ~FlushSubfile(S)
  BY <1>1 DEF Bcast, Scan, FlushSubfile, At
<1>4. \A S \in IF layout = "blob" THEN Nodes ELSE {Rank} : ~Close(S)
  BY <1>0, <1>1 DEF Close, At
<1>5. \A r \in Rank : ~Calc(r) /\ ~Post(r)
  BY <1>0 DEF Calc, Post
<1> QED
  BY <1>2, <1>3, <1>4, <1>5 DEF NextWrite

\* A process finds its rank if there is a blob with its number.
LEMMA PartnerIs ==
  ASSUME Metadata, Stores, layout = "blob", Written, rplace \in Replays, NEW p \in P,
         NodeID(rplace, p) \in DOMAIN subfile,
         SubRank(rplace, p) < subfile[NodeID(rplace, p)].header.nblobs
  PROVE  \E q \in DOMAIN place : Match(place, rplace, p, q)
<1>0. /\ place \in Placements /\ DOMAIN place = Rank /\ IsPlacement(place)
      /\ IsPlacement(rplace) /\ p \in DOMAIN rplace
  BY Given DEF Metadata, P
<1>1. PICK r \in Rank : NodeID(place, r) = NodeID(rplace, p)
  BY AllStored
<1>2. subfile[NodeID(rplace, p)].header.nblobs = Cardinality(OnNode(place, r))
  <2>1. HoldsBlob(subfile[NodeID(place, r)], r)
    BY AllStored
  <2> QED
    BY <1>1, <2>1 DEF HoldsBlob
<1>3. SubRank(rplace, p) \in Nat /\ Cardinality(OnNode(place, r)) \in Nat
  BY <1>0, SubRanks
<1>4. SubRank(rplace, p) \in 0 .. Cardinality(OnNode(place, r)) - 1
  BY <1>2, <1>3
<1>5. PICK q \in OnNode(place, r) : SubRank(place, q) = SubRank(rplace, p)
  BY <1>0, <1>4, SubRanks
<1>6. q \in Rank
  BY <1>0, NodeProperties
<1>7. NodeID(place, q) = NodeID(place, r)
  BY <1>0, <1>6, NodeNumbers
<1> QED
  BY <1>0, <1>1, <1>5, <1>6, <1>7 DEF Match

LEMMA PartnersDiffer ==
  ASSUME NEW w, NEW x, IsPlacement(x), NEW p \in DOMAIN x, NEW o \in DOMAIN x, NEW q,
         Match(w, x, p, q), Match(w, x, o, q)
  PROVE  p = o
<1>1. NodeID(x, p) = NodeID(x, o) /\ SubRank(x, p) = SubRank(x, o)
  BY DEF Match
<1>2. p \in OnNode(x, o)
  BY <1>1, NodeNumbers
<1> QED
  BY <1>1, <1>2, SubRanks

\* As many processes as ranks, each with a rank: every rank has its process.
LEMMA PartnersOnto ==
  ASSUME NEW w, IsPlacement(w), NEW x, IsPlacement(x),
         Cardinality(DOMAIN w) = Cardinality(DOMAIN x),
         \A p \in DOMAIN x : \E q \in DOMAIN w : Match(w, x, p, q),
         NEW r \in DOMAIN w
  PROVE  \E p \in DOMAIN x : Partner(w, x, p) = r
<1> DEFINE f == [p \in DOMAIN x |-> Partner(w, x, p)]
<1>1. \A p \in DOMAIN x : Partner(w, x, p) \in DOMAIN w /\ Match(w, x, p, Partner(w, x, p))
  BY DEF Partner
<1>2. f \in [DOMAIN x -> DOMAIN w]
  BY <1>1
<1>3. \A p, o \in DOMAIN x : f[p] = f[o] => p = o
  <2> SUFFICES ASSUME NEW p \in DOMAIN x, NEW o \in DOMAIN x, f[p] = f[o] PROVE p = o
    OBVIOUS
  <2>1. Match(w, x, p, f[p]) /\ Match(w, x, o, f[p])
    BY <1>1
  <2> HIDE DEF f
  <2> QED
    BY <2>1, PartnersDiffer
<1>4. f \in Injection(DOMAIN x, DOMAIN w)
  BY <1>2, <1>3 DEF Injection, IsInjective
<1>5. IsFiniteSet(DOMAIN x) /\ IsFiniteSet(DOMAIN w)
  BY FS_Interval DEF IsPlacement
<1>6. \A p \in DOMAIN x : f[p] = Partner(w, x, p)
  OBVIOUS
<1> HIDE DEF f
<1>7. f \in Surjection(DOMAIN x, DOMAIN w)
  BY <1>4, <1>5, FS_Injection
<1> QED
  BY <1>6, <1>7 DEF Surjection

-----------------------------------------------------------------------------
(* The control of the replay.                                              *)

Copying == {"read", "wait_in", "write", "wait_out"}
Ending  == {"close", "done"}
Shaped  == Copying \cup Ending
Decoded == {"define"} \cup Shaped
Created == {"decomp", "failed", "blocked"} \cup Decoded
Opened  == {"create"} \cup Created
Phases  == {"split", "bcast", "open", "aborted"} \cup Opened

\* The phases in which processes are, and that those which all processes
\* enter together have all of them or none.
Control ==
  /\ rplace \in Replays
  /\ \A p \in P : rpc[p] \in Phases
  /\ \A p \in P : rpc[p] # "split" => layout = "blob" /\ Written
  /\ \A p, o \in P : /\ rpc[p] \in Created => rpc[o] \in Created
                     /\ rpc[p] \in Ending => rpc[o] \in Ending
  /\ krec \in [P -> -1 .. NRecs - 1]
  /\ \A p, o \in P : krec[p] = krec[o]
  /\ \A p \in P : rpc[p] \in Ending => krec[p] = NRecs - 1

\* The numbers of the subfiles, and the warning.
RNumbers ==
  /\ warned \in BOOLEAN
  /\ \A p \in P : rpc[p] = "bcast" =>
       /\ rnsub[p] = Cardinality(Colour(rplace, p))
       /\ rid[p] = RankIn(Colour(rplace, p), p)
  /\ \A p \in P : rpc[p] \in {"open"} \cup Opened =>
       /\ rnsub[p] = Cardinality(Roots(rplace))
       /\ rid[p] = NodeID(rplace, p)
  /\ \A p \in P : rpc[p] \in Opened => rid[p] \in DOMAIN subfile
  /\ \A p \in P :
       warned <=> /\ rpc[p] \in Created
                  /\ N # Cardinality(P) \/ Cardinality(Roots(place)) # Cardinality(Roots(rplace))

LEMMA ProcessesAre ==
  ASSUME rplace \in Replays
  PROVE  /\ IsPlacement(rplace) /\ DOMAIN rplace = P /\ 0 \in P /\ P \subseteq Nat
         /\ \A S \in NodesOfP : /\ S \subseteq P /\ S # {}
                                /\ \A p \in S : OnNode(rplace, p) = S
<1>1. IsPlacement(rplace) /\ DOMAIN rplace = P
  BY Given DEF P
<1>2. 0 \in P /\ P \subseteq Nat
  BY <1>1 DEF IsPlacement
<1>3. ASSUME NEW S \in NodesOfP
      PROVE  S \subseteq P /\ S # {} /\ \A p \in S : OnNode(rplace, p) = S
  <2>1. PICK x \in P : S = OnNode(rplace, x)
    BY DEF NodesOfP
  <2> QED
    BY <1>1, <2>1, NodeProperties
<1> QED
  BY <1>1, <1>2, <1>3

LEMMA StoresNext ==
  ASSUME Metadata, Stores, Control, [Next]_vars
  PROVE  Stores'
<1>1. CASE NextWrite
  BY <1>1, StoresStep
<1>2. ASSUME UNCHANGED <<layout, place, pc, posted, subfile>>,
             layout = "canonical" => file' = file
      PROVE  Stores'
  BY <1>2 DEF Stores, Flushed, Posts, HoldsBlob, HoldsVar
<1>3. CASE NextReplay
  <2>1. WaitWrites => layout # "canonical"
    <3>1. 0 \in P
      BY ProcessesAre DEF Control
    <3> QED
      BY <3>1 DEF WaitWrites, RAt, Control
  <2> QED
    BY <1>2, <1>3, <2>1, ReplayFrame
<1>4. CASE UNCHANGED vars
  BY <1>2, <1>4 DEF vars, wvars
<1> QED
  BY <1>1, <1>3, <1>4 DEF Next

LEMMA ControlInit == Init => Control /\ RNumbers
<1> SUFFICES ASSUME Init PROVE Control /\ RNumbers
  OBVIOUS
<1>1. /\ rplace \in Replays /\ \A p \in P : rpc[p] = "split"
      /\ krec = [p \in P |-> -1] /\ warned = FALSE
  BY DEF Init, InitReplay
<1>2. /\ "split" \in Phases
      /\ "split" \notin Opened /\ "split" \notin Created /\ "split" \notin Ending
      /\ "split" \notin {"open"} \cup Opened
  BY DEF Phases, Opened, Created, Decoded, Shaped, Copying, Ending
<1>3. NRecs \in Nat
  BY SubFilesAssumption
<1>4. krec \in [P -> -1 .. NRecs - 1] /\ \A p \in P : krec[p] = -1
  BY <1>1, <1>3
<1>5. Control
  BY <1>1, <1>2, <1>4 DEF Control
<1>6. RNumbers
  BY <1>1, <1>2 DEF RNumbers
<1> QED
  BY <1>5, <1>6

\* A step of the writing ranks happens before the replay.
LEMMA WriteFirst ==
  ASSUME Metadata, Control, NextWrite, UNCHANGED rvars
  PROVE  /\ \A p \in P : rpc[p] = "split"
         /\ UNCHANGED <<place, layout>>
<1>1. ~Written
  BY WriteOver
<1>2. UNCHANGED <<place, layout>>
  BY DEF NextWrite, Split, Bcast, Scan, Calc, Post, FlushFile, FlushSubfile, Close
<1> QED
  BY <1>1, <1>2 DEF Control

LEMMA PhasesAre ==
  /\ \A l \in {"split", "bcast", "open", "aborted", "create"} :
       l \in Phases /\ l \notin Created /\ l \notin Ending
  /\ \A l \in {"decomp", "failed", "blocked", "define", "read", "wait_in", "write", "wait_out"} :
       l \in Phases /\ l \in Created /\ l \notin Ending /\ l # "split"
  /\ \A l \in {"close", "done"} : l \in Phases /\ l \in Created /\ l \in Ending /\ l # "split"
  BY DEF Phases, Opened, Created, Decoded, Shaped, Copying, Ending

LEMMA ControlStep ==
  ASSUME Metadata, Control, NextReplay
  PROVE  Control'
<1>0. /\ 0 \in P /\ P' = P /\ NRecs \in Nat
      /\ UNCHANGED <<rplace, place, layout>> /\ Written' = Written
      /\ \A S \in NodesOfP : S \subseteq P /\ S # {}
  BY ProcessesAre, ReplayFrame, SubFilesAssumption DEF P, Written, At, Control
<1>1. ASSUME layout = "blob", Written, UNCHANGED krec,
             \A p \in P : /\ rpc'[p] \in Phases
                          /\ rpc'[p] \in Created <=> rpc[p] \in Created
                          /\ rpc'[p] \in Ending <=> rpc[p] \in Ending
      PROVE  Control'
  BY <1>0, <1>1 DEF Control
\* Some processes go from one phase to another that is entered alike.
<1>2. ASSUME NEW S, S # {}, S \subseteq P, UNCHANGED krec,
             NEW l, RAt(S, l), l # "split" \/ (layout = "blob" /\ Written),
             \A p \in P : p \notin S => rpc'[p] = rpc[p],
             \A p \in S : /\ rpc'[p] \in Phases
                          /\ rpc'[p] \in Created <=> l \in Created
                          /\ rpc'[p] \in Ending <=> l \in Ending
      PROVE  Control'
  <2>1. PICK x \in S : x \in P /\ rpc[x] = l
    BY <1>2 DEF RAt
  <2>2. layout = "blob" /\ Written
    BY <1>2, <2>1 DEF Control
  <2>3. \A p \in P : /\ rpc'[p] \in Phases
                     /\ rpc'[p] \in Created <=> rpc[p] \in Created
                     /\ rpc'[p] \in Ending <=> rpc[p] \in Ending
    BY <1>2 DEF RAt, Control
  <2> QED
    BY <1>1, <1>2, <2>2, <2>3
<1>3. CASE RSplit
  BY <1>0, <1>2, PhasesAre, <1>3 DEF RSplit, RGo
<1>4. CASE \E S \in NodesOfP : RBcast(S)
  BY <1>0, <1>2, PhasesAre, <1>4 DEF RBcast, RGo
<1>5. CASE \E S \in NodesOfP : ROpen(S)
  <2>1. PICK S \in NodesOfP : ROpen(S)
    BY <1>5
  <2>2. PICK x \in S : x \in P /\ rpc[x] = "open"
    BY <1>0, <2>1 DEF ROpen, RAt
  <2>3. "open" \notin Created /\ "open" \notin Ending /\ "aborted" \in Phases /\ "create" \in Phases
        /\ "aborted" \notin Created /\ "aborted" \notin Ending
        /\ "create" \notin Created /\ "create" \notin Ending
    BY PhasesAre
  <2>4. UNCHANGED krec /\ layout = "blob" /\ Written
    BY <2>1, <2>2 DEF ROpen, Control
  <2>5. CASE RGo(S, "create")
    BY <1>0, <1>2, <2>1, <2>3, <2>4, <2>5 DEF ROpen, RGo
  <2>6. CASE RGo(P, "aborted")
    <3>1. \A p \in P : rpc[p] \notin Created /\ rpc[p] \notin Ending
      BY <2>2, <2>3 DEF Control
    <3>2. \A p \in P : rpc'[p] = "aborted"
      BY <2>6 DEF RGo
    <3> QED
      BY <1>1, <2>3, <2>4, <3>1, <3>2
  <2> QED
    BY <2>1, <2>5, <2>6 DEF ROpen
<1>6. CASE RCreate
  <2>1. /\ rpc[0] = "create" /\ UNCHANGED krec
        /\ \A p \in P : rpc'[p] = "decomp"
    BY <1>0, <1>6 DEF RCreate, RGo, RAt
  <2>2. "decomp" \in Phases /\ "decomp" \in Created /\ "decomp" \notin Ending
    BY PhasesAre
  <2> QED
    BY <1>0, <2>1, <2>2 DEF Control
<1>7. CASE \E S \in NodesOfP : ReadDecomp(S)
  <2>1. PICK S \in NodesOfP : ReadDecomp(S)
    BY <1>7
  <2>2. /\ RAt(S, "decomp") /\ UNCHANGED krec
        /\ \A p \in P : p \notin S => rpc'[p] = rpc[p]
        /\ \A p \in S : rpc'[p] \in {"define", "failed", "blocked"}
    BY <1>0, <2>1 DEF ReadDecomp
  <2>3. /\ "decomp" \in Created /\ "decomp" \notin Ending
        /\ \A l \in {"define", "failed", "blocked"} : l \in Phases /\ l \in Created /\ l \notin Ending
    BY PhasesAre
  <2> QED
    BY <1>0, <1>2, <2>2, <2>3
<1>8. CASE RDefine
  BY <1>0, <1>2, PhasesAre, <1>8 DEF RDefine, RGo
<1>9. ASSUME NEW p \in P, NEW l \in Copying, NEW m \in Copying, rpc[p] = l, RGo({p}, m), UNCHANGED krec
      PROVE  Control'
  <2>1. \A x \in Copying : x \in Phases /\ x \in Created /\ x \notin Ending /\ x # "split"
    BY PhasesAre DEF Copying
  <2>2. RAt({p}, l) /\ {p} \subseteq P /\ {p} # {}
    BY <1>9 DEF RAt
  <2>3. /\ \A o \in P : o \notin {p} => rpc'[o] = rpc[o]
        /\ \A o \in {p} : rpc'[o] = m
    BY <1>9 DEF RGo
  <2> QED
    BY <1>2, <1>9, <2>1, <2>2, <2>3
<1>10. CASE \E p \in P : PostReads(p)
  BY <1>9, PhasesAre, <1>10 DEF PostReads, Copying
<1>11. CASE \E S \in NodesOfP : WaitReads(S)
  BY <1>0, <1>2, PhasesAre, <1>11 DEF WaitReads, RGo
<1>12. CASE \E p \in P : PostWrites(p)
  BY <1>9, PhasesAre, <1>12 DEF PostWrites, Copying
<1>13. CASE WaitWrites
  <2>1. /\ rpc[0] = "wait_out" /\ \A p \in P : krec[p] = krec[0] /\ krec[0] \in -1 .. NRecs - 1
        /\ krec' = [p \in P |-> IF krec[p] = NRecs - 1 THEN krec[p] ELSE krec[p] + 1]
        /\ \A p \in P : rpc'[p] = IF krec[0] = NRecs - 1 THEN "close" ELSE "read"
    BY <1>0, <1>13 DEF WaitWrites, RGo, RAt, Control
  <2>2. /\ "close" \in Phases /\ "close" \in Created /\ "close" \in Ending
        /\ "read" \in Phases /\ "read" \in Created /\ "read" \notin Ending
    BY PhasesAre
  <2>3. /\ krec' \in [P -> -1 .. NRecs - 1] /\ \A p, o \in P : krec'[p] = krec'[o]
        /\ krec[0] = NRecs - 1 => \A p \in P : krec'[p] = NRecs - 1
    BY <1>0, <2>1
  <2>4. layout = "blob" /\ Written
    BY <1>0, <2>1 DEF Control
  <2>5. \A p \in P : /\ rpc'[p] \in Phases /\ rpc'[p] \in Created
                     /\ rpc'[p] \in Ending <=> krec[0] = NRecs - 1
    BY <2>1, <2>2
  <2> QED
    BY <1>0, <2>3, <2>4, <2>5 DEF Control
<1>14. CASE RClose
  BY <1>0, <1>2, PhasesAre, <1>14 DEF RClose, RGo
<1> QED
  BY <1>3, <1>4, <1>5, <1>6, <1>7, <1>8, <1>10, <1>11, <1>12, <1>13, <1>14 DEF NextReplay

LEMMA NumbersStep ==
  ASSUME Metadata, Stores, Control, RNumbers, NextReplay
  PROVE  RNumbers'
<1>0. /\ 0 \in P /\ P' = P /\ IsPlacement(rplace) /\ DOMAIN rplace = P
      /\ UNCHANGED <<rplace, place, subfile>>
      /\ \A S \in NodesOfP : S \subseteq P /\ S # {} /\ \A p \in S : OnNode(rplace, p) = S
  BY ProcessesAre, ReplayFrame DEF P, Control
<1>1. Opened = {"create"} \cup Created
  BY DEF Opened
\* What changes no number and does not create the file.
<1>2. ASSUME UNCHANGED <<rid, rnsub, warned>>,
             \A p \in P : rpc'[p] = rpc[p] \/ (rpc[p] \in Created /\ rpc'[p] \in Created)
      PROVE  RNumbers'
  <2>1. \A p \in P : /\ rpc'[p] \in Created <=> rpc[p] \in Created
                     /\ rpc'[p] \in Opened <=> rpc[p] \in Opened
                     /\ rpc'[p] \in {"open"} \cup Opened <=> rpc[p] \in {"open"} \cup Opened
                     /\ rpc'[p] = "bcast" => rpc[p] = "bcast"
    BY <1>1, <1>2, PhasesAre
  <2> QED
    BY <1>0, <1>2, <2>1 DEF RNumbers
<1>3. CASE RSplit
  <2>1. /\ \A p \in P : /\ rpc[p] = "split" /\ rpc'[p] = "bcast"
                        /\ rnsub'[p] = Cardinality(Colour(rplace, p))
                        /\ rid'[p] = RankIn(Colour(rplace, p), p)
        /\ UNCHANGED warned
    BY <1>3 DEF RSplit, RAt, RGo
  <2>2. /\ "split" \notin Created /\ "bcast" \notin Created
        /\ "bcast" \notin Opened /\ "bcast" \notin {"open"} \cup Opened
    BY <1>1, PhasesAre DEF Control
  <2> QED
    BY <1>0, <2>1, <2>2 DEF RNumbers
<1>4. CASE \E S \in NodesOfP : RBcast(S)
  <2>1. PICK S \in NodesOfP : RBcast(S)
    BY <1>4
  <2>2. /\ \A p \in S : rpc[p] = "bcast" /\ p \in P /\ OnNode(rplace, p) = S
        /\ \A p \in P : /\ rpc'[p] = IF p \in S THEN "open" ELSE rpc[p]
                        /\ rnsub'[p] = IF p \in S THEN FromRoot(rnsub, rplace)[p] ELSE rnsub[p]
                        /\ rid'[p] = IF p \in S THEN FromRoot(rid, rplace)[p] ELSE rid[p]
        /\ UNCHANGED warned
    BY <1>0, <2>1 DEF RBcast, RAt, RGo
  <2>3. ASSUME NEW p \in S
        PROVE  rnsub'[p] = Cardinality(Roots(rplace)) /\ rid'[p] = NodeID(rplace, p)
    <3>1. SubRoot(rplace, p) \in S
      BY <1>0, <2>2, RootProperties
    <3>2. /\ rnsub[SubRoot(rplace, p)] = Cardinality(Colour(rplace, SubRoot(rplace, p)))
          /\ rid[SubRoot(rplace, p)] = RankIn(Colour(rplace, SubRoot(rplace, p)), SubRoot(rplace, p))
      BY <2>2, <3>1 DEF RNumbers
    <3>3. /\ Colour(rplace, SubRoot(rplace, p)) = Roots(rplace)
          /\ RankIn(Colour(rplace, SubRoot(rplace, p)), SubRoot(rplace, p)) = NodeID(rplace, p)
      BY <1>0, <2>2, RootColour
    <3>4. rnsub'[p] = rnsub[SubRoot(rplace, p)] /\ rid'[p] = rid[SubRoot(rplace, p)]
      BY <1>0, <2>2 DEF FromRoot
    <3> QED
      BY <3>2, <3>3, <3>4
  <2>4. \A p \in P : /\ rpc'[p] \in Created <=> rpc[p] \in Created
                     /\ rpc'[p] \in Opened <=> rpc[p] \in Opened /\ p \notin S
                     /\ rpc'[p] \in {"open"} \cup Opened => p \in S \/ rpc[p] \in {"open"} \cup Opened
                     /\ rpc'[p] = "bcast" => rpc[p] = "bcast" /\ p \notin S
                     /\ p \notin S => rnsub'[p] = rnsub[p] /\ rid'[p] = rid[p]
    BY <1>1, <2>2, PhasesAre
  <2> QED
    BY <1>0, <2>2, <2>3, <2>4 DEF RNumbers
<1>5. CASE \E S \in NodesOfP : ROpen(S)
  <2>1. PICK S \in NodesOfP : ROpen(S)
    BY <1>5
  <2>2. /\ \A p \in S : rpc[p] = "open" /\ p \in P
        /\ UNCHANGED <<rid, rnsub, warned>>
        /\ \/ /\ \A p \in S : rid[p] \in DOMAIN subfile
              /\ \A p \in P : rpc'[p] = IF p \in S THEN "create" ELSE rpc[p]
           \/ \A p \in P : rpc'[p] = "aborted"
    BY <1>0, <2>1 DEF ROpen, RAt, RGo
  <2>3. \A p \in P : rpc[p] \notin Created
    BY <1>0, <2>2, PhasesAre DEF Control
  <2>4. \A p \in P : /\ rpc'[p] \notin Created
                     /\ rpc'[p] \in Opened => rid[p] \in DOMAIN subfile
                     /\ rpc'[p] \in {"open"} \cup Opened => rpc[p] \in {"open"} \cup Opened
                     /\ rpc'[p] = "bcast" => rpc[p] = "bcast"
    BY <1>1, <2>2, <2>3, PhasesAre DEF RNumbers
  <2> QED
    BY <1>0, <2>2, <2>3, <2>4 DEF RNumbers
<1>6. CASE RCreate
  <2>1. /\ \A p \in P : rpc[p] = "create" /\ rpc'[p] = "decomp"
        /\ UNCHANGED <<rid, rnsub>>
        /\ warned' = WarnOf(subfile[rid[0]].header)
    BY <1>6 DEF RCreate, RAt, RGo
  <2>2. \A p \in P : rpc[p] \in Opened /\ rpc'[p] \in Created /\ rpc'[p] # "bcast"
    BY <1>1, <2>1, PhasesAre
  <2>3. layout = "blob" /\ Written /\ rid[0] \in DOMAIN subfile /\ rnsub[0] = Cardinality(Roots(rplace))
    BY <1>0, <2>1, <2>2 DEF Control, RNumbers
  <2>4. PICK r \in Rank : NodeID(place, r) = rid[0]
    BY <2>3, AllStored
  <2>5. /\ subfile[rid[0]].header.nprocs = N
        /\ subfile[rid[0]].header.nsubfiles = Cardinality(Roots(place))
    BY <2>3, <2>4, AllStored DEF HoldsBlob
  <2>6. warned' <=> N # Cardinality(P) \/ Cardinality(Roots(place)) # Cardinality(Roots(rplace))
    BY <2>1, <2>3, <2>5 DEF WarnOf
  <2>7. warned' \in BOOLEAN
    BY <2>1 DEF WarnOf
  <2> QED
    BY <1>0, <2>1, <2>2, <2>6, <2>7 DEF RNumbers
<1>7. CASE \/ RDefine \/ WaitWrites \/ RClose \/ \E S \in NodesOfP : ReadDecomp(S) \/ WaitReads(S)
           \/ \E p \in P : PostReads(p) \/ PostWrites(p)
  <2>1. UNCHANGED <<rid, rnsub, warned>>
    BY <1>7 DEF RDefine, WaitWrites, RClose, ReadDecomp, WaitReads, PostReads, PostWrites
  <2>2. CASE RDefine \/ WaitWrites \/ RClose
    <3>1. \A p \in P : /\ rpc[p] \in {"define", "wait_out", "close"}
                       /\ rpc'[p] \in {"read", "close", "done"}
      BY <2>2 DEF RDefine, WaitWrites, RClose, RAt, RGo
    <3> QED
      BY <1>2, <2>1, <3>1, PhasesAre
  <2>3. CASE \E S \in NodesOfP : ReadDecomp(S) \/ WaitReads(S)
    <3>1. PICK S \in NodesOfP : ReadDecomp(S) \/ WaitReads(S)
      BY <2>3
    <3>2. \A p \in P : \/ rpc'[p] = rpc[p]
                       \/ /\ rpc[p] \in {"decomp", "wait_in"}
                          /\ rpc'[p] \in {"define", "failed", "blocked", "write"}
      BY <3>1 DEF ReadDecomp, WaitReads, RAt, RGo
    <3> QED
      BY <1>2, <2>1, <3>2, PhasesAre
  <2>4. CASE \E p \in P : PostReads(p) \/ PostWrites(p)
    <3>1. \A p \in P : \/ rpc'[p] = rpc[p]
                       \/ rpc[p] \in {"read", "write"} /\ rpc'[p] \in {"wait_in", "wait_out"}
      BY <2>4 DEF PostReads, PostWrites, RGo
    <3> QED
      BY <1>2, <2>1, <3>1, PhasesAre
  <2> QED
    BY <1>7, <2>2, <2>3, <2>4
<1> QED
  BY <1>3, <1>4, <1>5, <1>6, <1>7 DEF NextReplay

-----------------------------------------------------------------------------
(* What set_decomp() reads, and the dimensions of the variables.           *)

Source(p) == Partner(place, rplace, p)

\* A process that has read its decompositions has those of a rank.
DecOf(q) ==
  [d \in Decomp |-> [start |-> Exscan(d, OnNode(place, q), q), count |-> CountOf(d, q),
                     pairs |-> Reqs[d][q], starts |-> Starts(Reqs[d][q], Dims[d])]]

Decoding ==
  \A p \in P : rpc[p] \in Decoded => /\ Source(p) \in Rank
                                     /\ Match(place, rplace, p, Source(p))
                                     /\ dec[p] = DecOf(Source(p))

ShapeIs ==
  \A v \in DOMAIN Vars : \A i \in DOMAIN shape[v] : shape[v][i] = CaseDims[Vars[v].dims[i]]
Shapes == \A p \in P : rpc[p] \in Shaped => ShapeIs

\* A replay step enters a phase from the one before.
LEMMA PhaseBefore ==
  ASSUME NextReplay, NEW p \in P, rpc'[p] # rpc[p]
  PROVE  /\ rpc'[p] \in Decoded =>
              \/ rpc[p] \in Decoded
              \/ \E S \in NodesOfP : ReadDecomp(S) /\ p \in S /\ rpc'[p] = "define"
         /\ rpc'[p] \in Shaped => rpc[p] \in Shaped \/ RDefine
<1>1. /\ \A l \in {"bcast", "open", "create", "aborted", "decomp", "failed", "blocked"} :
           l \notin Decoded /\ l \notin Shaped
      /\ \A l \in {"read", "wait_in", "write", "wait_out", "close", "done"} :
           l \in Decoded /\ l \in Shaped
      /\ "define" \in Decoded /\ "define" \notin Shaped
  BY DEF Decoded, Shaped, Copying, Ending
<1>2. CASE RSplit \/ RCreate
  <2>1. rpc'[p] \in {"bcast", "decomp"}
    BY <1>2 DEF RSplit, RCreate, RGo
  <2> QED
    BY <1>1, <2>1
<1>3. CASE RDefine
  BY <1>1, <1>3 DEF RDefine, RAt
<1>4. CASE WaitWrites \/ RClose
  <2>1. rpc[p] \in {"wait_out", "close"}
    BY <1>4 DEF WaitWrites, RClose, RAt
  <2> QED
    BY <1>1, <2>1
<1>5. CASE \E S \in NodesOfP : RBcast(S) \/ ROpen(S)
  <2>1. rpc'[p] \in {"open", "create", "aborted"}
    BY <1>5 DEF RBcast, ROpen, RGo
  <2> QED
    BY <1>1, <2>1
<1>6. CASE \E S \in NodesOfP : ReadDecomp(S)
  <2>1. PICK S \in NodesOfP : ReadDecomp(S)
    BY <1>6
  <2>2. p \in S /\ rpc'[p] \in {"define", "failed", "blocked"}
    BY <2>1 DEF ReadDecomp
  <2> QED
    BY <1>1, <2>1, <2>2
<1>7. CASE \E S \in NodesOfP : WaitReads(S)
  <2>1. rpc[p] = "wait_in"
    BY <1>7 DEF WaitReads, RAt, RGo
  <2> QED
    BY <1>1, <2>1
<1>8. CASE \E o \in P : PostReads(o) \/ PostWrites(o)
  <2>1. rpc[p] \in {"read", "write"}
    BY <1>8 DEF PostReads, PostWrites, RGo
  <2> QED
    BY <1>1, <2>1
<1> QED
  BY <1>2, <1>3, <1>4, <1>5, <1>6, <1>7, <1>8 DEF NextReplay

LEMMA DecodingStep ==
  ASSUME Metadata, Stores, Control, RNumbers, Decoding, NextReplay
  PROVE  Decoding'
<1>0. /\ P' = P /\ IsPlacement(rplace) /\ DOMAIN rplace = P
      /\ UNCHANGED <<rplace, place>>
      /\ \A S \in NodesOfP : S \subseteq P /\ S # {} /\ \A p \in S : OnNode(rplace, p) = S
  BY ProcessesAre, ReplayFrame DEF P, Control
<1>1. \A p \in P : Source(p)' = Source(p)
  BY <1>0 DEF Source
<1>2. \A q \in Rank : DecOf(q)' = DecOf(q)
  BY <1>0 DEF DecOf
<1>3. ASSUME NEW S \in NodesOfP, ReadDecomp(S), NEW p \in S, rpc'[p] = "define"
      PROVE  /\ Source(p) \in Rank
             /\ Match(place, rplace, p, Source(p))
             /\ dec'[p] = DecOf(Source(p))
  <2> DEFINE c == CHOOSE x \in S : TRUE
             h == subfile[rid[c]].header
             b == SubRank(rplace, p)
  <2>0. p \in P /\ c \in S /\ c \in P /\ \A x \in S : rpc[x] = "decomp"
    BY <1>0, <1>3 DEF ReadDecomp, RAt
  <2>1. /\ ~(b >= h.nblobs)
        /\ dec'[p] = [d \in Decomp |-> [start |-> h.start[d][b], count |-> h.count[d][b],
                                        pairs |-> h.pairs[d][b],
                                        starts |-> ReplayStarts(h.pairs[d][b], Dims[d])]]
    BY <1>3, <2>0 DEF ReadDecomp
  <2> HIDE DEF c
  <2>2. rpc[p] \in Opened /\ rpc[c] \in Opened /\ layout = "blob" /\ Written
    BY <2>0, PhasesAre DEF Opened, Control
  <2>3. rid[p] = NodeID(rplace, p) /\ rid[c] = NodeID(rplace, c) /\ rid[c] \in DOMAIN subfile
    BY <2>0, <2>2 DEF RNumbers
  <2>4. rid[c] = NodeID(rplace, p)
    BY <1>0, <2>0, <2>3, NodeNumbers
  <2>5. PICK r \in Rank : NodeID(place, r) = NodeID(rplace, p)
    BY <2>2, <2>3, <2>4, AllStored
  <2>6. h.nblobs = Cardinality(OnNode(place, r))
    BY <2>2, <2>4, <2>5, AllStored DEF HoldsBlob
  <2>7. b \in Nat /\ h.nblobs \in Nat
    <3>1. place \in Placements /\ IsPlacement(place) /\ r \in DOMAIN place
      BY Given DEF Metadata
    <3> QED
      BY <1>0, <2>0, <2>6, <3>1, SubRanks
  <2>8. b < h.nblobs
    BY <2>1, <2>7
  <2>9. Source(p) \in DOMAIN place /\ Match(place, rplace, p, Source(p))
    <3>1. \E q \in DOMAIN place : Match(place, rplace, p, q)
      BY <2>0, <2>2, <2>3, <2>4, <2>8, PartnerIs DEF Control
    <3> QED
      BY <3>1 DEF Source, Partner
  <2>10. Source(p) \in Rank
    BY <2>9, Given DEF Metadata
  <2> DEFINE q == Source(p)
  <2>11. NodeID(place, q) = rid[c] /\ SubRank(place, q) = b
    BY <2>4, <2>9 DEF Match
  <2>12. HoldsBlob(subfile[rid[c]], q)
    BY <2>2, <2>10, <2>11, AllStored
  <2>13. \A d \in Decomp : /\ h.start[d][b] = Exscan(d, OnNode(place, q), q)
                           /\ h.count[d][b] = CountOf(d, q)
                           /\ h.pairs[d][b] = Reqs[d][q]
    BY <2>11, <2>12 DEF HoldsBlob
  <2>14. \A d \in Decomp : ReplayStarts(Reqs[d][q], Dims[d]) = Starts(Reqs[d][q], Dims[d])
    BY <2>10, Given, SameStarts
  <2> HIDE DEF h, b, q
  <2>15. dec'[p] = [d \in Decomp |-> [start |-> Exscan(d, OnNode(place, q), q), count |-> CountOf(d, q),
                                      pairs |-> Reqs[d][q], starts |-> Starts(Reqs[d][q], Dims[d])]]
    BY <2>1, <2>13, <2>14
  <2> QED
    BY <2>9, <2>10, <2>15 DEF DecOf, q
<1>4. ASSUME NEW p \in P, rpc'[p] \in Decoded
      PROVE  /\ Source(p) \in Rank
             /\ Match(place, rplace, p, Source(p))
             /\ dec'[p] = DecOf(Source(p))
  <2>1. CASE \E S \in NodesOfP : ReadDecomp(S)
    <3>1. PICK S \in NodesOfP : ReadDecomp(S)
      BY <2>1
    <3>2. CASE p \in S
      <4>1. rpc'[p] \in {"define", "failed", "blocked"}
        BY <3>1, <3>2 DEF ReadDecomp
      <4>2. "failed" \notin Decoded /\ "blocked" \notin Decoded
        BY DEF Decoded, Shaped, Copying, Ending
      <4> QED
        BY <1>3, <1>4, <3>1, <3>2, <4>1, <4>2
    <3>3. CASE p \notin S
      <4>1. rpc'[p] = rpc[p] /\ dec'[p] = dec[p]
        BY <3>1, <3>3 DEF ReadDecomp
      <4> QED
        BY <1>4, <4>1 DEF Decoding
    <3> QED
      BY <3>2, <3>3
  <2>2. CASE ~(\E S \in NodesOfP : ReadDecomp(S))
    <3>1. UNCHANGED dec
      BY <2>2 DEF NextReplay, RSplit, RCreate, RDefine, WaitWrites, RClose, RBcast, ROpen, WaitReads,
                  PostReads, PostWrites
    <3>2. rpc[p] \in Decoded
      BY <1>4, <2>2, PhaseBefore
    <3> QED
      BY <3>1, <3>2 DEF Decoding
  <2> QED
    BY <2>1, <2>2
<1>5. \A p \in P, q \in Rank : Match(place, rplace, p, q)' <=> Match(place, rplace, p, q)
  BY <1>0 DEF Match
<1> QED
  BY <1>0, <1>1, <1>2, <1>4, <1>5 DEF Decoding

LEMMA Joined ==
  ASSUME NEW T, NEW s \in Seq(T), NEW t \in Seq(T)
  PROVE  /\ s \o t \in Seq(T) /\ Len(s \o t) = Len(s) + Len(t)
         /\ \A i \in 1 .. Len(s \o t) :
              (s \o t)[i] = IF i <= Len(s) THEN s[i] ELSE t[i - Len(s)]
  OBVIOUS

\* The dimensions of blob I/O stand behind those of the case and share no
\* name with them.
LEMMA DimsAre ==
  /\ Len(DimNames) \in Nat /\ Len(SubfileDims) \in Nat /\ Len(DimNames) <= Len(SubfileDims)
  /\ DOMAIN DimNames = 1 .. Len(DimNames) /\ DOMAIN SubfileDims = 1 .. Len(SubfileDims)
  /\ \A i \in 1 .. Len(DimNames) : /\ SubfileDims[i] = CaseDims[i]
                                   /\ SubfileDims[i] \notin ToSet(BlobDims)
  /\ \A i \in 1 .. Len(SubfileDims) : i > Len(DimNames) => SubfileDims[i] \in ToSet(BlobDims)
  /\ \A i, j \in 1 .. Len(DimNames) : CaseDims[i] = CaseDims[j] => i = j
<1> DEFINE n == Len(DimNames)
           m == Len(Dims)
           A == [d \in Decomp |-> <<"nelems", d>>]
           B == [d \in Decomp |-> <<"max_nreqs", d>>]
           one == << <<"nblobs", 0>> >>
           T == ({DimNames[i] : i \in 1 .. n} \cup {"nblobs", "nelems", "max_nreqs"}) \X Nat
<1>1. /\ DimNames \in Seq(STRING \ {"nblobs"}) /\ n \in Nat /\ DOMAIN DimNames = 1 .. n
      /\ \A i \in 1 .. n : DimNames[i] \in STRING /\ DimNames[i] # "nblobs"
      /\ m \in Nat /\ Decomp = 1 .. m
  BY SubFilesAssumption DEF Decomp
<1>2. /\ CaseDims = [i \in 1 .. n |-> <<DimNames[i], 0>>]
      /\ CaseDims \in Seq(T) /\ Len(CaseDims) = n
      /\ \A i \in 1 .. n : CaseDims[i] = <<DimNames[i], 0>>
  BY <1>1 DEF CaseDims
<1>3. /\ A \in Seq(T) /\ Len(A) = m /\ \A d \in 1 .. m : A[d] = <<"nelems", d>>
      /\ B \in Seq(T) /\ Len(B) = m /\ \A d \in 1 .. m : B[d] = <<"max_nreqs", d>>
      /\ one \in Seq(T) /\ Len(one) = 1 /\ one[1] = <<"nblobs", 0>>
  <2>0. A = [d \in 1 .. m |-> <<"nelems", d>>] /\ B = [d \in 1 .. m |-> <<"max_nreqs", d>>]
    BY <1>1
  <2>a. \A d \in 1 .. m : A[d] = <<"nelems", d>> /\ A[d] \in T /\ B[d] = <<"max_nreqs", d>> /\ B[d] \in T
    BY <1>1
  <2>1. /\ A = [d \in 1 .. m |-> A[d]] /\ \A d \in 1 .. m : A[d] = <<"nelems", d>> /\ A[d] \in T
        /\ B = [d \in 1 .. m |-> B[d]] /\ \A d \in 1 .. m : B[d] = <<"max_nreqs", d>> /\ B[d] \in T
    <3> HIDE DEF T
    <3> QED
      BY <2>0, <2>a
  <2>2. one \in Seq(T) /\ Len(one) = 1 /\ one[1] = <<"nblobs", 0>>
    <3>1. <<"nblobs", 0>> \in T
      OBVIOUS
    <3> HIDE DEF T
    <3> QED
      BY <3>1
  <2>3. m \in Nat
    BY <1>1
  <2> HIDE DEF A, B, T
  <2>4. A \in Seq(T) /\ Len(A) = m /\ B \in Seq(T) /\ Len(B) = m
    BY ONLY <2>1, <2>3, ListIs
  <2> QED
    BY <2>1, <2>2, <2>4
<1>4. BlobDims = (one \o A) \o B
  BY DEF BlobDims
<1> HIDE DEF A, B, one, T
<1>5. /\ BlobDims \in Seq(T) /\ Len(BlobDims) = 1 + m + m /\ DOMAIN BlobDims = 1 .. Len(BlobDims)
      /\ \A i \in 1 .. 1 + m + m :
           BlobDims[i] = IF i <= 1 + m THEN IF i = 1 THEN one[1] ELSE A[i - 1] ELSE B[i - (1 + m)]
  <2>1. /\ one \o A \in Seq(T) /\ Len(one \o A) = 1 + m
        /\ \A i \in 1 .. 1 + m : (one \o A)[i] = IF i <= 1 THEN one[i] ELSE A[i - 1]
    <3>1. /\ one \o A \in Seq(T) /\ Len(one \o A) = Len(one) + Len(A)
          /\ \A i \in 1 .. Len(one \o A) :
               (one \o A)[i] = IF i <= Len(one) THEN one[i] ELSE A[i - Len(one)]
      <4>1. one \in Seq(T) /\ A \in Seq(T)
        BY <1>3
      <4> QED
        BY ONLY <4>1, Joined
    <3> QED
      BY ONLY <1>3, <3>1
  <2> DEFINE C == one \o A
  <2> HIDE DEF C
  <2>2. /\ C \o B \in Seq(T) /\ Len(C \o B) = 1 + m + m
        /\ \A i \in 1 .. 1 + m + m : (C \o B)[i] = IF i <= 1 + m THEN C[i] ELSE B[i - (1 + m)]
    <3>1. /\ C \o B \in Seq(T) /\ Len(C \o B) = Len(C) + Len(B)
          /\ \A i \in 1 .. Len(C \o B) : (C \o B)[i] = IF i <= Len(C) THEN C[i] ELSE B[i - Len(C)]
      <4>1. C \in Seq(T) /\ B \in Seq(T)
        BY <1>3, <2>1 DEF C
      <4> QED
        BY ONLY <4>1, Joined
    <3>2. Len(C) = 1 + m /\ Len(B) = m
      BY <1>3, <2>1 DEF C
    <3> HIDE DEF m
    <3> QED
      BY ONLY <3>1, <3>2
  <2>3. \A i \in 1 .. 1 + m : C[i] = IF i = 1 THEN one[1] ELSE A[i - 1]
    BY <1>1, <2>1 DEF C
  <2>4. BlobDims = C \o B
    BY <1>4 DEF C
  <2>5. \A i \in 1 .. 1 + m + m : i <= 1 + m => i \in 1 .. 1 + m
    BY <1>1
  <2> HIDE DEF m
  <2>6. \A i \in 1 .. 1 + m + m :
          BlobDims[i] = IF i <= 1 + m THEN IF i = 1 THEN one[1] ELSE A[i - 1] ELSE B[i - (1 + m)]
    BY ONLY <2>2, <2>3, <2>4, <2>5
  <2>7. BlobDims \in Seq(T) /\ Len(BlobDims) = 1 + m + m
    BY ONLY <2>2, <2>4
  <2> QED
    BY <2>6, <2>7
<1>6. \A x \in ToSet(BlobDims) : x = <<"nblobs", 0>> \/ x[2] \in 1 .. m
  <2> SUFFICES ASSUME NEW x \in ToSet(BlobDims) PROVE x = <<"nblobs", 0>> \/ x[2] \in 1 .. m
    OBVIOUS
  <2>1. PICK i \in 1 .. 1 + m + m : x = BlobDims[i]
    BY <1>5 DEF ToSet
  <2>2. CASE i = 1
    BY <1>1, <1>3, <1>5, <2>1, <2>2
  <2>3. CASE i # 1 /\ i <= 1 + m
    <3>1. i - 1 \in 1 .. m /\ x = A[i - 1]
      BY <1>1, <1>5, <2>1, <2>3
    <3>2. x = <<"nelems", i - 1>>
      BY <1>3, <3>1
    <3> QED
      BY <3>1, <3>2
  <2>4. CASE ~(i <= 1 + m)
    <3>1. i - (1 + m) \in 1 .. m /\ x = B[i - (1 + m)]
      BY <1>1, <1>5, <2>1, <2>4
    <3>2. x = <<"max_nreqs", i - (1 + m)>>
      BY <1>3, <3>1
    <3> QED
      BY <3>1, <3>2
  <2> QED
    BY <2>2, <2>3, <2>4
<1>7. \A i \in 1 .. n : CaseDims[i] \notin ToSet(BlobDims)
  <2> SUFFICES ASSUME NEW i \in 1 .. n, CaseDims[i] \in ToSet(BlobDims) PROVE FALSE
    OBVIOUS
  <2>1. CaseDims[i][1] # "nblobs" /\ CaseDims[i][2] = 0
    BY <1>1, <1>2
  <2>2. CaseDims[i] = <<"nblobs", 0>> \/ CaseDims[i][2] \in 1 .. m
    BY <1>6
  <2>3. <<"nblobs", 0>>[1] = "nblobs"
    OBVIOUS
  <2> QED
    BY <1>1, <2>1, <2>2, <2>3
<1>8. /\ SubfileDims = CaseDims \o BlobDims
      /\ Len(SubfileDims) = n + Len(BlobDims) /\ DOMAIN SubfileDims = 1 .. Len(SubfileDims)
      /\ Len(BlobDims) \in Nat
      /\ \A i \in 1 .. Len(SubfileDims) :
           SubfileDims[i] = IF i <= n THEN CaseDims[i] ELSE BlobDims[i - n]
  <2>1. /\ CaseDims \o BlobDims \in Seq(T) /\ Len(CaseDims \o BlobDims) = n + Len(BlobDims)
        /\ \A i \in 1 .. Len(CaseDims \o BlobDims) :
             (CaseDims \o BlobDims)[i] = IF i <= n THEN CaseDims[i] ELSE BlobDims[i - n]
    <3>1. CaseDims \in Seq(T) /\ BlobDims \in Seq(T) /\ Len(CaseDims) = n
      BY <1>2, <1>5 DEF T
    <3>2. /\ CaseDims \o BlobDims \in Seq(T) /\ Len(CaseDims \o BlobDims) = Len(CaseDims) + Len(BlobDims)
          /\ \A i \in 1 .. Len(CaseDims \o BlobDims) :
               (CaseDims \o BlobDims)[i] = IF i <= Len(CaseDims) THEN CaseDims[i] ELSE BlobDims[i - Len(CaseDims)]
      BY ONLY <3>1, Joined
    <3> QED
      BY ONLY <3>1, <3>2
  <2>2. SubfileDims = CaseDims \o BlobDims
    BY DEF SubfileDims
  <2>3. SubfileDims \in Seq(T) /\ Len(BlobDims) \in Nat
    BY <1>5, <2>1, <2>2
  <2> QED
    BY <2>1, <2>2, <2>3
<1>9. \A i \in 1 .. Len(SubfileDims) : i > n => SubfileDims[i] \in ToSet(BlobDims)
  <2> SUFFICES ASSUME NEW i \in 1 .. Len(SubfileDims), i > n PROVE SubfileDims[i] \in ToSet(BlobDims)
    OBVIOUS
  <2>1. SubfileDims[i] = BlobDims[i - n] /\ i - n \in 1 .. Len(BlobDims)
    BY <1>1, <1>8
  <2>2. DOMAIN BlobDims = 1 .. Len(BlobDims)
    BY <1>5
  <2> QED
    BY <2>1, <2>2 DEF ToSet
<1>10. \A i, j \in 1 .. n : CaseDims[i] = CaseDims[j] => i = j
  <2> SUFFICES ASSUME NEW i \in 1 .. n, NEW j \in 1 .. n, CaseDims[i] = CaseDims[j] PROVE i = j
    OBVIOUS
  <2>1. DimNames[i] = DimNames[j]
    BY <1>2
  <2> QED
    BY <1>1, <2>1, SubFilesAssumption
<1>11. \A i \in 1 .. n : i \in 1 .. Len(SubfileDims) /\ SubfileDims[i] = CaseDims[i]
  BY <1>1, <1>8
<1> QED
  BY <1>1, <1>7, <1>8, <1>9, <1>10, <1>11

\* The dimensions of the case keep their IDs.
LEMMA CopiesAre ==
  /\ DOMAIN Copies(SubfileDims) = 1 .. Len(DimNames)
  /\ \A i \in 1 .. Len(DimNames) : Copies(SubfileDims)[i] = CaseDims[i]
<1> DEFINE n == Len(DimNames)
           D == SubfileDims
           K(j) == {k \in 1 .. j : D[k] \notin ToSet(BlobDims)}
<1>0. /\ n \in Nat /\ Len(D) \in Nat /\ n <= Len(D) /\ DOMAIN D = 1 .. Len(D)
      /\ \A i \in 1 .. n : D[i] = CaseDims[i] /\ D[i] \notin ToSet(BlobDims)
      /\ \A i \in 1 .. Len(D) : i > n => D[i] \in ToSet(BlobDims)
  BY DimsAre
<1>1. \A j \in Nat : NewID(D, j) = Cardinality(K(j))
  BY DEF NewID
<1> HIDE DEF D
<1>2. \A i \in Nat : Cardinality(1 .. i) = i
  <2> SUFFICES ASSUME NEW i \in Nat PROVE Cardinality(1 .. i) = i
    OBVIOUS
  <2>1. Cardinality(1 .. i) = IF 1 > i THEN 0 ELSE i - 1 + 1
    BY FS_Interval
  <2> QED
    BY <2>1
<1>3. \A i \in 1 .. n : K(i) = 1 .. i
  BY <1>0
<1>4. K(Len(D)) = 1 .. n
  BY <1>0
<1>5. NewID(D, Len(D)) = n /\ \A i \in 1 .. n : NewID(D, i) = i
  <2>1. NewID(D, Len(D)) = Cardinality(1 .. n)
    BY <1>0, <1>1, <1>4
  <2>2. \A i \in 1 .. n : NewID(D, i) = Cardinality(1 .. i)
    BY <1>0, <1>1, <1>3
  <2> QED
    BY <1>0, <1>2, <2>1, <2>2
<1>6. Copies(D) = [i \in 1 .. n |->
        D[CHOOSE k \in DOMAIN D : D[k] \notin ToSet(BlobDims) /\ NewID(D, k) = i]]
  BY <1>5 DEF Copies
<1>7. ASSUME NEW i \in 1 .. n
      PROVE  (CHOOSE k \in DOMAIN D : D[k] \notin ToSet(BlobDims) /\ NewID(D, k) = i) = i
  <2>1. i \in DOMAIN D /\ D[i] \notin ToSet(BlobDims) /\ NewID(D, i) = i
    BY <1>0, <1>5
  <2>2. ASSUME NEW k \in DOMAIN D, D[k] \notin ToSet(BlobDims), NewID(D, k) = i PROVE k = i
    <3>1. k \in 1 .. n
      BY <1>0, <2>2
    <3> QED
      BY <1>5, <2>2, <3>1
  <2> QED
    BY <2>1, <2>2
<1>8. DOMAIN Copies(D) = 1 .. n
  BY <1>6
<1>9. ASSUME NEW i \in 1 .. n PROVE Copies(D)[i] = CaseDims[i]
  BY <1>0, <1>6, <1>7
<1> QED
  BY <1>8, <1>9 DEF D

LEMMA ShapesStep ==
  ASSUME Metadata, Stores, Control, RNumbers, Shapes, NextReplay
  PROVE  Shapes'
<1>0. /\ 0 \in P /\ P' = P
  BY ProcessesAre, ReplayFrame DEF P, Control
<1>1. CASE RDefine
  <2> DEFINE dims == subfile[rid[0]].header.dims
             ID(x) == CHOOSE j \in DOMAIN dims : dims[j] = x
  <2>1. rpc[0] = "define"
    BY <1>0, <1>1 DEF RDefine, RAt
  <2>2. rpc[0] \in Opened /\ layout = "blob" /\ Written
    BY <1>0, <2>1, PhasesAre DEF Opened, Control
  <2>3. rid[0] \in DOMAIN subfile
    BY <1>0, <2>2 DEF RNumbers
  <2>4. PICK r \in Rank : NodeID(place, r) = rid[0]
    BY <2>2, <2>3, AllStored
  <2>5. dims = SubfileDims
    BY <2>2, <2>4, AllStored DEF HoldsBlob
  <2>6. shape' = [v \in DOMAIN Vars |-> [i \in DOMAIN Vars[v].dims |->
                     LET j == ID(CaseDims[Vars[v].dims[i]])
                     IN  IF j \in DOMAIN Copies(dims) THEN Copies(dims)[j] ELSE <<"error", 0>>]]
    BY <1>1 DEF RDefine
  <2> HIDE DEF dims
  <2>7. ASSUME NEW x \in 1 .. Len(DimNames)
        PROVE  ID(CaseDims[x]) = x
    <3>1. x \in DOMAIN dims /\ dims[x] = CaseDims[x]
      BY <2>5, DimsAre
    <3>2. ASSUME NEW j \in DOMAIN dims, dims[j] = CaseDims[x] PROVE j = x
      <4>1. j \in 1 .. Len(SubfileDims) /\ SubfileDims[j] = SubfileDims[x] /\ SubfileDims[x] \notin ToSet(BlobDims)
        BY <2>5, <3>1, <3>2, DimsAre
      <4>2. j \in 1 .. Len(DimNames)
        BY <4>1, DimsAre
      <4> QED
        BY <3>2, <2>5, <4>2, DimsAre
    <3> QED
      BY <3>1, <3>2
  <2> HIDE DEF ID
  <2>8. ASSUME NEW v \in DOMAIN Vars, NEW i \in DOMAIN shape'[v]
        PROVE  shape'[v][i] = CaseDims[Vars[v].dims[i]]
    <3>1. i \in DOMAIN Vars[v].dims
      BY <2>6
    <3>2. Vars[v].dims[i] \in 1 .. Len(DimNames)
      BY <3>1, VarIs, DimsAre
    <3>3. shape'[v][i] = LET j == ID(CaseDims[Vars[v].dims[i]])
                         IN  IF j \in DOMAIN Copies(dims) THEN Copies(dims)[j] ELSE <<"error", 0>>
      BY <2>6, <3>1
    <3> QED
      BY <2>5, <2>7, <3>2, <3>3, CopiesAre
  <2> QED
    BY <2>8 DEF Shapes, ShapeIs
<1>2. CASE ~RDefine
  <2>1. UNCHANGED shape
    BY <1>2 DEF NextReplay, RSplit, RCreate, WaitWrites, RClose, RBcast, ROpen, ReadDecomp, WaitReads,
                PostReads, PostWrites
  <2>2. \A p \in P : rpc'[p] \in Shaped => rpc[p] \in Shaped
    BY <1>2, PhaseBefore
  <2> QED
    BY <1>0, <2>1, <2>2 DEF Shapes, ShapeIs
<1> QED
  BY <1>1, <1>2

-----------------------------------------------------------------------------
(* Copying.                                                                *)

\* The pending requests of process p, and what its reads bring.
Gets(p) ==
  {[var |-> v, rec |-> Record(p), at |-> Before(p, v),
    from |-> IF Vars[v].decomp = 0 THEN 0 ELSE dec[p][Vars[v].decomp].start,
    n |-> Length(p, v)] : v \in Copied(p)}
Puts(p) == {[var |-> v, rec |-> Record(p), at |-> Before(p, v)] : v \in Copied(p)}
Datum(p, v, i) ==
  <<v, Record(p), IF Vars[v].decomp = 0 THEN 0 ELSE Elements(Reqs[Vars[v].decomp][Source(p)])[i + 1]>>
LoadedVar(p, v) == \A i \in 0 .. Length(p, v) - 1 : buf[p][Before(p, v) + i] = Datum(p, v, i)
Loaded(p) == \A v \in Copied(p) : LoadedVar(p, v)

Transfers ==
  /\ DOMAIN buf = P /\ DOMAIN igets = P /\ DOMAIN iputs = P
  /\ \A p \in P : /\ DOMAIN buf[p] \subseteq Nat
                  /\ rpc[p] = "wait_in" => igets[p] = Gets(p)
                  /\ rpc[p] \in {"write", "wait_out"} => Loaded(p)
                  /\ rpc[p] = "wait_out" => iputs[p] = Puts(p)

LengthsOf(p) == [v \in DOMAIN Vars |-> Length(p, v)]

\* Where the data of the variables is in the buffer.
LEMMA BufferIs ==
  ASSUME Decoding, NEW p \in P, rpc[p] \in Decoded
  PROVE  /\ \A v \in Copied(p) :
              /\ v \in DOMAIN Vars
              /\ Vars[v].decomp = 0 => Length(p, v) = 1
              /\ Vars[v].decomp # 0 =>
                   /\ Vars[v].decomp \in Decomp
                   /\ Length(p, v) = CountOf(Vars[v].decomp, Source(p))
                   /\ dec[p][Vars[v].decomp] = DecOf(Source(p))[Vars[v].decomp]
              /\ Length(p, v) \in Nat /\ Before(p, v) \in Nat
         /\ \A v, w \in Copied(p) : \A i \in 0 .. Length(p, v) - 1, j \in 0 .. Length(p, w) - 1 :
              Before(p, v) + i = Before(p, w) + j => v = w /\ i = j
<1> DEFINE S == Copied(p)
           f == LengthsOf(p)
<1>1. Source(p) \in Rank /\ dec[p] = DecOf(Source(p))
  BY DEF Decoding
<1>2. S \in SUBSET (DOMAIN Vars) /\ DOMAIN Vars \subseteq Nat /\ IsFiniteSet(DOMAIN Vars)
  <2>1. Len(Vars) \in Nat /\ DOMAIN Vars = 1 .. Len(Vars)
    BY SubFilesAssumption
  <2>2. IsFiniteSet(1 .. Len(Vars)) /\ 1 .. Len(Vars) \subseteq Nat
    BY <2>1, FS_Interval
  <2> QED
    BY <2>1, <2>2 DEF Copied
<1>3. S \subseteq Nat /\ IsFiniteSet(S)
  BY <1>2, FS_Subset
<1>4. ASSUME NEW v \in S
      PROVE  /\ v \in DOMAIN Vars
             /\ Vars[v].decomp = 0 => Length(p, v) = 1
             /\ Vars[v].decomp # 0 =>
                  /\ Vars[v].decomp \in Decomp
                  /\ Length(p, v) = CountOf(Vars[v].decomp, Source(p))
                  /\ dec[p][Vars[v].decomp] = DecOf(Source(p))[Vars[v].decomp]
             /\ Length(p, v) \in Nat
             /\ f[v] = Length(p, v)
  <2>1. v \in DOMAIN Vars
    BY <1>2
  <2>2. CASE Vars[v].decomp = 0
    BY <2>1, <2>2 DEF Length, LengthsOf
  <2>3. CASE Vars[v].decomp # 0
    <3>1. Vars[v].decomp \in Decomp
      BY <2>1, <2>3, VarIs
    <3>2. dec[p][Vars[v].decomp].count = CountOf(Vars[v].decomp, Source(p))
      BY <1>1, <3>1 DEF DecOf
    <3>3. Length(p, v) = CountOf(Vars[v].decomp, Source(p))
      BY <2>3, <3>2 DEF Length
    <3>4. CountOf(Vars[v].decomp, Source(p)) \in Nat
      BY <1>1, <3>1, Amounts
    <3> QED
      BY <1>1, <2>1, <2>3, <3>1, <3>3, <3>4 DEF LengthsOf
  <2> QED
    BY <2>2, <2>3
<1>5. ASSUME NEW v \in S PROVE Before(p, v) = Position(f, S, v)
  <2> DEFINE B == {w \in S : w < v}
  <2>1. [w \in B |-> Length(p, w)] = [w \in B |-> f[w]]
    BY <1>4
  <2> QED
    BY <2>1 DEF Before, Position, SumOn
<1>6. \A x \in S : f[x] \in Nat
  BY <1>4
<1> HIDE DEF S, f
<1>7. /\ \A x \in S : Position(f, S, x) \in Nat
      /\ \A x, y \in S : \A i \in 0 .. f[x] - 1, j \in 0 .. f[y] - 1 :
           Position(f, S, x) + i = Position(f, S, y) + j => x = y /\ i = j
  BY ONLY <1>3, <1>6, Positions
<1>8. ASSUME NEW v \in S, NEW w \in S, NEW i \in 0 .. Length(p, v) - 1,
             NEW j \in 0 .. Length(p, w) - 1, Before(p, v) + i = Before(p, w) + j
      PROVE  v = w /\ i = j
  <2>1. i \in 0 .. f[v] - 1 /\ j \in 0 .. f[w] - 1
    BY <1>4
  <2>2. Position(f, S, v) + i = Position(f, S, w) + j
    BY <1>5, <1>8
  <2> QED
    BY <1>7, <2>1, <2>2
<1>9. \A v \in S : Before(p, v) \in Nat
  BY <1>5, <1>7
<1> QED
  BY <1>4, <1>8, <1>9 DEF S

\* The record a process works on is one of the variables it copies.
LEMMA RecordIs ==
  ASSUME Control, NEW p \in P, NEW v \in Copied(p)
  PROVE  Record(p) \in RecordsOf(v) /\ v \in DOMAIN Vars
<1>1. krec[p] \in -1 .. NRecs - 1 /\ NRecs \in Nat
  BY SubFilesAssumption DEF Control
<1>2. v \in DOMAIN Vars /\ (Vars[v].rec <=> krec[p] >= 0)
  BY DEF Copied
<1> QED
  BY <1>1, <1>2, VarIs DEF Record, RecordsOf, Steps

\* The reads bring what the process's rank has stored.
LEMMA ReadsLoad ==
  ASSUME Metadata, Stores, Control, RNumbers, Decoding, Transfers,
         NEW S \in NodesOfP, WaitReads(S), NEW p \in S
  PROVE  /\ DOMAIN buf'[p] \subseteq Nat
         /\ \A v \in Copied(p) : \A i \in 0 .. Length(p, v) - 1 :
              buf'[p][Before(p, v) + i] = Datum(p, v, i)
<1> DEFINE data == subfile[rid[p]].data
           Q == UNION {{<<g.at + i, data[Stored(g, i)]>> : i \in 0 .. g.n - 1} : g \in igets[p]}
           G(v) == [var |-> v, rec |-> Record(p), at |-> Before(p, v),
                    from |-> IF Vars[v].decomp = 0 THEN 0 ELSE dec[p][Vars[v].decomp].start,
                    n |-> Length(p, v)]
<1>1. p \in P /\ rpc[p] = "wait_in"
  BY ProcessesAre DEF Control, WaitReads, RAt
<1>2. /\ rpc[p] \in Decoded /\ rpc[p] \in {"open"} \cup Opened /\ rpc[p] \in Opened
      /\ layout = "blob" /\ Written
  BY <1>1 DEF Decoded, Shaped, Copying, Opened, Created, Control
<1>3. igets[p] = {G(v) : v \in Copied(p)}
  BY <1>1 DEF Transfers, Gets
<1>4. buf'[p] = Over(Put(Q), buf[p])
  BY <1>1 DEF WaitReads
<1>5. /\ \A v \in Copied(p) :
           /\ v \in DOMAIN Vars
           /\ Vars[v].decomp = 0 => Length(p, v) = 1
           /\ Vars[v].decomp # 0 =>
                /\ Vars[v].decomp \in Decomp
                /\ Length(p, v) = CountOf(Vars[v].decomp, Source(p))
                /\ dec[p][Vars[v].decomp] = DecOf(Source(p))[Vars[v].decomp]
           /\ Length(p, v) \in Nat /\ Before(p, v) \in Nat
      /\ \A v, w \in Copied(p) : \A i \in 0 .. Length(p, v) - 1, j \in 0 .. Length(p, w) - 1 :
           Before(p, v) + i = Before(p, w) + j => v = w /\ i = j
  BY <1>1, <1>2, BufferIs
<1>6. \A v \in Copied(p) : /\ G(v).var = v /\ G(v).rec = Record(p) /\ G(v).at = Before(p, v)
                           /\ G(v).n = Length(p, v)
                           /\ G(v).from = IF Vars[v].decomp = 0 THEN 0 ELSE dec[p][Vars[v].decomp].start
  OBVIOUS
<1> HIDE DEF G
<1>7. ASSUME NEW q \in Q
      PROVE  \E v \in Copied(p) : \E i \in 0 .. Length(p, v) - 1 :
               q = <<Before(p, v) + i, data[Stored(G(v), i)]>>
  <2>1. PICK g \in igets[p] : q \in {<<g.at + i, data[Stored(g, i)]>> : i \in 0 .. g.n - 1}
    OBVIOUS
  <2>2. PICK v \in Copied(p) : g = G(v)
    BY <1>3, <2>1
  <2>3. PICK i \in 0 .. g.n - 1 : q = <<g.at + i, data[Stored(g, i)]>>
    BY <2>1
  <2> QED
    BY <1>6, <2>2, <2>3
<1>8. ASSUME NEW v \in Copied(p), NEW i \in 0 .. Length(p, v) - 1
      PROVE  <<Before(p, v) + i, data[Stored(G(v), i)]>> \in Q
  <2>1. G(v) \in igets[p]
    BY <1>3
  <2>2. <<G(v).at + i, data[Stored(G(v), i)]>> \in Q
    BY <1>6, <2>1
  <2> QED
    BY <1>6, <2>2
<1>9. ASSUME NEW q \in Q, NEW w \in Q, q[1] = w[1] PROVE q[2] = w[2]
  <2>1. PICK v \in Copied(p) : \E i \in 0 .. Length(p, v) - 1 :
          q = <<Before(p, v) + i, data[Stored(G(v), i)]>>
    BY <1>7
  <2>2. PICK i \in 0 .. Length(p, v) - 1 : q = <<Before(p, v) + i, data[Stored(G(v), i)]>>
    BY <2>1
  <2>3. PICK u \in Copied(p) : \E j \in 0 .. Length(p, u) - 1 :
          w = <<Before(p, u) + j, data[Stored(G(u), j)]>>
    BY <1>7
  <2>4. PICK j \in 0 .. Length(p, u) - 1 : w = <<Before(p, u) + j, data[Stored(G(u), j)]>>
    BY <2>3
  <2>5. Before(p, v) + i = Before(p, u) + j
    BY <1>9, <2>2, <2>4
  <2>6. v = u /\ i = j
    BY <1>5, <2>5
  <2> QED
    BY <2>2, <2>4, <2>6
<1>10. \A q \in Q : q[1] \in Nat
  <2> SUFFICES ASSUME NEW q \in Q PROVE q[1] \in Nat
    OBVIOUS
  <2>1. PICK v \in Copied(p) : \E i \in 0 .. Length(p, v) - 1 :
          q = <<Before(p, v) + i, data[Stored(G(v), i)]>>
    BY <1>7
  <2>2. PICK i \in 0 .. Length(p, v) - 1 : q = <<Before(p, v) + i, data[Stored(G(v), i)]>>
    BY <2>1
  <2>3. Before(p, v) + i \in Nat
    BY <1>5
  <2> QED
    BY <2>2, <2>3
\* What is stored there.
<1>11. ASSUME NEW v \in Copied(p), NEW i \in 0 .. Length(p, v) - 1
       PROVE  data[Stored(G(v), i)] = Datum(p, v, i)
  <2> DEFINE q == Source(p)
             k == Record(p)
             d == Vars[v].decomp
             T == OnNode(place, q)
  <2>1. v \in DOMAIN Vars /\ k \in RecordsOf(v)
    BY <1>1, RecordIs
  <2>2. q \in Rank /\ NodeID(place, q) = NodeID(rplace, p) /\ rid[p] = NodeID(rplace, p)
    BY <1>1, <1>2 DEF Decoding, Match, RNumbers
  <2>3. HoldsVar(data, T, q, v)
    BY <1>2, <2>1, <2>2, AllStored DEF HoldsBlob
  <2>4. CASE d = 0
    <3>1. Stored(G(v), i) = <<v, k, <<>> >> /\ Datum(p, v, i) = <<v, k, 0>>
      BY <1>6, <2>4 DEF Stored, Datum
    <3>2. data[<<v, k, <<>> >>] = <<v, k, 0>>
      BY <2>1, <2>3, <2>4 DEF HoldsVar
    <3> QED
      BY <3>1, <3>2
  <2>5. CASE d # 0
    <3>1. d \in Decomp /\ Length(p, v) = CountOf(d, q) /\ dec[p][d] = DecOf(q)[d]
      BY <1>5, <2>5
    <3>2. dec[p][d].start = Exscan(d, T, q)
      BY <3>1 DEF DecOf
    <3>3. G(v).var = v /\ G(v).rec = k /\ G(v).from = Exscan(d, T, q)
      BY <1>6, <2>5, <3>2
    <3>4. Stored(G(v), i) = <<v, k, Exscan(d, T, q) + i>>
      BY <2>5, <3>3 DEF Stored
    <3>5. Datum(p, v, i) = <<v, k, Elements(Reqs[d][q])[i + 1]>>
      BY <2>5 DEF Datum
    <3>6. i + 1 \in 1 .. CountOf(d, q) /\ CountOf(d, q) \in Nat /\ i \in Int
      BY <1>5, <3>1
    <3>7. data[<<v, k, Exscan(d, T, q) + (i + 1) - 1>>] = <<v, k, Elements(Reqs[d][q])[i + 1]>>
      BY <2>1, <2>3, <2>5, <3>6 DEF HoldsVar
    <3>8. Exscan(d, T, q) \in Nat
      <4>1. IsPlacement(place) /\ DOMAIN place = Rank
        BY Given DEF Metadata
      <4>2. T \in SUBSET Rank /\ q \in T
        BY <2>2, <4>1, NodeProperties
      <4> HIDE DEF T, q, d
      <4> QED
        BY <3>1, <4>2, ExscanIs
    <3>9. Exscan(d, T, q) + (i + 1) - 1 = Exscan(d, T, q) + i
      BY <3>6, <3>8
    <3> QED
      BY <3>4, <3>5, <3>7, <3>9
  <2> QED
    BY <2>4, <2>5
<1> HIDE DEF Q, data
<1>12. ASSUME NEW v \in Copied(p), NEW i \in 0 .. Length(p, v) - 1
       PROVE  buf'[p][Before(p, v) + i] = Datum(p, v, i)
  <2> DEFINE x == <<Before(p, v) + i, data[Stored(G(v), i)]>>
  <2>1. x \in Q /\ x[1] = Before(p, v) + i /\ x[2] = Datum(p, v, i)
    BY <1>8, <1>11
  <2> HIDE DEF x
  <2>2. x[1] \in DOMAIN Put(Q) /\ Put(Q)[x[1]] = x[2]
    BY <1>9, <2>1, PutAt
  <2>3. buf'[p][x[1]] = Put(Q)[x[1]]
    BY <1>4, <2>2 DEF Over
  <2> QED
    BY <2>1, <2>2, <2>3
<1>13. DOMAIN buf'[p] \subseteq Nat
  <2>1. DOMAIN buf'[p] = DOMAIN Put(Q) \cup DOMAIN buf[p]
    BY <1>4 DEF Over
  <2>2. \A c \in DOMAIN Put(Q) : c \in Nat
    BY <1>10, PutFrom
  <2>3. DOMAIN buf[p] \subseteq Nat
    BY <1>1 DEF Transfers
  <2> QED
    BY <2>1, <2>2, <2>3
<1> QED
  BY <1>12, <1>13

LEMMA TransfersInit == Init => Transfers
<1> SUFFICES ASSUME Init PROVE Transfers
  OBVIOUS
<1>1. /\ igets = [p \in P |-> {}] /\ iputs = [p \in P |-> {}] /\ buf = [p \in P |-> <<>>]
      /\ \A p \in P : rpc[p] = "split"
  BY DEF Init, InitReplay
<1>2. DOMAIN <<>> \subseteq Nat
  OBVIOUS
<1> QED
  BY <1>1, <1>2 DEF Transfers

\* What the requests of a process are depends on its decompositions and
\* record only.
LEMMA RequestsStay ==
  ASSUME NEW p \in P, krec'[p] = krec[p], dec'[p] = dec[p], UNCHANGED <<place, rplace>>
  PROVE  /\ Copied(p)' = Copied(p)
         /\ \A v : /\ Length(p, v)' = Length(p, v) /\ Before(p, v)' = Before(p, v)
                   /\ \A i : Datum(p, v, i)' = Datum(p, v, i)
         /\ Gets(p)' = Gets(p) /\ Puts(p)' = Puts(p)
<1>1. Copied(p)' = Copied(p) /\ Record(p)' = Record(p)
  BY DEF Copied, Record
<1>2. \A v : Length(p, v)' = Length(p, v)
  BY DEF Length
<1>3. \A v : Before(p, v)' = Before(p, v)
  <2> TAKE v
  <2> DEFINE B == {w \in Copied(p) : w < v}
  <2>1. B' = B
    BY <1>1
  <2>2. [w \in B |-> Length(p, w)]' = [w \in B |-> Length(p, w)]
    BY <1>2, <2>1
  <2> QED
    BY <2>2 DEF Before
<1>4. \A v, i : Datum(p, v, i)' = Datum(p, v, i)
  BY <1>1 DEF Datum, Source
<1>5. Gets(p)' = Gets(p)
  <2> DEFINE G(v) == [var |-> v, rec |-> Record(p), at |-> Before(p, v),
                      from |-> IF Vars[v].decomp = 0 THEN 0 ELSE dec[p][Vars[v].decomp].start,
                      n |-> Length(p, v)]
  <2>1. \A v : G(v)' = G(v)
    BY <1>1, <1>2, <1>3
  <2>2. Gets(p) = {G(v) : v \in Copied(p)}
    BY DEF Gets
  <2> QED
    BY <1>1, <2>1, <2>2 DEF Gets
<1>6. Puts(p)' = Puts(p)
  BY <1>1, <1>3 DEF Puts
<1> QED
  BY <1>1, <1>2, <1>3, <1>4, <1>5, <1>6

LEMMA TransfersStep ==
  ASSUME Metadata, Stores, Control, RNumbers, Decoding, Transfers, NextReplay
  PROVE  Transfers'
<1>0. /\ 0 \in P /\ P' = P /\ UNCHANGED <<rplace, place>>
      /\ \A S \in NodesOfP : S \subseteq P /\ S # {}
  BY ProcessesAre, ReplayFrame DEF P, Control
\* A process that keeps its requests and its buffer.
<1>1. ASSUME NEW p \in P, krec'[p] = krec[p], dec'[p] = dec[p],
             buf'[p] = buf[p], igets'[p] = igets[p], iputs'[p] = iputs[p],
             rpc'[p] \in {"wait_in", "write", "wait_out"} => rpc'[p] = rpc[p]
      PROVE  /\ DOMAIN buf'[p] \subseteq Nat
             /\ rpc'[p] = "wait_in" => igets'[p] = Gets(p)'
             /\ rpc'[p] \in {"write", "wait_out"} => Loaded(p)'
             /\ rpc'[p] = "wait_out" => iputs'[p] = Puts(p)'
  <2>1. /\ Copied(p)' = Copied(p)
        /\ \A v : /\ Length(p, v)' = Length(p, v) /\ Before(p, v)' = Before(p, v)
                  /\ \A i : Datum(p, v, i)' = Datum(p, v, i)
        /\ Gets(p)' = Gets(p) /\ Puts(p)' = Puts(p)
    BY <1>0, <1>1, RequestsStay
  <2>2. Loaded(p) => Loaded(p)'
    BY <1>1, <2>1 DEF Loaded, LoadedVar
  <2> QED
    BY <1>1, <2>1, <2>2 DEF Transfers
<1>2. CASE RSplit \/ RCreate \/ RDefine \/ RClose \/ \E S \in NodesOfP : RBcast(S) \/ ROpen(S) \/ ReadDecomp(S)
  <2>1. UNCHANGED <<krec, buf, igets, iputs>>
    BY <1>2 DEF RSplit, RCreate, RDefine, RClose, RBcast, ROpen, ReadDecomp
  <2>2. \A p \in P : rpc'[p] \in {"wait_in", "write", "wait_out"} => rpc'[p] = rpc[p] /\ dec'[p] = dec[p]
    <3>1. CASE RSplit \/ RCreate \/ RDefine \/ RClose \/ \E S \in NodesOfP : RBcast(S) \/ ROpen(S)
      BY <3>1 DEF RSplit, RCreate, RDefine, RClose, RBcast, ROpen, RGo
    <3>2. CASE \E S \in NodesOfP : ReadDecomp(S)
      <4>1. PICK S \in NodesOfP : ReadDecomp(S)
        BY <3>2
      <4>2. \A p \in P : p \notin S => rpc'[p] = rpc[p] /\ dec'[p] = dec[p]
        BY <4>1 DEF ReadDecomp
      <4>3. \A p \in P : p \in S => rpc'[p] \in {"define", "failed", "blocked"}
        BY <4>1 DEF ReadDecomp
      <4> QED
        BY <4>2, <4>3
    <3> QED
      BY <1>2, <3>1, <3>2
  <2>3. ASSUME NEW p \in P, rpc'[p] \in {"wait_in", "write", "wait_out"}
        PROVE  /\ DOMAIN buf'[p] \subseteq Nat
               /\ rpc'[p] = "wait_in" => igets'[p] = Gets(p)'
               /\ rpc'[p] \in {"write", "wait_out"} => Loaded(p)'
               /\ rpc'[p] = "wait_out" => iputs'[p] = Puts(p)'
    BY <1>1, <2>1, <2>2, <2>3
  <2> QED
    BY <1>0, <2>1, <2>3 DEF Transfers
<1>3. ASSUME NEW o \in P, PostReads(o) PROVE Transfers'
  <2>1. /\ \A p \in P : rpc'[p] = IF p = o THEN "wait_in" ELSE rpc[p]
        /\ igets' = [igets EXCEPT ![o] = Gets(o)]
        /\ UNCHANGED <<krec, dec, buf, iputs>>
    BY <1>3 DEF PostReads, RGo, Gets
  <2>2. Gets(o)' = Gets(o)
    BY <1>0, <2>1, RequestsStay
  <2>3. \A p \in P : p # o => igets'[p] = igets[p]
    BY <2>1
  <2>4. ASSUME NEW p \in P, p # o
        PROVE  /\ DOMAIN buf'[p] \subseteq Nat
               /\ rpc'[p] = "wait_in" => igets'[p] = Gets(p)'
               /\ rpc'[p] \in {"write", "wait_out"} => Loaded(p)'
               /\ rpc'[p] = "wait_out" => iputs'[p] = Puts(p)'
    BY <1>1, <2>1, <2>3, <2>4
  <2>5. igets'[o] = Gets(o)' /\ DOMAIN buf'[o] \subseteq Nat /\ rpc'[o] = "wait_in"
    BY <2>1, <2>2 DEF Transfers
  <2>6. DOMAIN buf' = P /\ DOMAIN igets' = P /\ DOMAIN iputs' = P
    BY <2>1 DEF Transfers
  <2> QED
    BY <1>0, <2>4, <2>5, <2>6 DEF Transfers
<1>4. ASSUME NEW S \in NodesOfP, WaitReads(S) PROVE Transfers'
  <2>1. /\ \A p \in S : rpc[p] = "wait_in" /\ p \in P
        /\ \A p \in P : rpc'[p] = IF p \in S THEN "write" ELSE rpc[p]
        /\ \A p \in P : p \notin S => buf'[p] = buf[p] /\ igets'[p] = igets[p]
        /\ DOMAIN buf' = P /\ DOMAIN igets' = P
        /\ UNCHANGED <<krec, dec, iputs>>
    BY <1>0, <1>4 DEF WaitReads, RGo, RAt
  <2>2. ASSUME NEW p \in P, p \notin S
        PROVE  /\ DOMAIN buf'[p] \subseteq Nat
               /\ rpc'[p] = "wait_in" => igets'[p] = Gets(p)'
               /\ rpc'[p] \in {"write", "wait_out"} => Loaded(p)'
               /\ rpc'[p] = "wait_out" => iputs'[p] = Puts(p)'
    BY <1>1, <2>1, <2>2
  <2>3. ASSUME NEW p \in S
        PROVE  rpc'[p] = "write" /\ DOMAIN buf'[p] \subseteq Nat /\ Loaded(p)'
    <3>1. /\ DOMAIN buf'[p] \subseteq Nat
          /\ \A v \in Copied(p) : \A i \in 0 .. Length(p, v) - 1 :
               buf'[p][Before(p, v) + i] = Datum(p, v, i)
      BY <1>4, ReadsLoad
    <3>2. /\ Copied(p)' = Copied(p)
          /\ \A v : /\ Length(p, v)' = Length(p, v) /\ Before(p, v)' = Before(p, v)
                    /\ \A i : Datum(p, v, i)' = Datum(p, v, i)
      BY <1>0, <2>1, RequestsStay
    <3>3. Loaded(p)'
      BY <3>1, <3>2 DEF Loaded, LoadedVar
    <3> QED
      BY <2>1, <3>1, <3>3
  <2>4. DOMAIN iputs' = P
    BY <2>1 DEF Transfers
  <2> QED
    BY <1>0, <2>1, <2>2, <2>3, <2>4 DEF Transfers
<1>5. ASSUME NEW o \in P, PostWrites(o) PROVE Transfers'
  <2>1. /\ rpc[o] = "write"
        /\ \A p \in P : rpc'[p] = IF p = o THEN "wait_out" ELSE rpc[p]
        /\ iputs' = [iputs EXCEPT ![o] = Puts(o)]
        /\ UNCHANGED <<krec, dec, buf, igets>>
    BY <1>5 DEF PostWrites, RGo, Puts
  <2>2. /\ Copied(o)' = Copied(o)
        /\ \A v : /\ Length(o, v)' = Length(o, v) /\ Before(o, v)' = Before(o, v)
                  /\ \A i : Datum(o, v, i)' = Datum(o, v, i)
        /\ Puts(o)' = Puts(o)
    BY <1>0, <2>1, RequestsStay
  <2>3. \A p \in P : p # o => iputs'[p] = iputs[p]
    BY <2>1
  <2>4. ASSUME NEW p \in P, p # o
        PROVE  /\ DOMAIN buf'[p] \subseteq Nat
               /\ rpc'[p] = "wait_in" => igets'[p] = Gets(p)'
               /\ rpc'[p] \in {"write", "wait_out"} => Loaded(p)'
               /\ rpc'[p] = "wait_out" => iputs'[p] = Puts(p)'
    BY <1>1, <2>1, <2>3, <2>4
  <2>5. Loaded(o)'
    <3>1. Loaded(o)
      BY <2>1 DEF Transfers
    <3> QED
      BY <2>1, <2>2, <3>1 DEF Loaded, LoadedVar
  <2>6. iputs'[o] = Puts(o)' /\ DOMAIN buf'[o] \subseteq Nat /\ rpc'[o] = "wait_out"
    BY <2>1, <2>2 DEF Transfers
  <2>7. DOMAIN buf' = P /\ DOMAIN igets' = P /\ DOMAIN iputs' = P
    BY <2>1 DEF Transfers
  <2> QED
    BY <1>0, <2>4, <2>5, <2>6, <2>7 DEF Transfers
<1>6. CASE WaitWrites
  <2>1. /\ UNCHANGED <<buf, igets>> /\ DOMAIN iputs' = P
        /\ \A p \in P : rpc'[p] \in {"close", "read"}
    BY <1>0, <1>6 DEF WaitWrites, RGo
  <2> QED
    BY <1>0, <2>1 DEF Transfers
<1> QED
  BY <1>2, <1>3, <1>4, <1>5, <1>6 DEF NextReplay

-----------------------------------------------------------------------------
(* The output file of the replay.                                          *)

\* The cells that process p writes of variable v in record k.
ProcessCells(p, v, k) ==
  IF Vars[v].decomp = 0 THEN IF p = 0 THEN {<<v, k, <<>> >>} ELSE {}
  ELSE {<<v, k, CellsBy(Vars[v].decomp, Source(p))[i]>> : i \in 1 .. CountOf(Vars[v].decomp, Source(p))}

\* The records that have been copied.
Past(v, k) == rpc[0] \in Ending \/ IF Vars[v].rec THEN k < krec[0] ELSE krec[0] >= 0

Right(f) == /\ f = [c \in DOMAIN f |-> f[c]]
            /\ \A c \in DOMAIN f : c \in DOMAIN Want /\ f[c] = Want[c]

Filed ==
  layout = "blob" =>
    /\ Right(file)
    /\ \A v \in DOMAIN Vars : \A k \in RecordsOf(v) :
         Past(v, k) => \A p \in P : ProcessCells(p, v, k) \subseteq DOMAIN file

\* One flush of all processes.
LEMMA WritesStore ==
  ASSUME Metadata, Control, Decoding, Transfers, Right(file), WaitWrites
  PROVE  /\ Right(file')
         /\ DOMAIN file \subseteq DOMAIN file'
         /\ \A p \in P : \A v \in Copied(p) : ProcessCells(p, v, Record(p)) \subseteq DOMAIN file'
<1> DEFINE Q == UNION {DataOf(p) : p \in P}
           w(p, v) == [var |-> v, rec |-> Record(p), at |-> Before(p, v)]
           C(p, v) == CellsTo(w(p, v), p)
<1>1. ASSUME NEW p \in P
      PROVE  /\ rpc[p] = "wait_out" /\ rpc[p] \in Decoded
             /\ Source(p) \in Rank /\ dec[p] = DecOf(Source(p))
             /\ iputs[p] = {w(p, v) : v \in Copied(p)} /\ Loaded(p)
  <2>1. rpc[p] = "wait_out" /\ rpc[p] \in Decoded
    BY DEF WaitWrites, RAt, Decoded, Shaped, Copying
  <2> QED
    BY <2>1 DEF Decoding, Transfers, Puts
\* What one request writes.
<1>2. ASSUME NEW p \in P, NEW v \in Copied(p)
      PROVE  /\ v \in DOMAIN Vars /\ Record(p) \in RecordsOf(v)
             /\ DOMAIN C(p, v) = 1 .. Length(p, v) /\ Length(p, v) \in Nat
             /\ ProcessCells(p, v, Record(p)) = {<<v, Record(p), C(p, v)[j]>> : j \in 1 .. Length(p, v)}
             /\ \A j \in 1 .. Length(p, v) :
                  /\ <<v, Record(p), C(p, v)[j]>> \in DOMAIN Want
                  /\ buf[p][Before(p, v) + j - 1] = Want[<<v, Record(p), C(p, v)[j]>>]
  <2> DEFINE q == Source(p)
             k == Record(p)
             d == Vars[v].decomp
  <2>1. v \in DOMAIN Vars /\ k \in RecordsOf(v)
    BY RecordIs
  <2>2. /\ d = 0 => Length(p, v) = 1
        /\ d # 0 => /\ d \in Decomp /\ Length(p, v) = CountOf(d, q) /\ dec[p][d] = DecOf(q)[d]
        /\ Length(p, v) \in Nat /\ Before(p, v) \in Nat
    BY <1>1, BufferIs
  <2>3. ASSUME NEW j \in 1 .. Length(p, v)
        PROVE  buf[p][Before(p, v) + j - 1] = Datum(p, v, j - 1)
    <3>1. j - 1 \in 0 .. Length(p, v) - 1 /\ Before(p, v) + j - 1 = Before(p, v) + (j - 1)
      BY <2>2
    <3>2. \A i \in 0 .. Length(p, v) - 1 : buf[p][Before(p, v) + i] = Datum(p, v, i)
      BY <1>1 DEF Loaded, LoadedVar
    <3>3. buf[p][Before(p, v) + (j - 1)] = Datum(p, v, j - 1)
      BY ONLY <3>1, <3>2
    <3> QED
      BY ONLY <3>1, <3>3
  <2>4. w(p, v).var = v
    OBVIOUS
  <2>5. CASE d = 0
    <3>1. C(p, v) = << <<>> >>
      BY <2>4, <2>5 DEF CellsTo
    <3>2. DOMAIN C(p, v) = 1 .. 1 /\ C(p, v)[1] = <<>>
      BY <3>1
    <3>3. <<v, k, <<>> >> \in DOMAIN Want /\ Want[<<v, k, <<>> >>] = <<v, k, 0>>
      BY <2>1, <2>5, WantIs
    <3>4. \A i : Datum(p, v, i) = <<v, k, 0>>
      BY <2>5 DEF Datum
    <3>5. Vars[v].decomp > 0 \/ p = 0
      BY DEF Copied
    <3>6. p = 0
      BY <2>5, <3>5
    <3>7. ProcessCells(p, v, k) = {<<v, k, <<>> >>}
      BY <2>5, <3>6 DEF ProcessCells
    <3>8. Length(p, v) = 1
      BY <2>2, <2>5
    <3> HIDE DEF C, k
    <3>9. {<<v, k, C(p, v)[j]>> : j \in 1 .. Length(p, v)} = {<<v, k, <<>> >>}
      BY <3>2, <3>8
    <3>10. \A j \in 1 .. Length(p, v) : C(p, v)[j] = <<>>
      BY <3>2, <3>8
    <3> QED
      BY <2>1, <2>3, <3>2, <3>3, <3>4, <3>7, <3>8, <3>9, <3>10 DEF k
  <2>6. CASE d # 0
    <3>1. d \in Decomp /\ Length(p, v) = CountOf(d, q) /\ dec[p][d] = DecOf(q)[d]
      BY <2>2, <2>6
    <3>2. dec[p][d].starts = Starts(Reqs[d][q], Dims[d]) /\ dec[p][d].pairs = Reqs[d][q]
      BY <3>1 DEF DecOf
    <3>3. C(p, v) = CellsBy(d, q)
      BY <2>4, <2>6, <3>2 DEF CellsTo, CellsBy
    <3>4. DOMAIN CellsBy(d, q) = 1 .. CountOf(d, q) /\ CountOf(d, q) \in Nat
      BY <1>1, <3>1, OwnedCells
    <3>5. ASSUME NEW j \in 1 .. CountOf(d, q)
          PROVE  /\ <<v, k, CellsBy(d, q)[j]>> \in DOMAIN Want
                 /\ Want[<<v, k, CellsBy(d, q)[j]>>] = <<v, k, Elements(Reqs[d][q])[j]>>
      BY <1>1, <2>1, <2>6, WantIs
    <3>6. ASSUME NEW j \in 1 .. CountOf(d, q)
          PROVE  Datum(p, v, j - 1) = <<v, k, Elements(Reqs[d][q])[j]>>
      <4>1. j - 1 + 1 = j
        BY <3>4
      <4> QED
        BY <2>6, <4>1 DEF Datum
    <3>7. ProcessCells(p, v, k) = {<<v, k, CellsBy(d, q)[i]>> : i \in 1 .. CountOf(d, q)}
      BY <2>6 DEF ProcessCells
    <3> HIDE DEF C, k, d, q
    <3>8. ASSUME NEW j \in 1 .. Length(p, v)
          PROVE  /\ <<v, k, C(p, v)[j]>> \in DOMAIN Want
                 /\ buf[p][Before(p, v) + j - 1] = Want[<<v, k, C(p, v)[j]>>]
      BY <2>3, <3>1, <3>3, <3>5, <3>6
    <3>9. ProcessCells(p, v, k) = {<<v, k, C(p, v)[j]>> : j \in 1 .. Length(p, v)}
      BY <3>1, <3>3, <3>7
    <3>10. DOMAIN C(p, v) = 1 .. Length(p, v) /\ Length(p, v) \in Nat
      BY <3>1, <3>3, <3>4
    <3> QED
      BY <2>1, <3>8, <3>9, <3>10 DEF k
  <2> QED
    BY <2>5, <2>6
<1>3. \A p \in P : \A v : w(p, v).var = v /\ w(p, v).rec = Record(p) /\ w(p, v).at = Before(p, v)
  OBVIOUS
<1>4. file' = Over(Put(Q), file)
  BY DEF WaitWrites
<1>5. \A p \in P : DataOf(p) = UNION {{<< <<x.var, x.rec, CellsTo(x, p)[j]>>, buf[p][x.at + j - 1] >> :
                                         j \in DOMAIN CellsTo(x, p)} : x \in iputs[p]}
  BY DEF DataOf
<1> HIDE DEF w
<1>6. ASSUME NEW x \in Q
      PROVE  \E p \in P : \E v \in Copied(p) : \E j \in 1 .. Length(p, v) :
               x = << <<v, Record(p), C(p, v)[j]>>, buf[p][Before(p, v) + j - 1] >>
  <2>1. PICK p \in P : x \in DataOf(p)
    OBVIOUS
  <2>2. PICK y \in iputs[p] : x \in {<< <<y.var, y.rec, CellsTo(y, p)[j]>>, buf[p][y.at + j - 1] >> :
                                         j \in DOMAIN CellsTo(y, p)}
    BY <1>5, <2>1
  <2>3. PICK v \in Copied(p) : y = w(p, v)
    BY <1>1, <2>2
  <2>4. PICK j \in DOMAIN CellsTo(y, p) :
          x = << <<y.var, y.rec, CellsTo(y, p)[j]>>, buf[p][y.at + j - 1] >>
    BY <2>2
  <2>5. j \in 1 .. Length(p, v)
    BY <1>2, <2>3, <2>4
  <2> QED
    BY <1>3, <2>3, <2>4, <2>5
<1>7. ASSUME NEW p \in P, NEW v \in Copied(p), NEW j \in 1 .. Length(p, v)
      PROVE  << <<v, Record(p), C(p, v)[j]>>, buf[p][Before(p, v) + j - 1] >> \in Q
  <2> DEFINE y == w(p, v)
  <2>1. y \in iputs[p] /\ j \in DOMAIN CellsTo(y, p)
    BY <1>1, <1>2
  <2>2. << <<y.var, y.rec, CellsTo(y, p)[j]>>, buf[p][y.at + j - 1] >> \in DataOf(p)
    BY <1>5, <2>1
  <2> QED
    BY <1>3, <2>2
<1>8. ASSUME NEW x \in Q PROVE x[1] \in DOMAIN Want /\ x[2] = Want[x[1]]
  <2>1. PICK p \in P : \E v \in Copied(p) : \E j \in 1 .. Length(p, v) :
          x = << <<v, Record(p), C(p, v)[j]>>, buf[p][Before(p, v) + j - 1] >>
    BY <1>6
  <2>2. PICK v \in Copied(p) : \E j \in 1 .. Length(p, v) :
          x = << <<v, Record(p), C(p, v)[j]>>, buf[p][Before(p, v) + j - 1] >>
    BY <2>1
  <2>3. PICK j \in 1 .. Length(p, v) :
          x = << <<v, Record(p), C(p, v)[j]>>, buf[p][Before(p, v) + j - 1] >>
    BY <2>2
  <2>4. x[1] = <<v, Record(p), C(p, v)[j]>> /\ x[2] = buf[p][Before(p, v) + j - 1]
    BY <2>3
  <2>5. /\ <<v, Record(p), C(p, v)[j]>> \in DOMAIN Want
        /\ buf[p][Before(p, v) + j - 1] = Want[<<v, Record(p), C(p, v)[j]>>]
    BY <1>2
  <2>6. Want[x[1]] = Want[<<v, Record(p), C(p, v)[j]>>]
    BY ONLY <2>4
  <2>7. x[2] = Want[x[1]]
    BY ONLY <2>4, <2>5, <2>6
  <2> QED
    BY ONLY <2>4, <2>5, <2>7
<1> HIDE DEF Q
<1>9. \A x, y \in Q : x[1] = y[1] => x[2] = y[2]
  BY <1>8
<1>10. /\ DOMAIN file' = DOMAIN Put(Q) \cup DOMAIN file
       /\ \A c \in DOMAIN Put(Q) : file'[c] = Put(Q)[c]
       /\ \A c \in DOMAIN file : c \notin DOMAIN Put(Q) => file'[c] = file[c]
  BY <1>4 DEF Over
<1>11. file' = [c \in DOMAIN file' |-> file'[c]]
  BY <1>4 DEF Over
<1>12. ASSUME NEW c \in DOMAIN file' PROVE c \in DOMAIN Want /\ file'[c] = Want[c]
  <2>1. CASE c \in DOMAIN Put(Q)
    <3>1. PICK x \in Q : x[1] = c
      BY <2>1, PutFrom
    <3>2. Put(Q)[x[1]] = x[2]
      BY <1>9, PutAt
    <3>3. x[1] \in DOMAIN Want /\ x[2] = Want[x[1]]
      BY <1>8
    <3>4. file'[c] = Put(Q)[c]
      BY <1>10, <2>1
    <3>5. Put(Q)[x[1]] = Put(Q)[c] /\ Want[x[1]] = Want[c]
      BY ONLY <3>1
    <3> QED
      BY ONLY <3>1, <3>2, <3>3, <3>4, <3>5
  <2>2. CASE c \notin DOMAIN Put(Q)
    <3>1. c \in DOMAIN file /\ file'[c] = file[c]
      BY <1>10, <2>2
    <3>2. \A x \in DOMAIN file : x \in DOMAIN Want /\ file[x] = Want[x]
      BY DEF Right
    <3> QED
      BY ONLY <3>1, <3>2
  <2> QED
    BY <2>1, <2>2
<1>13. ASSUME NEW p \in P, NEW v \in Copied(p), NEW c \in ProcessCells(p, v, Record(p))
       PROVE  c \in DOMAIN file'
  <2>1. PICK j \in 1 .. Length(p, v) : c = <<v, Record(p), C(p, v)[j]>>
    BY <1>2
  <2> DEFINE x == << <<v, Record(p), C(p, v)[j]>>, buf[p][Before(p, v) + j - 1] >>
  <2>2. x \in Q /\ x[1] = c
    BY <1>7, <2>1
  <2> HIDE DEF x
  <2>3. x[1] \in DOMAIN Put(Q)
    BY <1>9, <2>2, PutAt
  <2> QED
    BY <1>10, <2>2, <2>3
<1> QED
  BY <1>10, <1>11, <1>12, <1>13 DEF Right

LEMMA FiledStep ==
  ASSUME Metadata, Control, Decoding, Transfers, Filed, NextReplay
  PROVE  Filed'
<1>0. /\ 0 \in P /\ P' = P /\ UNCHANGED <<rplace, place, layout>>
  BY ProcessesAre, ReplayFrame DEF P, Control
<1>1. \A p \in P : \A v, k : ProcessCells(p, v, k)' = ProcessCells(p, v, k)
  <2>1. \A p : Source(p)' = Source(p)
    BY <1>0 DEF Source
  <2> QED
    BY <2>1 DEF ProcessCells
<1>2. SUFFICES ASSUME layout = "blob"
               PROVE  /\ Right(file')
                      /\ \A v \in DOMAIN Vars : \A k \in RecordsOf(v) :
                           Past(v, k)' => \A p \in P : ProcessCells(p, v, k) \subseteq DOMAIN file'
  BY <1>0, <1>1 DEF Filed, Right
<1>3. /\ Right(file)
      /\ \A v \in DOMAIN Vars : \A k \in RecordsOf(v) :
           Past(v, k) => \A p \in P : ProcessCells(p, v, k) \subseteq DOMAIN file
  BY <1>2 DEF Filed
<1>4. CASE WaitWrites
  <2>1. /\ Right(file') /\ DOMAIN file \subseteq DOMAIN file'
        /\ \A p \in P : \A v \in Copied(p) : ProcessCells(p, v, Record(p)) \subseteq DOMAIN file'
    BY <1>3, <1>4, WritesStore
  <2>2. /\ rpc[0] = "wait_out" /\ krec[0] \in -1 .. NRecs - 1 /\ NRecs \in Nat
        /\ \A p \in P : krec[p] = krec[0] /\ Record(p) = Record(0)
        /\ krec'[0] = IF krec[0] = NRecs - 1 THEN krec[0] ELSE krec[0] + 1
        /\ rpc'[0] = IF krec[0] = NRecs - 1 THEN "close" ELSE "read"
    BY <1>0, <1>4, SubFilesAssumption DEF WaitWrites, RAt, RGo, Control, Record
  <2>3. ASSUME NEW v \in DOMAIN Vars, NEW k \in RecordsOf(v), Past(v, k)', ~Past(v, k)
        PROVE  (Vars[v].rec <=> krec[0] >= 0) /\ k = Record(0)
    <3>1. Vars[v].rec \in BOOLEAN /\ (IF Vars[v].rec THEN k \in 0 .. NRecs - 1 ELSE k = 0)
      BY VarIs DEF RecordsOf, Steps
    <3>2. "read" \notin Ending
      BY DEF Ending
    <3>3. IF Vars[v].rec THEN ~(k < krec[0]) ELSE ~(krec[0] >= 0)
      BY <2>3 DEF Past
    <3>4. krec[0] = NRecs - 1 \/ IF Vars[v].rec THEN k < krec[0] + 1 ELSE krec[0] + 1 >= 0
      BY <2>2, <2>3, <3>2 DEF Past
    <3> QED
      BY <2>2, <3>1, <3>3, <3>4 DEF Record
  <2>4. ASSUME NEW v \in DOMAIN Vars, NEW k \in RecordsOf(v), Past(v, k)', NEW p \in P
        PROVE  ProcessCells(p, v, k) \subseteq DOMAIN file'
    <3>1. CASE Past(v, k)
      BY <1>3, <2>1, <3>1
    <3>2. CASE ~Past(v, k) /\ v \in Copied(p)
      BY <2>1, <2>2, <2>3, <2>4, <3>2
    <3>3. CASE ~Past(v, k) /\ v \notin Copied(p)
      <4>1. Vars[v].rec <=> krec[p] >= 0
        BY <2>2, <2>3, <2>4, <3>3
      <4>2. Vars[v].decomp = 0 /\ p # 0
        BY <3>3, <4>1, VarIs DEF Copied
      <4> QED
        BY <4>2 DEF ProcessCells
    <3> QED
      BY <3>1, <3>2, <3>3
  <2> QED
    BY <2>1, <2>4
<1>5. CASE ~WaitWrites
  <2>1. UNCHANGED file
    BY <1>5, ReplayFrame
  <2>2. UNCHANGED krec
    BY <1>5 DEF NextReplay, RSplit, RCreate, RDefine, RClose, RBcast, ROpen, ReadDecomp, WaitReads,
                PostReads, PostWrites
  <2>3. rpc'[0] \in Ending => rpc[0] \in Ending
    <3>1. CASE RClose
      BY <1>0, <3>1 DEF RClose, RAt, Ending
    <3>2. CASE RSplit \/ RCreate \/ RDefine
      <4>1. rpc'[0] \in {"bcast", "decomp", "read"}
        BY <1>0, <3>2 DEF RSplit, RCreate, RDefine, RGo
      <4> QED
        BY <4>1 DEF Ending
    <3>3. CASE \E S \in NodesOfP : RBcast(S) \/ ROpen(S) \/ WaitReads(S)
      <4>1. rpc'[0] \in {"open", "create", "aborted", "write", rpc[0]}
        BY <1>0, <3>3 DEF RBcast, ROpen, WaitReads, RGo
      <4> QED
        BY <4>1 DEF Ending
    <3>4. CASE \E S \in NodesOfP : ReadDecomp(S)
      <4>1. rpc'[0] \in {"define", "failed", "blocked", rpc[0]}
        BY <1>0, <3>4 DEF ReadDecomp
      <4> QED
        BY <4>1 DEF Ending
    <3>5. CASE \E p \in P : PostReads(p) \/ PostWrites(p)
      <4>1. rpc'[0] \in {"wait_in", "wait_out", rpc[0]}
        BY <1>0, <3>5 DEF PostReads, PostWrites, RGo
      <4> QED
        BY <4>1 DEF Ending
    <3> QED
      BY <1>5, <3>1, <3>2, <3>3, <3>4, <3>5 DEF NextReplay
  <2>4. \A v \in DOMAIN Vars : \A k : Past(v, k)' => Past(v, k)
    BY <2>2, <2>3 DEF Past
  <2> QED
    BY <1>3, <2>1, <2>4 DEF Right
<1> QED
  BY <1>4, <1>5

-----------------------------------------------------------------------------
(* The invariant of both programs.                                         *)

RInv == /\ Metadata /\ Stores /\ Control /\ RNumbers
        /\ Decoding /\ Shapes /\ Transfers /\ Filed

LEMMA RInvInit == Init => RInv
<1> SUFFICES ASSUME Init PROVE RInv
  OBVIOUS
<1>1. Metadata /\ Stores /\ Control /\ RNumbers /\ Transfers
  BY MetadataInit, StoresInit, ControlInit, TransfersInit DEF Init
<1>2. /\ \A p \in P : rpc[p] = "split" /\ krec[p] = -1
      /\ file = <<>> /\ 0 \in P
  BY <1>1, ProcessesAre DEF Init, InitReplay, InitWrite, Control
<1>3. "split" \notin Decoded /\ "split" \notin Shaped /\ "split" \notin Ending
  BY DEF Decoded, Shaped, Copying, Ending
<1>4. Decoding /\ Shapes
  BY <1>2, <1>3 DEF Decoding, Shapes
<1>5. Right(file)
  <2>1. file = [c \in DOMAIN file |-> file[c]] /\ DOMAIN file = {}
    BY <1>2
  <2> QED
    BY <2>1 DEF Right
<1>6. \A v \in DOMAIN Vars : \A k \in RecordsOf(v) : ~Past(v, k)
  <2> SUFFICES ASSUME NEW v \in DOMAIN Vars, NEW k \in RecordsOf(v) PROVE ~Past(v, k)
    OBVIOUS
  <2>1. Vars[v].rec => k \in 0 .. NRecs - 1
    BY VarIs DEF RecordsOf, Steps
  <2>2. NRecs \in Nat
    BY SubFilesAssumption
  <2> QED
    BY <1>2, <1>3, <2>1, <2>2 DEF Past
<1> QED
  BY <1>1, <1>4, <1>5, <1>6 DEF RInv, Filed

\* The replay's part of it survives the steps of the writing ranks.
LEMMA RInvWrite ==
  ASSUME RInv, NextWrite, UNCHANGED rvars
  PROVE  Control' /\ RNumbers' /\ Decoding' /\ Shapes' /\ Transfers' /\ Filed'
<1>0. /\ \A p \in P : rpc[p] = "split" /\ rpc'[p] = "split"
      /\ UNCHANGED <<place, layout>> /\ P' = P
      /\ UNCHANGED <<rplace, rpc, rid, rnsub, dec, shape, krec, igets, buf, iputs, warned>>
  BY WriteFirst DEF RInv, rvars, P
<1>1. /\ "split" \notin Decoded /\ "split" \notin Shaped /\ "split" \notin Ending
      /\ "split" \notin Created /\ "split" \notin Opened /\ "split" \notin {"open"} \cup Opened
  BY DEF Opened, Created, Decoded, Shaped, Copying, Ending
<1>2. Control'
  BY <1>0, <1>1 DEF RInv, Control
<1>3. RNumbers'
  BY <1>0, <1>1 DEF RInv, RNumbers
<1>4. Decoding' /\ Shapes'
  BY <1>0, <1>1 DEF Decoding, Shapes
<1>5. Transfers'
  BY <1>0 DEF RInv, Transfers
<1>6. Filed'
  <2>1. layout = "blob" => UNCHANGED file
    BY DEF NextWrite, Split, Bcast, Scan, Calc, Post, FlushFile, FlushSubfile, Close
  <2>2. \A p, v, k : ProcessCells(p, v, k)' = ProcessCells(p, v, k)
    BY <1>0 DEF ProcessCells, Source
  <2>3. \A v, k : Past(v, k)' = Past(v, k)
    BY <1>0 DEF Past
  <2> QED
    BY <1>0, <2>1, <2>2, <2>3 DEF RInv, Filed, Right
<1> QED
  BY <1>2, <1>3, <1>4, <1>5, <1>6

LEMMA RInvNext == RInv /\ [Next]_vars => RInv'
<1> SUFFICES ASSUME RInv, [Next]_vars PROVE RInv'
  OBVIOUS
<1>1. Metadata' /\ Stores'
  BY MetadataNext, StoresNext DEF RInv
<1>2. CASE NextWrite /\ UNCHANGED rvars
  BY <1>1, <1>2, RInvWrite DEF RInv
<1>3. CASE NextReplay
  BY <1>1, <1>3, ControlStep, NumbersStep, DecodingStep, ShapesStep, TransfersStep, FiledStep DEF RInv
<1>4. CASE UNCHANGED vars
  <2>1. UNCHANGED <<layout, place, pc, subfile, file, rplace, rpc, rid, rnsub, dec, shape, krec, igets,
                    buf, iputs, warned>>
    BY <1>4 DEF vars, wvars, rvars
  <2>2. Control' /\ RNumbers'
    BY <2>1 DEF RInv, Control, RNumbers, P, Written, At
  <2>3. P' = P /\ \A p : Source(p)' = Source(p)
    BY <2>1 DEF P, Source
  <2>4. \A q : DecOf(q)' = DecOf(q)
    BY <2>1 DEF DecOf
  <2>5. Decoding' /\ Shapes'
    BY <2>1, <2>3, <2>4 DEF RInv, Decoding, Match, Shapes, ShapeIs
  <2>6. ASSUME NEW p \in P
        PROVE  Gets(p)' = Gets(p) /\ Puts(p)' = Puts(p) /\ (Loaded(p) => Loaded(p)')
    <3>1. /\ Copied(p)' = Copied(p)
          /\ \A v : /\ Length(p, v)' = Length(p, v) /\ Before(p, v)' = Before(p, v)
                    /\ \A i : Datum(p, v, i)' = Datum(p, v, i)
          /\ Gets(p)' = Gets(p) /\ Puts(p)' = Puts(p)
      BY <2>1, RequestsStay
    <3> QED
      BY <2>1, <3>1 DEF Loaded, LoadedVar
  <2>7. Transfers'
    BY <2>1, <2>3, <2>6 DEF RInv, Transfers
  <2>8. Filed'
    <3>1. \A p, v, k : ProcessCells(p, v, k)' = ProcessCells(p, v, k)
      BY <2>3 DEF ProcessCells
    <3>2. \A v, k : Past(v, k)' = Past(v, k)
      BY <2>1 DEF Past
    <3> QED
      BY <2>1, <2>3, <3>1, <3>2 DEF RInv, Filed, Right
  <2> QED
    BY <1>1, <2>2, <2>5, <2>7, <2>8 DEF RInv
<1> QED
  BY <1>2, <1>3, <1>4 DEF Next

LEMMA RInvType == RInv => TypeOK
<1> SUFFICES ASSUME RInv PROVE TypeOK
  OBVIOUS
<1>0. /\ place \in Placements /\ IsPlacement(place) /\ DOMAIN place = Rank /\ 0 \in Rank
      /\ layout \in {"canonical", "blob"}
  BY Given DEF RInv, Metadata
<1>1. \A r \in Rank : pc[r] \in {"calc", "split", "bcast", "scan", "post", "wait", "flushed", "closed"}
  BY <1>0 DEF RInv, Metadata
<1>2. DOMAIN subfile \subseteq Nat
  <2>1. \A r \in Rank : NodeID(place, r) \in Nat
    BY <1>0, NodeNumbers
  <2> QED
    BY <1>0, <2>1 DEF RInv, Stores, Flushed
<1>3. DOMAIN file \subseteq DOMAIN Want
  <2>1. CASE layout = "blob"
    BY <2>1 DEF RInv, Filed, Right
  <2>2. CASE layout = "canonical"
    <3>1. file = <<>> \/ file = Want
      BY <2>2 DEF RInv, Stores
    <3>2. DOMAIN <<>> = {}
      OBVIOUS
    <3> QED
      BY <3>1, <3>2
  <2> QED
    BY <1>0, <2>1, <2>2
<1>4. rplace \in Replays /\ krec \in [P -> -1 .. NRecs - 1] /\ \A p \in P : DOMAIN buf[p] \subseteq Nat
  BY DEF RInv, Control, Transfers
<1> QED
  BY <1>0, <1>1, <1>2, <1>3, <1>4 DEF TypeOK

LEMMA RInvComplete == RInv => CompleteOrWarned
<1> SUFFICES ASSUME RInv, Done, ~warned
             PROVE  /\ file = Want
                    /\ layout = "blob" => ShapeIs
  BY DEF CompleteOrWarned, ShapeIs
<1>0. /\ place \in Placements /\ IsPlacement(place) /\ DOMAIN place = Rank /\ 0 \in Rank
      /\ layout \in {"canonical", "blob"}
      /\ 0 \in P /\ IsPlacement(rplace) /\ DOMAIN rplace = P
  BY Given, ProcessesAre DEF RInv, Metadata, Control
<1>1. CASE layout = "canonical"
  <2>1. Flushed = Rank
    BY <1>1 DEF Done, Flushed, Written, At
  <2> QED
    BY <1>0, <1>1, <2>1 DEF RInv, Stores
<1>2. CASE layout = "blob"
  <2>1. \A p \in P : rpc[p] = "done" /\ rpc[p] \in Decoded /\ rpc[p] \in Shaped /\ rpc[p] \in Ending
                     /\ rpc[p] \in Created
    BY <1>2 DEF Done, RAt, Created, Decoded, Shaped, Ending
  <2>2. ShapeIs
    BY <1>0, <2>1 DEF RInv, Shapes
  <2>3. N = Cardinality(P)
    BY <1>0, <2>1 DEF RInv, RNumbers
  <2>4. \A p \in P : \E q \in Rank : Match(place, rplace, p, q)
    BY <2>1 DEF RInv, Decoding
  <2>5. ASSUME NEW r \in Rank PROVE \E p \in P : Source(p) = r
    <3>1. Cardinality(DOMAIN place) = Cardinality(DOMAIN rplace)
      BY <1>0, <2>3 DEF N
    <3>2. \A p \in DOMAIN rplace : \E q \in DOMAIN place : Match(place, rplace, p, q)
      BY <1>0, <2>4
    <3>3. r \in DOMAIN place
      BY <1>0
    <3>4. \E p \in DOMAIN rplace : Partner(place, rplace, p) = r
      BY ONLY <1>0, <3>1, <3>2, <3>3, PartnersOnto
    <3> QED
      BY <1>0, <3>4 DEF Source
  <2>6. Right(file) /\ \A v \in DOMAIN Vars : \A k \in RecordsOf(v) :
                         \A p \in P : ProcessCells(p, v, k) \subseteq DOMAIN file
    BY <1>0, <1>2, <2>1 DEF RInv, Filed, Past
  <2>7. ASSUME NEW c \in DOMAIN Want PROVE c \in DOMAIN file
    <3>1. PICK v \in DOMAIN Vars : \E k \in RecordsOf(v) :
             \/ Vars[v].decomp = 0 /\ c = <<v, k, <<>> >>
             \/ /\ Vars[v].decomp # 0
                /\ \E r \in Rank : \E i \in 1 .. CountOf(Vars[v].decomp, r) :
                     c = <<v, k, CellsBy(Vars[v].decomp, r)[i]>>
      BY WantFrom
    <3>2. PICK k \in RecordsOf(v) :
             \/ Vars[v].decomp = 0 /\ c = <<v, k, <<>> >>
             \/ /\ Vars[v].decomp # 0
                /\ \E r \in Rank : \E i \in 1 .. CountOf(Vars[v].decomp, r) :
                     c = <<v, k, CellsBy(Vars[v].decomp, r)[i]>>
      BY <3>1
    <3>3. CASE Vars[v].decomp = 0
      <4>1. c \in ProcessCells(0, v, k)
        BY <3>2, <3>3 DEF ProcessCells
      <4> QED
        BY <1>0, <2>6, <4>1
    <3>4. CASE Vars[v].decomp # 0
      <4>1. PICK r \in Rank : \E i \in 1 .. CountOf(Vars[v].decomp, r) :
                                c = <<v, k, CellsBy(Vars[v].decomp, r)[i]>>
        BY <3>2, <3>4
      <4>2. PICK p \in P : Source(p) = r
        BY <2>5
      <4>3. c \in ProcessCells(p, v, k)
        BY <3>4, <4>1, <4>2 DEF ProcessCells
      <4> QED
        BY <2>6, <4>3
    <3> QED
      BY <3>3, <3>4
  <2>8. file = Want
    <3>1. DOMAIN file = DOMAIN Want
      <4>1. DOMAIN file \subseteq DOMAIN Want /\ DOMAIN Want \subseteq DOMAIN file
        BY <2>6, <2>7 DEF Right
      <4> QED
        BY <4>1
    <3>2. \A c \in DOMAIN file : file[c] = Want[c]
      BY <2>6 DEF Right
    <3>3. file = [c \in DOMAIN file |-> file[c]]
      BY <2>6 DEF Right
    <3>4. Want = [c \in DOMAIN Want |-> Want[c]]
      BY DEF Want
    <3>5. [c \in DOMAIN file |-> file[c]] = [c \in DOMAIN Want |-> Want[c]]
      BY <3>1, <3>2
    <3> QED
      BY ONLY <3>3, <3>4, <3>5
  <2> QED
    BY <2>2, <2>8
<1> QED
  BY <1>0, <1>1, <1>2

\* The types of the two programs' variables: ranks are in a phase of their
\* layout, what is in the file belongs there, and no process copies a record
\* that there is not.
THEOREM ReplayTypes == Spec => []TypeOK
  BY RInvInit, RInvNext, RInvType, PTL DEF Spec

\* A replay that ends without a warning leaves the file that canonical I/O
\* would have written, in the shape of the case, whatever the placements of
\* the ranks and the processes (main() of pnetcdf_blob_replay.c).
THEOREM ReplayComplete == Spec => []CompleteOrWarned
  BY RInvInit, RInvNext, RInvComplete, PTL DEF Spec

-----------------------------------------------------------------------------
(* The refinement.                                                         *)

\* The replay goes on until the output file is closed.
LEMMA ReplayEnds ==
  ASSUME Control, NextReplay
  PROVE  /\ layout = "blob" /\ ~Done
         /\ Done' => RClose
<1>0. /\ 0 \in P /\ P' = P /\ UNCHANGED layout
      /\ \A S \in NodesOfP : S \subseteq P /\ S # {}
  BY ProcessesAre, ReplayFrame DEF P, Control
<1>1. ASSUME NEW p \in P, rpc[p] # "done", rpc[p] # "split" \/ (layout = "blob" /\ Written)
      PROVE  layout = "blob" /\ ~Done
  BY <1>1 DEF Control, Done, RAt
<1>2. ASSUME NEW p \in P, rpc'[p] # "done", layout = "blob"
      PROVE  ~Done'
  BY <1>0, <1>2 DEF Done, RAt
<1>3. CASE RSplit \/ RCreate \/ RDefine \/ WaitWrites \/ RClose
  <2>1. /\ rpc[0] \in {"split", "create", "define", "wait_out", "close"}
        /\ rpc[0] = "split" => layout = "blob" /\ Written
        /\ ~RClose => rpc'[0] \in {"bcast", "decomp", "read", "close"}
    BY <1>0, <1>3 DEF RSplit, RCreate, RDefine, WaitWrites, RClose, RAt, RGo
  <2> QED
    BY <1>0, <1>1, <1>2, <2>1
<1>4. CASE \E S \in NodesOfP : RBcast(S) \/ ROpen(S) \/ ReadDecomp(S) \/ WaitReads(S)
  <2>1. PICK S \in NodesOfP : RBcast(S) \/ ROpen(S) \/ ReadDecomp(S) \/ WaitReads(S)
    BY <1>4
  <2>2. PICK p \in S : p \in P
    BY <1>0
  <2>3. rpc[p] \in {"bcast", "open", "decomp", "wait_in"}
    BY <2>1, <2>2 DEF RBcast, ROpen, ReadDecomp, WaitReads, RAt
  <2>4. rpc'[p] \in {"open", "create", "aborted", "define", "failed", "blocked", "write"}
    <3>1. CASE RBcast(S) \/ ROpen(S) \/ WaitReads(S)
      BY <2>2, <3>1 DEF RBcast, ROpen, WaitReads, RGo
    <3>2. CASE ReadDecomp(S)
      BY <2>2, <3>2 DEF ReadDecomp
    <3> QED
      BY <2>1, <3>1, <3>2
  <2> QED
    BY <1>1, <1>2, <2>2, <2>3, <2>4
<1>5. CASE \E p \in P : PostReads(p) \/ PostWrites(p)
  <2>1. PICK p \in P : PostReads(p) \/ PostWrites(p)
    BY <1>5
  <2>2. rpc[p] \in {"read", "write"} /\ rpc'[p] \in {"wait_in", "wait_out"}
    BY <2>1 DEF PostReads, PostWrites, RGo
  <2> QED
    BY <1>1, <1>2, <2>1, <2>2
<1> QED
  BY <1>3, <1>4, <1>5 DEF NextReplay

LEMMA DoneIs == Done \in BOOLEAN /\ Done' \in BOOLEAN
  BY DEF Done, RAt, Written, At

\* A step of the writing ranks.
LEMMA WriteMaps ==
  ASSUME RInv, RInv', NextWrite, UNCHANGED rvars
  PROVE  \/ Canonical!Write \/ Canonical!Warn \/ Canonical!Close
         \/ UNCHANGED <<file, warned, Done>>
<1>0. /\ layout \in {"canonical", "blob"} /\ UNCHANGED <<layout, rpc, warned>> /\ P' = P
      /\ 0 \in Rank /\ place \in Placements
  <2>1. UNCHANGED <<rplace, rpc, warned>>
    BY DEF rvars
  <2>2. UNCHANGED layout
    BY WriteFirst DEF RInv
  <2>3. layout \in {"canonical", "blob"} /\ place \in Placements
    BY DEF RInv, Metadata
  <2>4. 0 \in Rank
    BY Given
  <2> QED
    BY <2>1, <2>2, <2>3, <2>4 DEF P
<1>1. CASE layout = "blob"
  <2>1. UNCHANGED file
    BY <1>1 DEF NextWrite, Split, Bcast, Scan, Calc, Post, FlushFile, FlushSubfile, Close
  <2>2. Done' = Done
    BY <1>0, <1>1 DEF Done, RAt
  <2> QED
    BY <1>0, <2>1, <2>2
<1>2. CASE layout = "canonical"
  <2>1. ~Done /\ Done' = Written'
    BY <1>0, <1>2, WriteOver DEF Done, RInv
  <2>2. CASE FlushFile
    <3>1. \A r \in Rank : pc[r] = "wait" /\ pc'[r] = "flushed"
      BY <2>2 DEF FlushFile, At, Go
    <3>2. Flushed = {} /\ ~Written'
      BY <1>0, <3>1 DEF Flushed, Written, At
    <3>3. file' = Want
      BY <2>2, FlushIsWant DEF RInv
    <3>4. file = <<>>
      BY <1>2, <3>2 DEF RInv, Stores
    <3>5. DOMAIN file \subseteq DOMAIN file'
      <4>1. DOMAIN <<>> = {}
        OBVIOUS
      <4> QED
        BY <3>4, <4>1
    <3>6. Done' = Done
      BY <2>1, <3>2, DoneIs
    <3> QED
      BY <1>0, <2>1, <3>3, <3>5, <3>6 DEF Canonical!Write
  <2>3. CASE ~FlushFile
    <3>1. UNCHANGED file
      BY <2>3 DEF NextWrite, Split, Bcast, Scan, Calc, Post, FlushSubfile, Close
    <3>2. CASE Written'
      <4>1. \A r \in Rank : pc'[r] = "closed"
        BY <3>2 DEF Written, At
      <4>2. Flushed' = Rank
        BY <4>1 DEF Flushed
      <4>3. file' = Want
        BY <1>0, <1>2, <4>2 DEF RInv, Stores
      <4>4. Done' = TRUE
        BY <2>1, <3>2, DoneIs
      <4> QED
        BY <1>0, <2>1, <3>1, <4>3, <4>4 DEF Canonical!Close
    <3>3. CASE ~Written'
      <4>1. Done' = Done
        BY <2>1, <3>3, DoneIs
      <4> QED
        BY <1>0, <3>1, <4>1
    <3> QED
      BY <3>2, <3>3
  <2> QED
    BY <2>2, <2>3
<1> QED
  BY <1>0, <1>1, <1>2

\* A step of the replaying processes.
LEMMA ReplayMaps ==
  ASSUME RInv, RInv', NextReplay
  PROVE  \/ Canonical!Write \/ Canonical!Warn \/ Canonical!Close
         \/ UNCHANGED <<file, warned, Done>>
<1>0. /\ layout = "blob" /\ ~Done /\ layout' = layout /\ P' = P /\ 0 \in P
      /\ Done' => RClose
      /\ ~WaitWrites => UNCHANGED file
  BY ReplayEnds, ReplayFrame, ProcessesAre DEF RInv, P, Control
<1>1. ~RClose => Done' = Done
  BY <1>0, DoneIs
<1>2. CASE WaitWrites
  <2>1. Right(file') /\ DOMAIN file \subseteq DOMAIN file'
    BY <1>0, <1>2, WritesStore DEF RInv, Filed
  <2>2. DOMAIN file' \subseteq DOMAIN Want /\ \A c \in DOMAIN file' : file'[c] = Want[c]
    BY <2>1 DEF Right
  <2>3. UNCHANGED warned /\ ~RClose
    BY <1>0, <1>2 DEF WaitWrites, RClose, RAt
  <2> QED
    BY <1>0, <1>1, <2>1, <2>2, <2>3 DEF Canonical!Write
<1>3. CASE RClose
  <2>1. UNCHANGED <<file, warned>>
    BY <1>3 DEF RClose, wvars
  <2>2. \A p \in P : rpc'[p] = "done"
    BY <1>3 DEF RClose, RGo
  <2>3. Done' = TRUE
    BY <1>0, <2>2 DEF Done, RAt
  <2>4. CompleteOrWarned'
    BY RInvComplete, PTL
  <2>5. file' = Want \/ warned'
    BY <2>3, <2>4 DEF CompleteOrWarned
  <2>6. file = Want \/ warned
    BY <2>1, <2>5
  <2> QED
    BY <1>0, <2>1, <2>3, <2>6 DEF Canonical!Close
<1>4. CASE RCreate
  <2>1. UNCHANGED file /\ ~RClose /\ rpc[0] = "create" /\ warned' = WarnOf(subfile[rid[0]].header)
    BY <1>0, <1>4 DEF RCreate, RClose, RAt, wvars
  <2>2. warned = FALSE
    <3>1. rpc[0] \notin Created
      BY <2>1, PhasesAre
    <3> QED
      BY <1>0, <3>1 DEF RInv, RNumbers
  <2>3. warned' \in BOOLEAN
    BY <2>1 DEF WarnOf
  <2>4. UNCHANGED Done
    BY <1>1, <2>1
  <2> HIDE DEF Done
  <2> QED
    BY <1>0, <2>1, <2>2, <2>3, <2>4 DEF Canonical!Warn
<1>5. CASE ~WaitWrites /\ ~RClose /\ ~RCreate
  <2>1. UNCHANGED warned
    BY <1>5 DEF NextReplay, RSplit, RDefine, RBcast, ROpen, ReadDecomp, WaitReads, PostReads, PostWrites
  <2> QED
    BY <1>0, <1>1, <1>5, <2>1
<1> QED
  BY <1>2, <1>3, <1>4, <1>5

\* Whether the ranks write one file or subfiles that are replayed: what is in
\* the output file is what was wanted there, it stays, and the file is closed
\* only when it is complete or the user was warned.
THEOREM ReplayIsCanonical == Spec => WritesCanonically
<1>1. Init => Canonical!Init
  <2> SUFFICES ASSUME Init PROVE Canonical!Init
    OBVIOUS
  <2>1. file = <<>> /\ ~warned /\ layout \in {"canonical", "blob"}
        /\ \A r \in Rank : pc[r] # "closed"
    BY DEF Init, InitWrite, InitReplay
  <2>2. 0 \in Rank /\ 0 \in P /\ \A p \in P : rpc[p] = "split"
    BY ControlInit, ProcessesAre, Given DEF Control, Init, InitReplay
  <2>3. ~Done
    BY <2>1, <2>2 DEF Done, RAt, Written, At
  <2> QED
    BY <2>1, <2>3 DEF Canonical!Init
<1>2. RInv /\ RInv' /\ [Next]_vars =>
        [Canonical!Write \/ Canonical!Warn \/ Canonical!Close]_(Canonical!vars)
  <2> SUFFICES ASSUME RInv, RInv', [Next]_vars
               PROVE  [Canonical!Write \/ Canonical!Warn \/ Canonical!Close]_(Canonical!vars)
    OBVIOUS
  <2>1. CASE UNCHANGED vars
    <3>1. UNCHANGED <<file, warned, layout, pc, rpc, rplace>>
      BY <2>1 DEF vars, wvars, rvars
    <3>2. UNCHANGED Done
      BY <3>1 DEF Done, Written, At, RAt, P
    <3> QED
      BY <3>1, <3>2 DEF Canonical!vars
  <2>2. CASE NextWrite /\ UNCHANGED rvars
    BY <2>2, WriteMaps DEF Canonical!vars
  <2>3. CASE NextReplay
    BY <2>3, ReplayMaps DEF Canonical!vars
  <2> QED
    BY <2>1, <2>2, <2>3 DEF Next
<1> QED
  BY <1>1, <1>2, RInvInit, RInvNext, PTL DEF Spec, WritesCanonically, Canonical!Spec
=============================================================================
