---------------------------- MODULE CaseFileProofs ---------------------------
(***************************************************************************)
(* For every map, number of records and flush frequency: the buffers of    *)
(* CaseFile suffice, what is looked up is in the file, what is read is     *)
(* what was written, partitioned variables have the shape of their         *)
(* decomposition, and the requests of a record ascend in memory.           *)
(*                                                                         *)
(* Everything a process goes through is a function of its parameters and   *)
(* of its place in the list: the lengths of the buffers are sums over the  *)
(* entries before it, and so are the pointers of the loops.  The           *)
(* invariant says which sums; it needs of the lists of variables only      *)
(* what Matched says, which is proved of all five pairs of lists first.    *)
(***************************************************************************)
EXTENDS CaseFile, PrefixSums

Ran(s) == {s[j] : j \in DOMAIN s}
Cases == {"F", "G", "I"}

-----------------------------------------------------------------------------
(* The operators of CaseFile. *)

\* A product of natural numbers is one.
LEMMA ProductNat ==
  ASSUME NEW s \in Seq(Nat)
  PROVE  Product(s) \in Nat
<1> DEFINE n == Len(s)
           F == [x \in (1 .. n) \X Nat |-> x[2] * s[x[1]]]
           G(f) == [k \in 0 .. Len(s) |-> IF k = 0 THEN 1 ELSE f[k - 1] * s[k]]
           product == CHOOSE f : f = G(f)
<1>1. n \in Nat /\ \A k \in 1 .. n : s[k] \in Nat
  OBVIOUS
<1>2. F \in [(1 .. n) \X Nat -> Nat]
  BY <1>1
<1>3. \A k \in 1 .. n : \A x \in Nat : F[<<k, x>>] = x * s[k]
  OBVIOUS
<1> HIDE DEF F
<1>4. PICK g : IsRecursion(g, 1, F, Nat, n)
  BY <1>1, <1>2, RecursionExists
<1>5. g \in [0 .. n -> Nat] /\ g[0] = 1
  BY <1>4 DEF IsRecursion
<1>6. \A k \in 1 .. n : g[k] = g[k - 1] * s[k]
  <2> TAKE k \in 1 .. n
  <2>1. k - 1 \in 0 .. n
    BY <1>1
  <2>2. g[k - 1] \in Nat
    BY <1>5, <2>1
  <2>3. g[k] = F[<<k, g[k - 1]>>]
    BY <1>4 DEF IsRecursion
  <2> QED
    BY <1>3, <2>2, <2>3
<1>7. g = G(g)
  BY <1>5, <1>6
<1> HIDE DEF n
<1>8. product = G(product)
  BY <1>7
<1> HIDE DEF product
<1>9. product[0] = 1 /\ \A k \in 1 .. Len(s) : product[k] = product[k - 1] * s[k]
  <2>1. \A k \in 0 .. Len(s) : product[k] = IF k = 0 THEN 1 ELSE product[k - 1] * s[k]
    <3> TAKE k \in 0 .. Len(s)
    <3>1. G(product)[k] = IF k = 0 THEN 1 ELSE product[k - 1] * s[k]
      OBVIOUS
    <3> QED
      BY ONLY <1>8, <3>1
  <2> HIDE DEF G
  <2> QED
    BY <1>1, <2>1 DEF n
<1>10. \A k \in Nat : k \in {j \in Nat : j <= Len(s) => product[j] \in Nat}
  <2> DEFINE S == {j \in Nat : j <= Len(s) => product[j] \in Nat}
  <2>1. 0 \in S
    BY <1>9
  <2>2. ASSUME NEW j \in Nat, j \in S PROVE j + 1 \in S
    <3> SUFFICES ASSUME j + 1 <= Len(s) PROVE product[j + 1] \in Nat
      OBVIOUS
    <3>1. j + 1 \in 1 .. Len(s) /\ product[j] \in Nat
      BY <1>1, <2>2 DEF n
    <3>2. product[j + 1] = product[(j + 1) - 1] * s[j + 1] /\ s[j + 1] \in Nat
      BY <1>1, <1>9, <3>1 DEF n
    <3>3. (j + 1) - 1 = j
      OBVIOUS
    <3> QED
      BY <3>1, <3>2, <3>3
  <2> HIDE DEF S
  <2>3. \A j \in Nat : j \in S
    BY <2>1, <2>2, SetInduction
  <2> QED
    BY <2>3 DEF S
<1>11. Product(s) = product[Len(s)]
  BY DEF Product, product
<1> QED
  BY <1>1, <1>10, <1>11 DEF n

\* The eight buffers, by their places in the block.
LEMMA BuffersIs ==
  /\ DOMAIN Buffers = 1 .. 8
  /\ \A k \in 1 .. 8 : Buffers[k] \in Buf /\ Position(Buffers[k]) = k
  /\ \A b \in Buf : Position(b) \in 1 .. 8 /\ Buffers[Position(b)] = b
  /\ \A b \in Buf : Size(b) \in Nat /\ b[1] \in {"fix", "rec"}
<1>1. DOMAIN Buffers = 1 .. 8
  BY DEF Buffers
<1>2. \A k \in 1 .. 8 : Buffers[k] \in Buf
  BY <1>1 DEF Buf
<1>3. \A j, k \in 1 .. 8 : Buffers[j] = Buffers[k] => j = k
  <2>1. /\ Buffers[1] = <<"fix", "char">> /\ Buffers[2] = <<"fix", "int">>
        /\ Buffers[3] = <<"fix", "double">> /\ Buffers[4] = <<"fix", "int64">>
        /\ Buffers[5] = <<"rec", "char">> /\ Buffers[6] = <<"rec", "int">>
        /\ Buffers[7] = <<"rec", "double">> /\ Buffers[8] = <<"rec", "int64">>
    BY DEF Buffers
  <2> QED
    BY <2>1
<1>4. \A b \in Buf : Position(b) \in 1 .. 8 /\ Buffers[Position(b)] = b
  BY <1>1 DEF Position, Buf
<1>5. \A k \in 1 .. 8 : Position(Buffers[k]) = k
  BY <1>2, <1>3, <1>4
<1>6. \A b \in Buf : Size(b) \in Nat /\ b[1] \in {"fix", "rec"}
  BY DEF Buf, Buffers, Size
<1> QED
  BY <1>1, <1>2, <1>4, <1>5, <1>6

\* Where the buffers end in the block.
Bytes(len) == [k \in 1 .. 8 |-> len[Buffers[k]] * Size(Buffers[k])]
Offset(len) == Prefix(Bytes(len), 8)

\* Where the parts of the one contiguous buffer start: sums of the lengths
\* before them.
LEMMA OffsetIs ==
  ASSUME NEW len \in [Buf -> Nat]
  PROVE  /\ Offset(len) \in [0 .. 8 -> Nat]
         /\ Offset(len)[0] = 0
         /\ \A k \in 1 .. 8 : Offset(len)[k] = Offset(len)[k - 1] + len[Buffers[k]] * Size(Buffers[k])
         /\ \A j, k \in 0 .. 8 : j <= k => Offset(len)[j] <= Offset(len)[k]
<1>1. Bytes(len) \in [1 .. 8 -> Nat]
  BY BuffersIs DEF Bytes
<1>2. IsPrefixSum(Offset(len), Bytes(len), 8)
  BY <1>1, PrefixExists DEF Offset
<1>3. \A j, k \in 0 .. 8 : j <= k => Offset(len)[j] <= Offset(len)[k]
  BY <1>1, PrefixGrows DEF Offset
<1> QED
  BY <1>2, <1>3 DEF IsPrefixSum, Bytes

\* A buffer's pointer in bytes, as an offset into the contiguous buffer.
LEMMA AddressIs ==
  ASSUME buflen \in [Buf -> Nat], NEW b \in Buf
  PROVE  Address(b) = Offset(buflen)[Position(b) - 1] + ptr[b] * Size(b)
<1> DEFINE G(f) == [k \in 0 .. Len(Buffers) |->
                      IF k = 0 THEN 0
                      ELSE f[k - 1] + buflen[Buffers[k]] * Size(Buffers[k])]
           end == CHOOSE f : f = G(f)
<1>1. Len(Buffers) = 8
  BY DEF Buffers
<1>2. Offset(buflen) = G(Offset(buflen))
  BY <1>1, OffsetIs
<1>3. end = G(end)
  BY <1>2
<1> HIDE DEF end
<1>4. end[0] = 0 /\ \A k \in 1 .. 8 : end[k] = end[k - 1] + buflen[Buffers[k]] * Size(Buffers[k])
  BY <1>1, <1>3
<1>5. \A k \in Nat : k \in {j \in Nat : j <= 8 => end[j] = Offset(buflen)[j]}
  <2> DEFINE S == {j \in Nat : j <= 8 => end[j] = Offset(buflen)[j]}
  <2>1. 0 \in S
    BY <1>4, OffsetIs
  <2>2. ASSUME NEW j \in Nat, j \in S PROVE j + 1 \in S
    <3> SUFFICES ASSUME j + 1 <= 8 PROVE end[j + 1] = Offset(buflen)[j + 1]
      OBVIOUS
    <3>1. j + 1 \in 1 .. 8 /\ end[j] = Offset(buflen)[j] /\ (j + 1) - 1 = j
      BY <2>2
    <3> QED
      BY <1>4, <3>1, OffsetIs
  <2> HIDE DEF S
  <2>3. \A j \in Nat : j \in S
    BY <2>1, <2>2, SetInduction
  <2> QED
    BY <2>3 DEF S
<1>6. Position(b) - 1 \in Nat /\ Position(b) - 1 <= 8
  BY BuffersIs
<1>7. Address(b) = end[Position(b) - 1] + ptr[b] * Size(b)
  BY DEF Address, end
<1> QED
  BY <1>5, <1>6, <1>7

-----------------------------------------------------------------------------
(* The shapes of the variables: dimensions, type in memory, decomposition.  *)

FShapes ==
  { << <<>>, "int", -1 >>, << <<>>, "double", -1 >>, << <<"lev">>, "double", -1 >>,
    << <<"ilev">>, "double", -1 >>, << <<"ncol">>, "double", 1 >>,
    << <<"ncol">>, "double", 0 >>, << <<"time", "chars">>, "char", -1 >>,
    << <<"time">>, "int", -1 >>, << <<"time">>, "double", -1 >>,
    << <<"time", "nbnd">>, "double", -1 >>, << <<"time", "ncol">>, "double", 1 >>,
    << <<"time", "lev", "ncol">>, "double", 2 >> }

GShapes ==
  { << <<"nEdges">>, "int", 1 >>, << <<"nEdges", "nVertLevels">>, "int", 3 >>,
    << <<"nCells", "nVertLevels">>, "int", 2 >>, << <<"nVertices", "nVertLevels">>, "int", 4 >>,
    << <<"nCells">>, "int", 0 >>, << <<"nCells">>, "double", 0 >>,
    << <<"nVertLevels">>, "double", -1 >>, << <<"time", "StrLen">>, "char", -1 >>,
    << <<"time">>, "double", -1 >>, << <<"time", "nCells">>, "double", 0 >>,
    << <<"time", "nCells", "nVertLevelsP1">>, "double", 5 >>,
    << <<"time", "nCells", "nVertLevels">>, "double", 2 >>,
    << <<"time", "nEdges", "nVertLevels">>, "double", 3 >>,
    << <<"time", "nVertices", "nVertLevels">>, "double", 4 >> }

IShapes ==
  { << <<"lat", "lon">>, "int", 0 >>, << <<"levgrnd">>, "double", -1 >>,
    << <<"levlak">>, "double", -1 >>, << <<"levdcmp">>, "double", -1 >>,
    << <<"lon">>, "double", -1 >>, << <<"lat">>, "double", -1 >>,
    << <<"lat", "lon">>, "double", 0 >>, << <<"levgrnd", "lat", "lon">>, "double", 1 >>,
    << <<"levlak", "lat", "lon">>, "double", 2 >>,
    << <<"time", "string_length">>, "char", -1 >>, << <<"time">>, "int", -1 >>,
    << <<"time", "hist_interval">>, "double", -1 >>, << <<"time">>, "double", -1 >>,
    << <<"time", "lat", "lon">>, "double", 0 >>,
    << <<"time", "levgrnd", "lat", "lon">>, "double", 1 >>,
    << <<"time", "levdcmp", "lat", "lon">>, "double", 1 >>,
    << <<"time", "levlak", "lat", "lon">>, "double", 2 >>,
    << <<"time", "ltype", "lat", "lon">>, "double", 3 >>,
    << <<"time", "natpft", "lat", "lon">>, "double", 4 >> }

Shapes == [F |-> FShapes, G |-> GShapes, I |-> IShapes]

\* The dimensions of one record.
Body(dims) == IF dims # <<>> /\ dims[1] = "time" THEN Tail(dims) ELSE dims

\* The dimensions of one record, by the number of dimensions.
LEMMA BodyIs ==
  /\ Body(<<>>) = <<>>
  /\ \A x : Body(<<x>>) = IF x = "time" THEN <<>> ELSE <<x>>
  /\ \A x, y : Body(<<x, y>>) = IF x = "time" THEN <<y>> ELSE <<x, y>>
  /\ \A x, y, z : Body(<<x, y, z>>) = IF x = "time" THEN <<y, z>> ELSE <<x, y, z>>
  /\ \A w, x, y, z : Body(<<w, x, y, z>>) = IF w = "time" THEN <<x, y, z>> ELSE <<w, x, y, z>>
  BY DEF Body

\* The dimensions of one record of a variable of the land case.
LEMMA GridBody ==
  \A x : Body(<<"time", x, "lat", "lon">>) = <<x, "lat", "lon">>
<1>1. \A w, x, y, z :
        Body(<<w, x, y, z>>) = IF w = "time" THEN <<x, y, z>> ELSE <<w, x, y, z>>
  BY BodyIs
<1>2. \A x, y, z : Body(<<"time", x, y, z>>) = <<x, y, z>>
  BY <1>1, Zenon
<1> QED
  BY <1>2, Zenon

\* The lengths of a list of dimensions, by the number of dimensions.
LEMMA LengthsIs ==
  /\ \A case : Lengths(case, <<>>) = <<>>
  /\ \A case, x : Lengths(case, <<x>>) = <<DimLen[case][x]>>
  /\ \A case, x, y : Lengths(case, <<x, y>>) = <<DimLen[case][x], DimLen[case][y]>>
  /\ \A case, x, y, z :
       Lengths(case, <<x, y, z>>) = <<DimLen[case][x], DimLen[case][y], DimLen[case][z]>>
  /\ \A case, w, x, y, z :
       Lengths(case, <<w, x, y, z>>)
         = <<DimLen[case][w], DimLen[case][x], DimLen[case][y], DimLen[case][z]>>
  BY DEF Lengths

\* Lengths in the map are natural numbers.
LEMMA TupleNat ==
  /\ <<>> \in Seq(Nat)
  /\ \A x : <<x>> \in Seq(Nat) <=> x \in Nat
  /\ \A x, y : <<x, y>> \in Seq(Nat) <=> x \in Nat /\ y \in Nat
  /\ \A x, y, z : <<x, y, z>> \in Seq(Nat) <=> x \in Nat /\ y \in Nat /\ z \in Nat
  /\ \A w, x, y, z :
       <<w, x, y, z>> \in Seq(Nat) <=> w \in Nat /\ x \in Nat /\ y \in Nat /\ z \in Nat
<1>1. \A s \in Seq(Nat) : \A j \in DOMAIN s : s[j] \in Nat
  OBVIOUS
<1>2. \A x : <<x>> \in Seq(Nat) => x \in Nat
  <2> TAKE x
  <2>1. 1 \in DOMAIN <<x>> /\ <<x>>[1] = x
    OBVIOUS
  <2> QED
    BY <1>1, <2>1
<1>3. \A x, y : <<x, y>> \in Seq(Nat) => x \in Nat /\ y \in Nat
  <2> TAKE x, y
  <2>1. DOMAIN <<x, y>> = 1 .. 2 /\ <<x, y>>[1] = x /\ <<x, y>>[2] = y
    OBVIOUS
  <2> QED
    BY <1>1, <2>1
<1>4. \A x, y, z : <<x, y, z>> \in Seq(Nat) => x \in Nat /\ y \in Nat /\ z \in Nat
  <2> TAKE x, y, z
  <2>1. /\ DOMAIN <<x, y, z>> = 1 .. 3
        /\ <<x, y, z>>[1] = x /\ <<x, y, z>>[2] = y /\ <<x, y, z>>[3] = z
    OBVIOUS
  <2> QED
    BY <1>1, <2>1
<1>5. \A w, x, y, z :
        <<w, x, y, z>> \in Seq(Nat) => w \in Nat /\ x \in Nat /\ y \in Nat /\ z \in Nat
  <2> TAKE w, x, y, z
  <2>1. /\ DOMAIN <<w, x, y, z>> = 1 .. 4
        /\ <<w, x, y, z>>[1] = w /\ <<w, x, y, z>>[2] = x
        /\ <<w, x, y, z>>[3] = y /\ <<w, x, y, z>>[4] = z
    OBVIOUS
  <2> QED
    BY <1>1, <2>1
<1> QED
  BY <1>2, <1>3, <1>4, <1>5

\* The dimensions of a decomposition in the map are those of the case.
LEMMA MapIs ==
  \A case \in Cases : \A d \in DOMAIN GlobalDims[case] : \A dims :
    GlobalDims[case][d] = dims =>
      MapDims[case][d] = Lengths(case, dims) /\ Lengths(case, dims) \in Seq(Nat)
  BY MapAssumption DEF Cases

\* What the shapes have in common.
ShapeFits(case, dims, itype, decomp) ==
  /\ Lengths(case, dims) \in Seq(Nat)
  /\ itype \in {"char", "int", "double"}
  /\ decomp \in Int
  /\ decomp >= 0 => /\ decomp + 1 \in DOMAIN GlobalDims[case]
                    /\ Lengths(case, Body(dims)) = MapDims[case][decomp + 1]

\* The shapes of the atmosphere case.
LEMMA FShapesFit ==
  ASSUME NEW dims, NEW itype, NEW decomp, <<dims, itype, decomp>> \in FShapes
  PROVE  ShapeFits("F", dims, itype, decomp)
<1>1. /\ DOMAIN GlobalDims["F"] = 1 .. 3 /\ GlobalDims["F"][1] = <<"ncol">>
      /\ GlobalDims["F"][2] = <<"ncol">> /\ GlobalDims["F"][3] = <<"lev", "ncol">>
  BY DEF GlobalDims, FGlobalDims
<1>2. /\ "F" \in Cases /\ 1 \in DOMAIN GlobalDims["F"] /\ 2 \in DOMAIN GlobalDims["F"]
      /\ 3 \in DOMAIN GlobalDims["F"]
  BY <1>1 DEF Cases
<1>3. /\ MapDims["F"][1] = Lengths("F", <<"ncol">>) /\ Lengths("F", <<"ncol">>) \in Seq(Nat)
      /\ MapDims["F"][2] = Lengths("F", <<"ncol">>) /\ Lengths("F", <<"ncol">>) \in Seq(Nat)
      /\ MapDims["F"][3] = Lengths("F", <<"lev", "ncol">>) /\ Lengths("F", <<"lev", "ncol">>) \in Seq(Nat)
  <2>1. /\ MapDims["F"][1] = Lengths("F", <<"ncol">>) /\ Lengths("F", <<"ncol">>) \in Seq(Nat)
    BY <1>1, <1>2, MapIs, Zenon
  <2>2. /\ MapDims["F"][2] = Lengths("F", <<"ncol">>) /\ Lengths("F", <<"ncol">>) \in Seq(Nat)
    BY <1>1, <1>2, MapIs, Zenon
  <2>3. /\ MapDims["F"][3] = Lengths("F", <<"lev", "ncol">>) /\ Lengths("F", <<"lev", "ncol">>) \in Seq(Nat)
    BY <1>1, <1>2, MapIs, Zenon
  <2> QED
    BY <2>1, <2>2, <2>3
<1>4. /\ Lengths("F", <<"ncol">>) = <<DimLen["F"]["ncol"]>>
      /\ Lengths("F", <<"lev", "ncol">>) = <<DimLen["F"]["lev"], DimLen["F"]["ncol"]>>
  BY LengthsIs
<1>5. /\ DimLen["F"]["lev"] \in Nat /\ DimLen["F"]["ncol"] \in Nat
  <2>1. /\ <<DimLen["F"]["ncol"]>> \in Seq(Nat)
        /\ <<DimLen["F"]["lev"], DimLen["F"]["ncol"]>> \in Seq(Nat)
    BY <1>3, <1>4
  <2> QED
    BY <2>1, TupleNat
<1>6. /\ DimLen["F"]["time"] = 1 /\ DimLen["F"]["nbnd"] = 2 /\ DimLen["F"]["chars"] = 8
      /\ DimLen["F"]["ilev"] = DimLen["F"]["lev"] + 1
  BY DEF DimLen, FDimLen
<1>7. \A d \in {"time", "nbnd", "chars", "lev", "ilev", "ncol"} : DimLen["F"][d] \in Nat
  BY <1>5, <1>6
<1>8. /\ Lengths("F", <<>>) = <<>> /\ Lengths("F", <<"lev">>) = <<DimLen["F"]["lev"]>>
      /\ Lengths("F", <<"ilev">>) = <<DimLen["F"]["ilev"]>>
      /\ Lengths("F", <<"ncol">>) = <<DimLen["F"]["ncol"]>>
      /\ Lengths("F", <<"time", "chars">>) = <<DimLen["F"]["time"], DimLen["F"]["chars"]>>
      /\ Lengths("F", <<"time">>) = <<DimLen["F"]["time"]>>
      /\ Lengths("F", <<"time", "nbnd">>) = <<DimLen["F"]["time"], DimLen["F"]["nbnd"]>>
      /\ Lengths("F", <<"time", "ncol">>) = <<DimLen["F"]["time"], DimLen["F"]["ncol"]>>
      /\ Lengths("F", <<"time", "lev", "ncol">>) = <<DimLen["F"]["time"], DimLen["F"]["lev"], DimLen["F"]["ncol"]>>
  BY LengthsIs
<1>9. /\ Lengths("F", <<>>) \in Seq(Nat) /\ Lengths("F", <<"lev">>) \in Seq(Nat)
      /\ Lengths("F", <<"ilev">>) \in Seq(Nat) /\ Lengths("F", <<"ncol">>) \in Seq(Nat)
      /\ Lengths("F", <<"time", "chars">>) \in Seq(Nat)
      /\ Lengths("F", <<"time">>) \in Seq(Nat) /\ Lengths("F", <<"time", "nbnd">>) \in Seq(Nat)
      /\ Lengths("F", <<"time", "ncol">>) \in Seq(Nat)
      /\ Lengths("F", <<"time", "lev", "ncol">>) \in Seq(Nat)
  <2>1. /\ Lengths("F", <<>>) \in Seq(Nat)
    BY <1>7, <1>8, TupleNat
  <2>2. /\ Lengths("F", <<"lev">>) \in Seq(Nat)
    BY <1>7, <1>8, TupleNat
  <2>3. /\ Lengths("F", <<"ilev">>) \in Seq(Nat)
    BY <1>7, <1>8, TupleNat
  <2>4. /\ Lengths("F", <<"ncol">>) \in Seq(Nat)
    BY <1>7, <1>8, TupleNat
  <2>5. /\ Lengths("F", <<"time", "chars">>) \in Seq(Nat)
    BY <1>7, <1>8, TupleNat
  <2>6. /\ Lengths("F", <<"time">>) \in Seq(Nat)
    BY <1>7, <1>8, TupleNat
  <2>7. /\ Lengths("F", <<"time", "nbnd">>) \in Seq(Nat)
    BY <1>7, <1>8, TupleNat
  <2>8. /\ Lengths("F", <<"time", "ncol">>) \in Seq(Nat)
    BY <1>7, <1>8, TupleNat
  <2>9. /\ Lengths("F", <<"time", "lev", "ncol">>) \in Seq(Nat)
    BY <1>7, <1>8, TupleNat
  <2> QED
    BY <2>1, <2>2, <2>3, <2>4, <2>5, <2>6, <2>7, <2>8, <2>9
<1>10. /\ Body(<<"ncol">>) = <<"ncol">> /\ Body(<<"time", "ncol">>) = <<"ncol">>
       /\ Body(<<"time", "lev", "ncol">>) = <<"lev", "ncol">>
  <2>1. /\ Body(<<"ncol">>) = <<"ncol">>
    BY BodyIs
  <2>2. /\ Body(<<"time", "ncol">>) = <<"ncol">>
    BY BodyIs
  <2>3. /\ Body(<<"time", "lev", "ncol">>) = <<"lev", "ncol">>
    BY BodyIs
  <2> QED
    BY <2>1, <2>2, <2>3
<1>11. /\ Lengths("F", Body(<<"ncol">>)) = MapDims["F"][2]
       /\ Lengths("F", Body(<<"ncol">>)) = MapDims["F"][1]
       /\ Lengths("F", Body(<<"time", "ncol">>)) = MapDims["F"][2]
       /\ Lengths("F", Body(<<"time", "lev", "ncol">>)) = MapDims["F"][3]
  <2>1. /\ Lengths("F", Body(<<"ncol">>)) = MapDims["F"][2]
    BY <1>3, <1>4, <1>6, <1>8, <1>10
  <2>2. /\ Lengths("F", Body(<<"ncol">>)) = MapDims["F"][1]
    BY <1>3, <1>4, <1>6, <1>8, <1>10
  <2>3. /\ Lengths("F", Body(<<"time", "ncol">>)) = MapDims["F"][2]
    BY <1>3, <1>4, <1>6, <1>8, <1>10
  <2>4. /\ Lengths("F", Body(<<"time", "lev", "ncol">>)) = MapDims["F"][3]
    BY <1>3, <1>4, <1>6, <1>8, <1>10
  <2> QED
    BY <2>1, <2>2, <2>3, <2>4
<1>12. /\ ShapeFits("F", <<>>, "int", -1) /\ ShapeFits("F", <<>>, "double", -1)
       /\ ShapeFits("F", <<"lev">>, "double", -1) /\ ShapeFits("F", <<"ilev">>, "double", -1)
       /\ ShapeFits("F", <<"ncol">>, "double", 1) /\ ShapeFits("F", <<"ncol">>, "double", 0)
       /\ ShapeFits("F", <<"time", "chars">>, "char", -1)
       /\ ShapeFits("F", <<"time">>, "int", -1) /\ ShapeFits("F", <<"time">>, "double", -1)
       /\ ShapeFits("F", <<"time", "nbnd">>, "double", -1)
       /\ ShapeFits("F", <<"time", "ncol">>, "double", 1)
       /\ ShapeFits("F", <<"time", "lev", "ncol">>, "double", 2)
  <2>1. /\ ShapeFits("F", <<>>, "int", -1)
    BY <1>1, <1>9, <1>11 DEF ShapeFits
  <2>2. /\ ShapeFits("F", <<>>, "double", -1)
    BY <1>1, <1>9, <1>11 DEF ShapeFits
  <2>3. /\ ShapeFits("F", <<"lev">>, "double", -1)
    BY <1>1, <1>9, <1>11 DEF ShapeFits
  <2>4. /\ ShapeFits("F", <<"ilev">>, "double", -1)
    BY <1>1, <1>9, <1>11 DEF ShapeFits
  <2>5. /\ ShapeFits("F", <<"ncol">>, "double", 1)
    BY <1>1, <1>9, <1>11 DEF ShapeFits
  <2>6. /\ ShapeFits("F", <<"ncol">>, "double", 0)
    BY <1>1, <1>9, <1>11 DEF ShapeFits
  <2>7. /\ ShapeFits("F", <<"time", "chars">>, "char", -1)
    BY <1>1, <1>9, <1>11 DEF ShapeFits
  <2>8. /\ ShapeFits("F", <<"time">>, "int", -1)
    BY <1>1, <1>9, <1>11 DEF ShapeFits
  <2>9. /\ ShapeFits("F", <<"time">>, "double", -1)
    BY <1>1, <1>9, <1>11 DEF ShapeFits
  <2>10. /\ ShapeFits("F", <<"time", "nbnd">>, "double", -1)
    BY <1>1, <1>9, <1>11 DEF ShapeFits
  <2>11. /\ ShapeFits("F", <<"time", "ncol">>, "double", 1)
    BY <1>1, <1>9, <1>11 DEF ShapeFits
  <2>12. /\ ShapeFits("F", <<"time", "lev", "ncol">>, "double", 2)
    BY <1>1, <1>9, <1>11 DEF ShapeFits
  <2> QED
    BY <2>1, <2>2, <2>3, <2>4, <2>5, <2>6, <2>7, <2>8, <2>9, <2>10, <2>11, <2>12
<1> QED
  BY <1>12 DEF FShapes

\* The shapes of the ocean case.
LEMMA GShapesFit ==
  ASSUME NEW dims, NEW itype, NEW decomp, <<dims, itype, decomp>> \in GShapes
  PROVE  ShapeFits("G", dims, itype, decomp)
<1>1. /\ DOMAIN GlobalDims["G"] = 1 .. 6 /\ GlobalDims["G"][1] = <<"nCells">>
      /\ GlobalDims["G"][2] = <<"nEdges">> /\ GlobalDims["G"][3] = <<"nCells", "nVertLevels">>
      /\ GlobalDims["G"][4] = <<"nEdges", "nVertLevels">>
      /\ GlobalDims["G"][5] = <<"nVertices", "nVertLevels">>
      /\ GlobalDims["G"][6] = <<"nCells", "nVertLevelsP1">>
  BY DEF GlobalDims, GGlobalDims
<1>2. /\ "G" \in Cases /\ 1 \in DOMAIN GlobalDims["G"] /\ 2 \in DOMAIN GlobalDims["G"]
      /\ 3 \in DOMAIN GlobalDims["G"] /\ 4 \in DOMAIN GlobalDims["G"]
      /\ 5 \in DOMAIN GlobalDims["G"] /\ 6 \in DOMAIN GlobalDims["G"]
  BY <1>1 DEF Cases
<1>3. /\ MapDims["G"][1] = Lengths("G", <<"nCells">>) /\ Lengths("G", <<"nCells">>) \in Seq(Nat)
      /\ MapDims["G"][2] = Lengths("G", <<"nEdges">>) /\ Lengths("G", <<"nEdges">>) \in Seq(Nat)
      /\ MapDims["G"][3] = Lengths("G", <<"nCells", "nVertLevels">>) /\ Lengths("G", <<"nCells", "nVertLevels">>) \in Seq(Nat)
      /\ MapDims["G"][4] = Lengths("G", <<"nEdges", "nVertLevels">>) /\ Lengths("G", <<"nEdges", "nVertLevels">>) \in Seq(Nat)
      /\ MapDims["G"][5] = Lengths("G", <<"nVertices", "nVertLevels">>) /\ Lengths("G", <<"nVertices", "nVertLevels">>) \in Seq(Nat)
      /\ MapDims["G"][6] = Lengths("G", <<"nCells", "nVertLevelsP1">>) /\ Lengths("G", <<"nCells", "nVertLevelsP1">>) \in Seq(Nat)
  <2>1. /\ MapDims["G"][1] = Lengths("G", <<"nCells">>) /\ Lengths("G", <<"nCells">>) \in Seq(Nat)
    BY <1>1, <1>2, MapIs, Zenon
  <2>2. /\ MapDims["G"][2] = Lengths("G", <<"nEdges">>) /\ Lengths("G", <<"nEdges">>) \in Seq(Nat)
    BY <1>1, <1>2, MapIs, Zenon
  <2>3. /\ MapDims["G"][3] = Lengths("G", <<"nCells", "nVertLevels">>) /\ Lengths("G", <<"nCells", "nVertLevels">>) \in Seq(Nat)
    BY <1>1, <1>2, MapIs, Zenon
  <2>4. /\ MapDims["G"][4] = Lengths("G", <<"nEdges", "nVertLevels">>) /\ Lengths("G", <<"nEdges", "nVertLevels">>) \in Seq(Nat)
    BY <1>1, <1>2, MapIs, Zenon
  <2>5. /\ MapDims["G"][5] = Lengths("G", <<"nVertices", "nVertLevels">>) /\ Lengths("G", <<"nVertices", "nVertLevels">>) \in Seq(Nat)
    BY <1>1, <1>2, MapIs, Zenon
  <2>6. /\ MapDims["G"][6] = Lengths("G", <<"nCells", "nVertLevelsP1">>) /\ Lengths("G", <<"nCells", "nVertLevelsP1">>) \in Seq(Nat)
    BY <1>1, <1>2, MapIs, Zenon
  <2> QED
    BY <2>1, <2>2, <2>3, <2>4, <2>5, <2>6
<1>4. /\ Lengths("G", <<"nCells">>) = <<DimLen["G"]["nCells"]>>
      /\ Lengths("G", <<"nEdges">>) = <<DimLen["G"]["nEdges"]>>
      /\ Lengths("G", <<"nCells", "nVertLevels">>) = <<DimLen["G"]["nCells"], DimLen["G"]["nVertLevels"]>>
      /\ Lengths("G", <<"nEdges", "nVertLevels">>) = <<DimLen["G"]["nEdges"], DimLen["G"]["nVertLevels"]>>
      /\ Lengths("G", <<"nVertices", "nVertLevels">>) = <<DimLen["G"]["nVertices"], DimLen["G"]["nVertLevels"]>>
      /\ Lengths("G", <<"nCells", "nVertLevelsP1">>) = <<DimLen["G"]["nCells"], DimLen["G"]["nVertLevelsP1"]>>
  BY LengthsIs
<1>5. /\ DimLen["G"]["nCells"] \in Nat /\ DimLen["G"]["nEdges"] \in Nat
      /\ DimLen["G"]["nVertices"] \in Nat /\ DimLen["G"]["nVertLevelsP1"] \in Nat
      /\ DimLen["G"]["nVertLevels"] \in Nat
  <2>1. /\ <<DimLen["G"]["nCells"]>> \in Seq(Nat) /\ <<DimLen["G"]["nEdges"]>> \in Seq(Nat)
        /\ <<DimLen["G"]["nCells"], DimLen["G"]["nVertLevels"]>> \in Seq(Nat)
        /\ <<DimLen["G"]["nEdges"], DimLen["G"]["nVertLevels"]>> \in Seq(Nat)
        /\ <<DimLen["G"]["nVertices"], DimLen["G"]["nVertLevels"]>> \in Seq(Nat)
        /\ <<DimLen["G"]["nCells"], DimLen["G"]["nVertLevelsP1"]>> \in Seq(Nat)
    BY <1>3, <1>4
  <2> QED
    BY <2>1, TupleNat
<1>6. /\ DimLen["G"]["time"] = 1 /\ DimLen["G"]["StrLen"] = 64
  BY DEF DimLen, GDimLen
<1>7. \A d \in {"time", "nCells", "nEdges", "nVertices", "nVertLevelsP1", "nVertLevels", "StrLen"} : DimLen["G"][d] \in Nat
  BY <1>5, <1>6
<1>8. /\ Lengths("G", <<"nEdges">>) = <<DimLen["G"]["nEdges"]>>
      /\ Lengths("G", <<"nEdges", "nVertLevels">>) = <<DimLen["G"]["nEdges"], DimLen["G"]["nVertLevels"]>>
      /\ Lengths("G", <<"nCells", "nVertLevels">>) = <<DimLen["G"]["nCells"], DimLen["G"]["nVertLevels"]>>
      /\ Lengths("G", <<"nVertices", "nVertLevels">>) = <<DimLen["G"]["nVertices"], DimLen["G"]["nVertLevels"]>>
      /\ Lengths("G", <<"nCells">>) = <<DimLen["G"]["nCells"]>>
      /\ Lengths("G", <<"nVertLevels">>) = <<DimLen["G"]["nVertLevels"]>>
      /\ Lengths("G", <<"time", "StrLen">>) = <<DimLen["G"]["time"], DimLen["G"]["StrLen"]>>
      /\ Lengths("G", <<"time">>) = <<DimLen["G"]["time"]>>
      /\ Lengths("G", <<"time", "nCells">>) = <<DimLen["G"]["time"], DimLen["G"]["nCells"]>>
      /\ Lengths("G", <<"time", "nCells", "nVertLevelsP1">>) = <<DimLen["G"]["time"], DimLen["G"]["nCells"], DimLen["G"]["nVertLevelsP1"]>>
      /\ Lengths("G", <<"time", "nCells", "nVertLevels">>) = <<DimLen["G"]["time"], DimLen["G"]["nCells"], DimLen["G"]["nVertLevels"]>>
      /\ Lengths("G", <<"time", "nEdges", "nVertLevels">>) = <<DimLen["G"]["time"], DimLen["G"]["nEdges"], DimLen["G"]["nVertLevels"]>>
      /\ Lengths("G", <<"time", "nVertices", "nVertLevels">>) = <<DimLen["G"]["time"], DimLen["G"]["nVertices"], DimLen["G"]["nVertLevels"]>>
  BY LengthsIs
<1>9. /\ Lengths("G", <<"nEdges">>) \in Seq(Nat)
      /\ Lengths("G", <<"nEdges", "nVertLevels">>) \in Seq(Nat)
      /\ Lengths("G", <<"nCells", "nVertLevels">>) \in Seq(Nat)
      /\ Lengths("G", <<"nVertices", "nVertLevels">>) \in Seq(Nat)
      /\ Lengths("G", <<"nCells">>) \in Seq(Nat)
      /\ Lengths("G", <<"nVertLevels">>) \in Seq(Nat)
      /\ Lengths("G", <<"time", "StrLen">>) \in Seq(Nat)
      /\ Lengths("G", <<"time">>) \in Seq(Nat)
      /\ Lengths("G", <<"time", "nCells">>) \in Seq(Nat)
      /\ Lengths("G", <<"time", "nCells", "nVertLevelsP1">>) \in Seq(Nat)
      /\ Lengths("G", <<"time", "nCells", "nVertLevels">>) \in Seq(Nat)
      /\ Lengths("G", <<"time", "nEdges", "nVertLevels">>) \in Seq(Nat)
      /\ Lengths("G", <<"time", "nVertices", "nVertLevels">>) \in Seq(Nat)
  <2>1. /\ Lengths("G", <<"nEdges">>) \in Seq(Nat)
    BY <1>7, <1>8, TupleNat
  <2>2. /\ Lengths("G", <<"nEdges", "nVertLevels">>) \in Seq(Nat)
    BY <1>7, <1>8, TupleNat
  <2>3. /\ Lengths("G", <<"nCells", "nVertLevels">>) \in Seq(Nat)
    BY <1>7, <1>8, TupleNat
  <2>4. /\ Lengths("G", <<"nVertices", "nVertLevels">>) \in Seq(Nat)
    BY <1>7, <1>8, TupleNat
  <2>5. /\ Lengths("G", <<"nCells">>) \in Seq(Nat)
    BY <1>7, <1>8, TupleNat
  <2>6. /\ Lengths("G", <<"nVertLevels">>) \in Seq(Nat)
    BY <1>7, <1>8, TupleNat
  <2>7. /\ Lengths("G", <<"time", "StrLen">>) \in Seq(Nat)
    BY <1>7, <1>8, TupleNat
  <2>8. /\ Lengths("G", <<"time">>) \in Seq(Nat)
    BY <1>7, <1>8, TupleNat
  <2>9. /\ Lengths("G", <<"time", "nCells">>) \in Seq(Nat)
    BY <1>7, <1>8, TupleNat
  <2>10. /\ Lengths("G", <<"time", "nCells", "nVertLevelsP1">>) \in Seq(Nat)
    BY <1>7, <1>8, TupleNat
  <2>11. /\ Lengths("G", <<"time", "nCells", "nVertLevels">>) \in Seq(Nat)
    BY <1>7, <1>8, TupleNat
  <2>12. /\ Lengths("G", <<"time", "nEdges", "nVertLevels">>) \in Seq(Nat)
    BY <1>7, <1>8, TupleNat
  <2>13. /\ Lengths("G", <<"time", "nVertices", "nVertLevels">>) \in Seq(Nat)
    BY <1>7, <1>8, TupleNat
  <2> QED
    BY <2>1, <2>2, <2>3, <2>4, <2>5, <2>6, <2>7, <2>8, <2>9, <2>10, <2>11, <2>12, <2>13
<1>10. /\ Body(<<"nEdges">>) = <<"nEdges">>
       /\ Body(<<"nEdges", "nVertLevels">>) = <<"nEdges", "nVertLevels">>
       /\ Body(<<"nCells", "nVertLevels">>) = <<"nCells", "nVertLevels">>
       /\ Body(<<"nVertices", "nVertLevels">>) = <<"nVertices", "nVertLevels">>
       /\ Body(<<"nCells">>) = <<"nCells">> /\ Body(<<"time", "nCells">>) = <<"nCells">>
       /\ Body(<<"time", "nCells", "nVertLevelsP1">>) = <<"nCells", "nVertLevelsP1">>
       /\ Body(<<"time", "nCells", "nVertLevels">>) = <<"nCells", "nVertLevels">>
       /\ Body(<<"time", "nEdges", "nVertLevels">>) = <<"nEdges", "nVertLevels">>
       /\ Body(<<"time", "nVertices", "nVertLevels">>) = <<"nVertices", "nVertLevels">>
  <2>1. /\ Body(<<"nEdges">>) = <<"nEdges">>
    BY BodyIs
  <2>2. /\ Body(<<"nEdges", "nVertLevels">>) = <<"nEdges", "nVertLevels">>
    BY BodyIs
  <2>3. /\ Body(<<"nCells", "nVertLevels">>) = <<"nCells", "nVertLevels">>
    BY BodyIs
  <2>4. /\ Body(<<"nVertices", "nVertLevels">>) = <<"nVertices", "nVertLevels">>
    BY BodyIs
  <2>5. /\ Body(<<"nCells">>) = <<"nCells">>
    BY BodyIs
  <2>6. /\ Body(<<"time", "nCells">>) = <<"nCells">>
    BY BodyIs
  <2>7. /\ Body(<<"time", "nCells", "nVertLevelsP1">>) = <<"nCells", "nVertLevelsP1">>
    BY BodyIs
  <2>8. /\ Body(<<"time", "nCells", "nVertLevels">>) = <<"nCells", "nVertLevels">>
    BY BodyIs
  <2>9. /\ Body(<<"time", "nEdges", "nVertLevels">>) = <<"nEdges", "nVertLevels">>
    BY BodyIs
  <2>10. /\ Body(<<"time", "nVertices", "nVertLevels">>) = <<"nVertices", "nVertLevels">>
    BY BodyIs
  <2> QED
    BY <2>1, <2>2, <2>3, <2>4, <2>5, <2>6, <2>7, <2>8, <2>9, <2>10
<1>11. /\ Lengths("G", Body(<<"nEdges">>)) = MapDims["G"][2]
       /\ Lengths("G", Body(<<"nEdges", "nVertLevels">>)) = MapDims["G"][4]
       /\ Lengths("G", Body(<<"nCells", "nVertLevels">>)) = MapDims["G"][3]
       /\ Lengths("G", Body(<<"nVertices", "nVertLevels">>)) = MapDims["G"][5]
       /\ Lengths("G", Body(<<"nCells">>)) = MapDims["G"][1]
       /\ Lengths("G", Body(<<"time", "nCells">>)) = MapDims["G"][1]
       /\ Lengths("G", Body(<<"time", "nCells", "nVertLevelsP1">>)) = MapDims["G"][6]
       /\ Lengths("G", Body(<<"time", "nCells", "nVertLevels">>)) = MapDims["G"][3]
       /\ Lengths("G", Body(<<"time", "nEdges", "nVertLevels">>)) = MapDims["G"][4]
       /\ Lengths("G", Body(<<"time", "nVertices", "nVertLevels">>)) = MapDims["G"][5]
  <2>1. /\ Lengths("G", Body(<<"nEdges">>)) = MapDims["G"][2]
    BY <1>3, <1>4, <1>6, <1>8, <1>10
  <2>2. /\ Lengths("G", Body(<<"nEdges", "nVertLevels">>)) = MapDims["G"][4]
    BY <1>3, <1>4, <1>6, <1>8, <1>10
  <2>3. /\ Lengths("G", Body(<<"nCells", "nVertLevels">>)) = MapDims["G"][3]
    BY <1>3, <1>4, <1>6, <1>8, <1>10
  <2>4. /\ Lengths("G", Body(<<"nVertices", "nVertLevels">>)) = MapDims["G"][5]
    BY <1>3, <1>4, <1>6, <1>8, <1>10
  <2>5. /\ Lengths("G", Body(<<"nCells">>)) = MapDims["G"][1]
    BY <1>3, <1>4, <1>6, <1>8, <1>10
  <2>6. /\ Lengths("G", Body(<<"time", "nCells">>)) = MapDims["G"][1]
    BY <1>3, <1>4, <1>6, <1>8, <1>10
  <2>7. /\ Lengths("G", Body(<<"time", "nCells", "nVertLevelsP1">>)) = MapDims["G"][6]
    BY <1>3, <1>4, <1>6, <1>8, <1>10
  <2>8. /\ Lengths("G", Body(<<"time", "nCells", "nVertLevels">>)) = MapDims["G"][3]
    BY <1>3, <1>4, <1>6, <1>8, <1>10
  <2>9. /\ Lengths("G", Body(<<"time", "nEdges", "nVertLevels">>)) = MapDims["G"][4]
    BY <1>3, <1>4, <1>6, <1>8, <1>10
  <2>10. /\ Lengths("G", Body(<<"time", "nVertices", "nVertLevels">>)) = MapDims["G"][5]
    BY <1>3, <1>4, <1>6, <1>8, <1>10
  <2> QED
    BY <2>1, <2>2, <2>3, <2>4, <2>5, <2>6, <2>7, <2>8, <2>9, <2>10
<1>12. /\ ShapeFits("G", <<"nEdges">>, "int", 1)
       /\ ShapeFits("G", <<"nEdges", "nVertLevels">>, "int", 3)
       /\ ShapeFits("G", <<"nCells", "nVertLevels">>, "int", 2)
       /\ ShapeFits("G", <<"nVertices", "nVertLevels">>, "int", 4)
       /\ ShapeFits("G", <<"nCells">>, "int", 0) /\ ShapeFits("G", <<"nCells">>, "double", 0)
       /\ ShapeFits("G", <<"nVertLevels">>, "double", -1)
       /\ ShapeFits("G", <<"time", "StrLen">>, "char", -1)
       /\ ShapeFits("G", <<"time">>, "double", -1)
       /\ ShapeFits("G", <<"time", "nCells">>, "double", 0)
       /\ ShapeFits("G", <<"time", "nCells", "nVertLevelsP1">>, "double", 5)
       /\ ShapeFits("G", <<"time", "nCells", "nVertLevels">>, "double", 2)
       /\ ShapeFits("G", <<"time", "nEdges", "nVertLevels">>, "double", 3)
       /\ ShapeFits("G", <<"time", "nVertices", "nVertLevels">>, "double", 4)
  <2>1. /\ ShapeFits("G", <<"nEdges">>, "int", 1)
    BY <1>1, <1>9, <1>11 DEF ShapeFits
  <2>2. /\ ShapeFits("G", <<"nEdges", "nVertLevels">>, "int", 3)
    BY <1>1, <1>9, <1>11 DEF ShapeFits
  <2>3. /\ ShapeFits("G", <<"nCells", "nVertLevels">>, "int", 2)
    BY <1>1, <1>9, <1>11 DEF ShapeFits
  <2>4. /\ ShapeFits("G", <<"nVertices", "nVertLevels">>, "int", 4)
    BY <1>1, <1>9, <1>11 DEF ShapeFits
  <2>5. /\ ShapeFits("G", <<"nCells">>, "int", 0)
    BY <1>1, <1>9, <1>11 DEF ShapeFits
  <2>6. /\ ShapeFits("G", <<"nCells">>, "double", 0)
    BY <1>1, <1>9, <1>11 DEF ShapeFits
  <2>7. /\ ShapeFits("G", <<"nVertLevels">>, "double", -1)
    BY <1>1, <1>9, <1>11 DEF ShapeFits
  <2>8. /\ ShapeFits("G", <<"time", "StrLen">>, "char", -1)
    BY <1>1, <1>9, <1>11 DEF ShapeFits
  <2>9. /\ ShapeFits("G", <<"time">>, "double", -1)
    BY <1>1, <1>9, <1>11 DEF ShapeFits
  <2>10. /\ ShapeFits("G", <<"time", "nCells">>, "double", 0)
    BY <1>1, <1>9, <1>11 DEF ShapeFits
  <2>11. /\ ShapeFits("G", <<"time", "nCells", "nVertLevelsP1">>, "double", 5)
    BY <1>1, <1>9, <1>11 DEF ShapeFits
  <2>12. /\ ShapeFits("G", <<"time", "nCells", "nVertLevels">>, "double", 2)
    BY <1>1, <1>9, <1>11 DEF ShapeFits
  <2>13. /\ ShapeFits("G", <<"time", "nEdges", "nVertLevels">>, "double", 3)
    BY <1>1, <1>9, <1>11 DEF ShapeFits
  <2>14. /\ ShapeFits("G", <<"time", "nVertices", "nVertLevels">>, "double", 4)
    BY <1>1, <1>9, <1>11 DEF ShapeFits
  <2> QED
    BY <2>1, <2>2, <2>3, <2>4, <2>5, <2>6, <2>7, <2>8, <2>9, <2>10, <2>11, <2>12, <2>13, <2>14
<1> QED
  BY <1>12 DEF GShapes

\* The shapes of the land case.
LEMMA IShapesFit ==
  ASSUME NEW dims, NEW itype, NEW decomp, <<dims, itype, decomp>> \in IShapes
  PROVE  ShapeFits("I", dims, itype, decomp)
<1>1. /\ DOMAIN GlobalDims["I"] = 1 .. 5 /\ GlobalDims["I"][1] = <<"lat", "lon">>
      /\ GlobalDims["I"][2] = <<"levgrnd", "lat", "lon">>
      /\ GlobalDims["I"][3] = <<"levlak", "lat", "lon">>
      /\ GlobalDims["I"][4] = <<"ltype", "lat", "lon">>
      /\ GlobalDims["I"][5] = <<"natpft", "lat", "lon">>
  BY DEF GlobalDims, IGlobalDims
<1>2. /\ "I" \in Cases /\ 1 \in DOMAIN GlobalDims["I"] /\ 2 \in DOMAIN GlobalDims["I"]
      /\ 3 \in DOMAIN GlobalDims["I"] /\ 4 \in DOMAIN GlobalDims["I"]
      /\ 5 \in DOMAIN GlobalDims["I"]
  BY <1>1 DEF Cases
<1>3. /\ MapDims["I"][1] = Lengths("I", <<"lat", "lon">>) /\ Lengths("I", <<"lat", "lon">>) \in Seq(Nat)
      /\ MapDims["I"][2] = Lengths("I", <<"levgrnd", "lat", "lon">>) /\ Lengths("I", <<"levgrnd", "lat", "lon">>) \in Seq(Nat)
      /\ MapDims["I"][3] = Lengths("I", <<"levlak", "lat", "lon">>) /\ Lengths("I", <<"levlak", "lat", "lon">>) \in Seq(Nat)
      /\ MapDims["I"][4] = Lengths("I", <<"ltype", "lat", "lon">>) /\ Lengths("I", <<"ltype", "lat", "lon">>) \in Seq(Nat)
      /\ MapDims["I"][5] = Lengths("I", <<"natpft", "lat", "lon">>) /\ Lengths("I", <<"natpft", "lat", "lon">>) \in Seq(Nat)
  <2>1. /\ MapDims["I"][1] = Lengths("I", <<"lat", "lon">>) /\ Lengths("I", <<"lat", "lon">>) \in Seq(Nat)
    BY <1>1, <1>2, MapIs, Zenon
  <2>2. /\ MapDims["I"][2] = Lengths("I", <<"levgrnd", "lat", "lon">>) /\ Lengths("I", <<"levgrnd", "lat", "lon">>) \in Seq(Nat)
    BY <1>1, <1>2, MapIs, Zenon
  <2>3. /\ MapDims["I"][3] = Lengths("I", <<"levlak", "lat", "lon">>) /\ Lengths("I", <<"levlak", "lat", "lon">>) \in Seq(Nat)
    BY <1>1, <1>2, MapIs, Zenon
  <2>4. /\ MapDims["I"][4] = Lengths("I", <<"ltype", "lat", "lon">>) /\ Lengths("I", <<"ltype", "lat", "lon">>) \in Seq(Nat)
    BY <1>1, <1>2, MapIs, Zenon
  <2>5. /\ MapDims["I"][5] = Lengths("I", <<"natpft", "lat", "lon">>) /\ Lengths("I", <<"natpft", "lat", "lon">>) \in Seq(Nat)
    BY <1>1, <1>2, MapIs, Zenon
  <2> QED
    BY <2>1, <2>2, <2>3, <2>4, <2>5
<1>4. /\ Lengths("I", <<"lat", "lon">>) = <<DimLen["I"]["lat"], DimLen["I"]["lon"]>>
      /\ Lengths("I", <<"levgrnd", "lat", "lon">>) = <<DimLen["I"]["levgrnd"], DimLen["I"]["lat"], DimLen["I"]["lon"]>>
      /\ Lengths("I", <<"levlak", "lat", "lon">>) = <<DimLen["I"]["levlak"], DimLen["I"]["lat"], DimLen["I"]["lon"]>>
      /\ Lengths("I", <<"ltype", "lat", "lon">>) = <<DimLen["I"]["ltype"], DimLen["I"]["lat"], DimLen["I"]["lon"]>>
      /\ Lengths("I", <<"natpft", "lat", "lon">>) = <<DimLen["I"]["natpft"], DimLen["I"]["lat"], DimLen["I"]["lon"]>>
  BY LengthsIs
<1>5. /\ DimLen["I"]["lat"] \in Nat /\ DimLen["I"]["lon"] \in Nat
      /\ DimLen["I"]["levgrnd"] \in Nat /\ DimLen["I"]["levlak"] \in Nat
      /\ DimLen["I"]["ltype"] \in Nat /\ DimLen["I"]["natpft"] \in Nat
  <2>1. /\ <<DimLen["I"]["lat"], DimLen["I"]["lon"]>> \in Seq(Nat)
        /\ <<DimLen["I"]["levgrnd"], DimLen["I"]["lat"], DimLen["I"]["lon"]>> \in Seq(Nat)
        /\ <<DimLen["I"]["levlak"], DimLen["I"]["lat"], DimLen["I"]["lon"]>> \in Seq(Nat)
        /\ <<DimLen["I"]["ltype"], DimLen["I"]["lat"], DimLen["I"]["lon"]>> \in Seq(Nat)
        /\ <<DimLen["I"]["natpft"], DimLen["I"]["lat"], DimLen["I"]["lon"]>> \in Seq(Nat)
    BY <1>3, <1>4
  <2> QED
    BY <2>1, TupleNat
<1>6. /\ DimLen["I"]["time"] = 1 /\ DimLen["I"]["string_length"] = 16
      /\ DimLen["I"]["hist_interval"] = 2 /\ DimLen["I"]["levdcmp"] = DimLen["I"]["levgrnd"]
  BY DEF DimLen, IDimLen
<1>7. \A d \in {"time", "lat", "lon", "levgrnd", "levdcmp", "levlak", "ltype", "natpft",
            "string_length", "hist_interval"} : DimLen["I"][d] \in Nat
  BY <1>5, <1>6
<1>8. /\ Lengths("I", <<"lat", "lon">>) = <<DimLen["I"]["lat"], DimLen["I"]["lon"]>>
      /\ Lengths("I", <<"levgrnd">>) = <<DimLen["I"]["levgrnd"]>>
      /\ Lengths("I", <<"levlak">>) = <<DimLen["I"]["levlak"]>>
      /\ Lengths("I", <<"levdcmp">>) = <<DimLen["I"]["levdcmp"]>>
      /\ Lengths("I", <<"lon">>) = <<DimLen["I"]["lon"]>>
      /\ Lengths("I", <<"lat">>) = <<DimLen["I"]["lat"]>>
      /\ Lengths("I", <<"levgrnd", "lat", "lon">>) = <<DimLen["I"]["levgrnd"], DimLen["I"]["lat"], DimLen["I"]["lon"]>>
      /\ Lengths("I", <<"levlak", "lat", "lon">>) = <<DimLen["I"]["levlak"], DimLen["I"]["lat"], DimLen["I"]["lon"]>>
      /\ Lengths("I", <<"time", "string_length">>) = <<DimLen["I"]["time"], DimLen["I"]["string_length"]>>
      /\ Lengths("I", <<"time">>) = <<DimLen["I"]["time"]>>
      /\ Lengths("I", <<"time", "hist_interval">>) = <<DimLen["I"]["time"], DimLen["I"]["hist_interval"]>>
      /\ Lengths("I", <<"time", "lat", "lon">>) = <<DimLen["I"]["time"], DimLen["I"]["lat"], DimLen["I"]["lon"]>>
      /\ Lengths("I", <<"time", "levgrnd", "lat", "lon">>) = <<DimLen["I"]["time"], DimLen["I"]["levgrnd"], DimLen["I"]["lat"], DimLen["I"]["lon"]>>
      /\ Lengths("I", <<"time", "levdcmp", "lat", "lon">>) = <<DimLen["I"]["time"], DimLen["I"]["levdcmp"], DimLen["I"]["lat"], DimLen["I"]["lon"]>>
      /\ Lengths("I", <<"time", "levlak", "lat", "lon">>) = <<DimLen["I"]["time"], DimLen["I"]["levlak"], DimLen["I"]["lat"], DimLen["I"]["lon"]>>
      /\ Lengths("I", <<"time", "ltype", "lat", "lon">>) = <<DimLen["I"]["time"], DimLen["I"]["ltype"], DimLen["I"]["lat"], DimLen["I"]["lon"]>>
      /\ Lengths("I", <<"time", "natpft", "lat", "lon">>) = <<DimLen["I"]["time"], DimLen["I"]["natpft"], DimLen["I"]["lat"], DimLen["I"]["lon"]>>
      /\ Lengths("I", <<"levdcmp", "lat", "lon">>) = <<DimLen["I"]["levdcmp"], DimLen["I"]["lat"], DimLen["I"]["lon"]>>
  BY LengthsIs
<1>9. /\ Lengths("I", <<"lat", "lon">>) \in Seq(Nat)
      /\ Lengths("I", <<"levgrnd">>) \in Seq(Nat) /\ Lengths("I", <<"levlak">>) \in Seq(Nat)
      /\ Lengths("I", <<"levdcmp">>) \in Seq(Nat) /\ Lengths("I", <<"lon">>) \in Seq(Nat)
      /\ Lengths("I", <<"lat">>) \in Seq(Nat)
      /\ Lengths("I", <<"levgrnd", "lat", "lon">>) \in Seq(Nat)
      /\ Lengths("I", <<"levlak", "lat", "lon">>) \in Seq(Nat)
      /\ Lengths("I", <<"time", "string_length">>) \in Seq(Nat)
      /\ Lengths("I", <<"time">>) \in Seq(Nat)
      /\ Lengths("I", <<"time", "hist_interval">>) \in Seq(Nat)
      /\ Lengths("I", <<"time", "lat", "lon">>) \in Seq(Nat)
      /\ Lengths("I", <<"time", "levgrnd", "lat", "lon">>) \in Seq(Nat)
      /\ Lengths("I", <<"time", "levdcmp", "lat", "lon">>) \in Seq(Nat)
      /\ Lengths("I", <<"time", "levlak", "lat", "lon">>) \in Seq(Nat)
      /\ Lengths("I", <<"time", "ltype", "lat", "lon">>) \in Seq(Nat)
      /\ Lengths("I", <<"time", "natpft", "lat", "lon">>) \in Seq(Nat)
  <2>1. /\ Lengths("I", <<"lat", "lon">>) \in Seq(Nat)
    BY <1>7, <1>8, TupleNat
  <2>2. /\ Lengths("I", <<"levgrnd">>) \in Seq(Nat)
    BY <1>7, <1>8, TupleNat
  <2>3. /\ Lengths("I", <<"levlak">>) \in Seq(Nat)
    BY <1>7, <1>8, TupleNat
  <2>4. /\ Lengths("I", <<"levdcmp">>) \in Seq(Nat)
    BY <1>7, <1>8, TupleNat
  <2>5. /\ Lengths("I", <<"lon">>) \in Seq(Nat)
    BY <1>7, <1>8, TupleNat
  <2>6. /\ Lengths("I", <<"lat">>) \in Seq(Nat)
    BY <1>7, <1>8, TupleNat
  <2>7. /\ Lengths("I", <<"levgrnd", "lat", "lon">>) \in Seq(Nat)
    BY <1>7, <1>8, TupleNat
  <2>8. /\ Lengths("I", <<"levlak", "lat", "lon">>) \in Seq(Nat)
    BY <1>7, <1>8, TupleNat
  <2>9. /\ Lengths("I", <<"time", "string_length">>) \in Seq(Nat)
    BY <1>7, <1>8, TupleNat
  <2>10. /\ Lengths("I", <<"time">>) \in Seq(Nat)
    BY <1>7, <1>8, TupleNat
  <2>11. /\ Lengths("I", <<"time", "hist_interval">>) \in Seq(Nat)
    BY <1>7, <1>8, TupleNat
  <2>12. /\ Lengths("I", <<"time", "lat", "lon">>) \in Seq(Nat)
    BY <1>7, <1>8, TupleNat
  <2>13. /\ Lengths("I", <<"time", "levgrnd", "lat", "lon">>) \in Seq(Nat)
    BY <1>7, <1>8, TupleNat
  <2>14. /\ Lengths("I", <<"time", "levdcmp", "lat", "lon">>) \in Seq(Nat)
    BY <1>7, <1>8, TupleNat
  <2>15. /\ Lengths("I", <<"time", "levlak", "lat", "lon">>) \in Seq(Nat)
    BY <1>7, <1>8, TupleNat
  <2>16. /\ Lengths("I", <<"time", "ltype", "lat", "lon">>) \in Seq(Nat)
    BY <1>7, <1>8, TupleNat
  <2>17. /\ Lengths("I", <<"time", "natpft", "lat", "lon">>) \in Seq(Nat)
    BY <1>7, <1>8, TupleNat
  <2> QED
    BY <2>1, <2>2, <2>3, <2>4, <2>5, <2>6, <2>7, <2>8, <2>9, <2>10, <2>11, <2>12, <2>13, <2>14, <2>15, <2>16, <2>17
<1>10. /\ Body(<<"lat", "lon">>) = <<"lat", "lon">>
       /\ Body(<<"levgrnd", "lat", "lon">>) = <<"levgrnd", "lat", "lon">>
       /\ Body(<<"levlak", "lat", "lon">>) = <<"levlak", "lat", "lon">>
       /\ Body(<<"time", "lat", "lon">>) = <<"lat", "lon">>
       /\ Body(<<"time", "levgrnd", "lat", "lon">>) = <<"levgrnd", "lat", "lon">>
       /\ Body(<<"time", "levdcmp", "lat", "lon">>) = <<"levdcmp", "lat", "lon">>
       /\ Body(<<"time", "levlak", "lat", "lon">>) = <<"levlak", "lat", "lon">>
       /\ Body(<<"time", "ltype", "lat", "lon">>) = <<"ltype", "lat", "lon">>
       /\ Body(<<"time", "natpft", "lat", "lon">>) = <<"natpft", "lat", "lon">>
  <2>1. /\ Body(<<"lat", "lon">>) = <<"lat", "lon">>
    BY BodyIs
  <2>2. /\ Body(<<"levgrnd", "lat", "lon">>) = <<"levgrnd", "lat", "lon">>
    BY BodyIs
  <2>3. /\ Body(<<"levlak", "lat", "lon">>) = <<"levlak", "lat", "lon">>
    BY BodyIs
  <2>4. /\ Body(<<"time", "lat", "lon">>) = <<"lat", "lon">>
    BY BodyIs
  <2>5. /\ Body(<<"time", "levgrnd", "lat", "lon">>) = <<"levgrnd", "lat", "lon">>
    BY GridBody
  <2>6. /\ Body(<<"time", "levdcmp", "lat", "lon">>) = <<"levdcmp", "lat", "lon">>
    BY GridBody
  <2>7. /\ Body(<<"time", "levlak", "lat", "lon">>) = <<"levlak", "lat", "lon">>
    BY GridBody
  <2>8. /\ Body(<<"time", "ltype", "lat", "lon">>) = <<"ltype", "lat", "lon">>
    BY GridBody
  <2>9. /\ Body(<<"time", "natpft", "lat", "lon">>) = <<"natpft", "lat", "lon">>
    BY GridBody
  <2> QED
    BY <2>1, <2>2, <2>3, <2>4, <2>5, <2>6, <2>7, <2>8, <2>9
<1>11. /\ Lengths("I", Body(<<"lat", "lon">>)) = MapDims["I"][1]
       /\ Lengths("I", Body(<<"levgrnd", "lat", "lon">>)) = MapDims["I"][2]
       /\ Lengths("I", Body(<<"levlak", "lat", "lon">>)) = MapDims["I"][3]
       /\ Lengths("I", Body(<<"time", "lat", "lon">>)) = MapDims["I"][1]
       /\ Lengths("I", Body(<<"time", "levgrnd", "lat", "lon">>)) = MapDims["I"][2]
       /\ Lengths("I", Body(<<"time", "levdcmp", "lat", "lon">>)) = MapDims["I"][2]
       /\ Lengths("I", Body(<<"time", "levlak", "lat", "lon">>)) = MapDims["I"][3]
       /\ Lengths("I", Body(<<"time", "ltype", "lat", "lon">>)) = MapDims["I"][4]
       /\ Lengths("I", Body(<<"time", "natpft", "lat", "lon">>)) = MapDims["I"][5]
  <2>1. /\ Lengths("I", Body(<<"lat", "lon">>)) = MapDims["I"][1]
    BY <1>3, <1>4, <1>6, <1>8, <1>10
  <2>2. /\ Lengths("I", Body(<<"levgrnd", "lat", "lon">>)) = MapDims["I"][2]
    BY <1>3, <1>4, <1>6, <1>8, <1>10
  <2>3. /\ Lengths("I", Body(<<"levlak", "lat", "lon">>)) = MapDims["I"][3]
    BY <1>3, <1>4, <1>6, <1>8, <1>10
  <2>4. /\ Lengths("I", Body(<<"time", "lat", "lon">>)) = MapDims["I"][1]
    BY <1>3, <1>4, <1>6, <1>8, <1>10
  <2>5. /\ Lengths("I", Body(<<"time", "levgrnd", "lat", "lon">>)) = MapDims["I"][2]
    BY <1>3, <1>4, <1>6, <1>8, <1>10
  <2>6. /\ Lengths("I", Body(<<"time", "levdcmp", "lat", "lon">>)) = MapDims["I"][2]
    BY <1>3, <1>4, <1>6, <1>8, <1>10
  <2>7. /\ Lengths("I", Body(<<"time", "levlak", "lat", "lon">>)) = MapDims["I"][3]
    BY <1>3, <1>4, <1>6, <1>8, <1>10
  <2>8. /\ Lengths("I", Body(<<"time", "ltype", "lat", "lon">>)) = MapDims["I"][4]
    BY <1>3, <1>4, <1>6, <1>8, <1>10
  <2>9. /\ Lengths("I", Body(<<"time", "natpft", "lat", "lon">>)) = MapDims["I"][5]
    BY <1>3, <1>4, <1>6, <1>8, <1>10
  <2> QED
    BY <2>1, <2>2, <2>3, <2>4, <2>5, <2>6, <2>7, <2>8, <2>9
<1>12. /\ ShapeFits("I", <<"lat", "lon">>, "int", 0)
       /\ ShapeFits("I", <<"levgrnd">>, "double", -1)
       /\ ShapeFits("I", <<"levlak">>, "double", -1)
       /\ ShapeFits("I", <<"levdcmp">>, "double", -1)
       /\ ShapeFits("I", <<"lon">>, "double", -1) /\ ShapeFits("I", <<"lat">>, "double", -1)
       /\ ShapeFits("I", <<"lat", "lon">>, "double", 0)
       /\ ShapeFits("I", <<"levgrnd", "lat", "lon">>, "double", 1)
       /\ ShapeFits("I", <<"levlak", "lat", "lon">>, "double", 2)
       /\ ShapeFits("I", <<"time", "string_length">>, "char", -1)
       /\ ShapeFits("I", <<"time">>, "int", -1)
       /\ ShapeFits("I", <<"time", "hist_interval">>, "double", -1)
       /\ ShapeFits("I", <<"time">>, "double", -1)
       /\ ShapeFits("I", <<"time", "lat", "lon">>, "double", 0)
       /\ ShapeFits("I", <<"time", "levgrnd", "lat", "lon">>, "double", 1)
       /\ ShapeFits("I", <<"time", "levdcmp", "lat", "lon">>, "double", 1)
       /\ ShapeFits("I", <<"time", "levlak", "lat", "lon">>, "double", 2)
       /\ ShapeFits("I", <<"time", "ltype", "lat", "lon">>, "double", 3)
       /\ ShapeFits("I", <<"time", "natpft", "lat", "lon">>, "double", 4)
  <2>1. /\ ShapeFits("I", <<"lat", "lon">>, "int", 0)
    BY <1>1, <1>9, <1>11 DEF ShapeFits
  <2>2. /\ ShapeFits("I", <<"levgrnd">>, "double", -1)
    BY <1>1, <1>9, <1>11 DEF ShapeFits
  <2>3. /\ ShapeFits("I", <<"levlak">>, "double", -1)
    BY <1>1, <1>9, <1>11 DEF ShapeFits
  <2>4. /\ ShapeFits("I", <<"levdcmp">>, "double", -1)
    BY <1>1, <1>9, <1>11 DEF ShapeFits
  <2>5. /\ ShapeFits("I", <<"lon">>, "double", -1)
    BY <1>1, <1>9, <1>11 DEF ShapeFits
  <2>6. /\ ShapeFits("I", <<"lat">>, "double", -1)
    BY <1>1, <1>9, <1>11 DEF ShapeFits
  <2>7. /\ ShapeFits("I", <<"lat", "lon">>, "double", 0)
    BY <1>1, <1>9, <1>11 DEF ShapeFits
  <2>8. /\ ShapeFits("I", <<"levgrnd", "lat", "lon">>, "double", 1)
    BY <1>1, <1>9, <1>11 DEF ShapeFits
  <2>9. /\ ShapeFits("I", <<"levlak", "lat", "lon">>, "double", 2)
    BY <1>1, <1>9, <1>11 DEF ShapeFits
  <2>10. /\ ShapeFits("I", <<"time", "string_length">>, "char", -1)
    BY <1>1, <1>9, <1>11 DEF ShapeFits
  <2>11. /\ ShapeFits("I", <<"time">>, "int", -1)
    BY <1>1, <1>9, <1>11 DEF ShapeFits
  <2>12. /\ ShapeFits("I", <<"time", "hist_interval">>, "double", -1)
    BY <1>1, <1>9, <1>11 DEF ShapeFits
  <2>13. /\ ShapeFits("I", <<"time">>, "double", -1)
    BY <1>1, <1>9, <1>11 DEF ShapeFits
  <2>14. /\ ShapeFits("I", <<"time", "lat", "lon">>, "double", 0)
    BY <1>1, <1>9, <1>11 DEF ShapeFits
  <2>15. /\ ShapeFits("I", <<"time", "levgrnd", "lat", "lon">>, "double", 1)
    BY <1>1, <1>9, <1>11 DEF ShapeFits
  <2>16. /\ ShapeFits("I", <<"time", "levdcmp", "lat", "lon">>, "double", 1)
    BY <1>1, <1>9, <1>11 DEF ShapeFits
  <2>17. /\ ShapeFits("I", <<"time", "levlak", "lat", "lon">>, "double", 2)
    BY <1>1, <1>9, <1>11 DEF ShapeFits
  <2>18. /\ ShapeFits("I", <<"time", "ltype", "lat", "lon">>, "double", 3)
    BY <1>1, <1>9, <1>11 DEF ShapeFits
  <2>19. /\ ShapeFits("I", <<"time", "natpft", "lat", "lon">>, "double", 4)
    BY <1>1, <1>9, <1>11 DEF ShapeFits
  <2> QED
    BY <2>1, <2>2, <2>3, <2>4, <2>5, <2>6, <2>7, <2>8, <2>9, <2>10, <2>11, <2>12, <2>13, <2>14, <2>15, <2>16, <2>17, <2>18, <2>19
<1> QED
  BY <1>12 DEF IShapes

\* In each case a partitioned variable of a listed shape has the shape of its
\* decomposition.
LEMMA ShapesFit ==
  ASSUME NEW case \in Cases, NEW dims, NEW itype, NEW decomp,
         <<dims, itype, decomp>> \in Shapes[case]
  PROVE  ShapeFits(case, dims, itype, decomp)
  BY FShapesFit, GShapesFit, IShapesFit DEF Shapes, Cases

-----------------------------------------------------------------------------
(* What the proofs need to know of the lists of a file.                     *)

\* Entry q of the reader's list says of a variable what entry v of the
\* writer's list says.
Same(q, v) ==
  q.name = v.name /\ q.decomp = v.decomp /\ q.itype = v.itype /\ q.attrs = v.attrs

Distinct(s) == \A j, k \in DOMAIN s : s[j].name = s[k].name => j = k

\* The two lists of file f: the writer's has shapes of the case only and is
\* in the order of the buffers, both name each variable once, and they say
\* the same of the same variables.
Matched(f) ==
  /\ Written[f] \in Seq(Ran(Written[f])) /\ LookedUp[f] \in Seq(Ran(LookedUp[f]))
  /\ \A v \in Ran(Written[f]) : <<v.dims, v.itype, v.decomp>> \in Shapes[f[1]]
  /\ \A j, k \in DOMAIN Written[f] :
       j <= k => Position(BufOf(Written[f][j])) <= Position(BufOf(Written[f][k]))
  /\ Distinct(Written[f]) /\ Distinct(LookedUp[f])
  /\ \A q \in Ran(LookedUp[f]) : \E v \in Ran(Written[f]) : Same(q, v)
  /\ \A v \in Ran(Written[f]) : \E q \in Ran(LookedUp[f]) : Same(q, v)

\* A finite list, and one of different names.
IsList(s)  == \E n \in Nat : s = [j \in 1 .. n |-> s[j]]
IsNames(s) == IsList(s) /\ \A j, k \in DOMAIN s : s[j] = s[k] => j = k

\* The names in a list, what writer and reader both say of its entries, and
\* the place in the block of the buffer an entry is kept in.
Ids(s)   == {v.name : v \in Ran(s)}
Shown(s) == {<<v.name, v.decomp, v.itype, v.attrs>> : v \in Ran(s)}
Place(v) == Position(BufOf(v))

\* A list of different entries with names in N ...
Table(s, N) == IsList(s) /\ Distinct(s) /\ Ids(s) \subseteq N

\* ... whose shapes are in H and whose places ascend from lo to hi.
Block(s, N, H, lo, hi) ==
  /\ Table(s, N)
  /\ \A v \in Ran(s) : <<v.dims, v.itype, v.decomp>> \in H /\ Place(v) \in lo .. hi
  /\ \A j, k \in DOMAIN s : j <= k => Place(s[j]) <= Place(s[k])

\* A part s of the writer's list and the part u of the reader's list for it.
Pair(s, u, N, H, lo, hi) ==
  Block(s, N, H, lo, hi) /\ Table(u, N) /\ Shown(u) = Shown(s)

\* What the concatenation c of two lists is made of.
Joined(c, s, t) ==
  /\ IsList(c)
  /\ Ran(c) = Ran(s) \cup Ran(t)
  /\ \A j, k \in DOMAIN c :
       \/ /\ j \in DOMAIN s /\ k \in DOMAIN s
          /\ c[j] = s[j] /\ c[k] = s[k]
       \/ c[j] \in Ran(s) /\ c[k] \in Ran(t) /\ j < k
       \/ c[j] \in Ran(t) /\ c[k] \in Ran(s) /\ k < j
       \/ \E l, m \in DOMAIN t :
            /\ c[j] = t[l] /\ c[k] = t[m]
            /\ (j = k <=> l = m) /\ (j <= k => l <= m)

\* What a concatenation of two lists is made of, and in which order.
LEMMA CatIs ==
  ASSUME NEW s, NEW t, IsList(s), IsList(t)
  PROVE  Joined(s \o t, s, t)
<1> DEFINE c == s \o t
<1>1. PICK m \in Nat : s = [j \in 1 .. m |-> s[j]]
  BY DEF IsList
<1>2. PICK n \in Nat : t = [j \in 1 .. n |-> t[j]]
  BY DEF IsList
<1>3. c = [j \in 1 .. (m + n) |-> IF j <= m THEN s[j] ELSE t[j - m]]
  BY <1>1, <1>2
<1> HIDE DEF c
<1>4. DOMAIN s = 1 .. m /\ DOMAIN t = 1 .. n /\ DOMAIN c = 1 .. (m + n)
  BY <1>1, <1>2, <1>3
<1>5. \A j \in 1 .. m : j \in 1 .. (m + n) /\ c[j] = s[j]
  BY <1>3
<1>6. \A j \in 1 .. n : m + j \in 1 .. (m + n) /\ c[m + j] = t[j]
  BY <1>3
<1>7. \A j \in 1 .. (m + n) : \/ j \in 1 .. m /\ c[j] = s[j]
                              \/ j \notin 1 .. m /\ j - m \in 1 .. n /\ c[j] = t[j - m]
  BY <1>3
<1>8. IsList(c)
  <2>1. c = [j \in 1 .. (m + n) |-> c[j]]
    BY <1>3
  <2>2. m + n \in Nat
    OBVIOUS
  <2> QED
    BY <2>1, <2>2 DEF IsList
<1>9. Ran(c) = Ran(s) \cup Ran(t)
  <2>1. \A x \in Ran(c) : x \in Ran(s) \cup Ran(t)
    BY <1>4, <1>7 DEF Ran
  <2>2. \A x \in Ran(s) : x \in Ran(c)
    BY <1>4, <1>5 DEF Ran
  <2>3. \A x \in Ran(t) : x \in Ran(c)
    BY <1>4, <1>6 DEF Ran
  <2> QED
    BY <2>1, <2>2, <2>3
<1>10. ASSUME NEW j \in DOMAIN c, NEW k \in DOMAIN c
       PROVE  \/ /\ j \in DOMAIN s /\ k \in DOMAIN s
                 /\ c[j] = s[j] /\ c[k] = s[k]
              \/ c[j] \in Ran(s) /\ c[k] \in Ran(t) /\ j < k
              \/ c[j] \in Ran(t) /\ c[k] \in Ran(s) /\ k < j
              \/ \E l, o \in DOMAIN t :
                   /\ c[j] = t[l] /\ c[k] = t[o]
                   /\ (j = k <=> l = o) /\ (j <= k => l <= o)
  <2>1. j \in 1 .. (m + n) /\ k \in 1 .. (m + n)
    BY <1>4
  <2>2. CASE j \in 1 .. m /\ k \in 1 .. m
    BY <2>1, <2>2, <1>4, <1>5
  <2>3. CASE j \notin 1 .. m /\ k \notin 1 .. m
    <3>1. c[j] = t[j - m] /\ c[k] = t[k - m] /\ j - m \in DOMAIN t /\ k - m \in DOMAIN t
      BY <2>1, <2>3, <1>4, <1>7
    <3>2. (j = k <=> j - m = k - m) /\ (j <= k => j - m <= k - m)
      BY <2>1
    <3> QED
      BY <3>1, <3>2
  <2>4. CASE j \in 1 .. m /\ k \notin 1 .. m
    BY <2>1, <2>4, <1>4, <1>7 DEF Ran
  <2>5. CASE j \notin 1 .. m /\ k \in 1 .. m
    BY <2>1, <2>5, <1>4, <1>7 DEF Ran
  <2> QED
    BY <2>2, <2>3, <2>4, <2>5
<1>11. Joined(c, s, t)
  BY <1>8, <1>9, <1>10 DEF Joined
<1> QED
  BY <1>11 DEF c

\* Tables of different names join.
LEMMA TableJoins ==
  \A s, t, N, M : Table(s, N) /\ Table(t, M) /\ N \cap M = {} => Table(s \o t, N \cup M)
<1> SUFFICES ASSUME NEW s, NEW t, NEW N, NEW M,
                    Table(s, N), Table(t, M), N \cap M = {}
             PROVE  Table(s \o t, N \cup M)
  OBVIOUS
<1> DEFINE c == s \o t
<1>1. /\ IsList(s) /\ Distinct(s) /\ Ids(s) \subseteq N
      /\ IsList(t) /\ Distinct(t) /\ Ids(t) \subseteq M
  BY DEF Table
<1>2. Joined(c, s, t)
  BY <1>1, CatIs
<1> HIDE DEF c
<1>3. /\ IsList(c) /\ Ran(c) = Ran(s) \cup Ran(t)
  BY <1>2 DEF Joined
<1>4. Ids(c) \subseteq N \cup M
  BY <1>1, <1>3 DEF Ids
<1>5. \A v \in Ran(s), w \in Ran(t) : v.name # w.name
  BY <1>1 DEF Ids
<1>6. ASSUME NEW j \in DOMAIN c, NEW k \in DOMAIN c, c[j].name = c[k].name
      PROVE  j = k
  <2>1. \/ /\ j \in DOMAIN s /\ k \in DOMAIN s
           /\ c[j] = s[j] /\ c[k] = s[k]
        \/ c[j] \in Ran(s) /\ c[k] \in Ran(t) /\ j < k
        \/ c[j] \in Ran(t) /\ c[k] \in Ran(s) /\ k < j
        \/ \E l, m \in DOMAIN t :
             /\ c[j] = t[l] /\ c[k] = t[m]
             /\ (j = k <=> l = m) /\ (j <= k => l <= m)
    BY <1>2 DEF Joined
  <2> QED
    BY <1>1, <1>5, <1>6, <2>1 DEF Distinct
<1>7. Table(c, N \cup M)
  BY <1>3, <1>4, <1>6 DEF Table, Distinct
<1> QED
  BY <1>7 DEF c

\* A list continued by one of other names, kept in the same buffers or later
\* ones.
LEMMA BlockJoins ==
  ASSUME NEW s, NEW t, NEW N, NEW M, NEW H,
         NEW lo \in Int, NEW mid \in Int, NEW from \in Int, NEW hi \in Int,
         Block(s, N, H, lo, mid), Block(t, M, H, from, hi), N \cap M = {},
         lo <= mid, mid <= from, from <= hi
  PROVE  Block(s \o t, N \cup M, H, lo, hi)
<1> DEFINE c == s \o t
<1>1. Table(s, N) /\ Table(t, M)
  BY DEF Block
<1>2. Table(c, N \cup M)
  BY <1>1, TableJoins
<1>3. Joined(c, s, t)
  BY <1>1, CatIs DEF Table
<1> HIDE DEF c
<1>4. Ran(c) = Ran(s) \cup Ran(t)
  BY <1>3 DEF Joined
<1>5. /\ \A v \in Ran(s) : Place(v) \in lo .. mid
      /\ \A v \in Ran(t) : Place(v) \in from .. hi
      /\ \A v \in Ran(s) \cup Ran(t) : <<v.dims, v.itype, v.decomp>> \in H
  BY DEF Block
<1>6. \A v \in Ran(c) : <<v.dims, v.itype, v.decomp>> \in H /\ Place(v) \in lo .. hi
  <2>1. \A p \in lo .. mid : p \in lo .. hi
    OBVIOUS
  <2>2. \A p \in from .. hi : p \in lo .. hi
    OBVIOUS
  <2> QED
    BY <1>4, <1>5, <2>1, <2>2
<1>7. ASSUME NEW j \in DOMAIN c, NEW k \in DOMAIN c, j <= k
      PROVE  Place(c[j]) <= Place(c[k])
  <2>1. \/ /\ j \in DOMAIN s /\ k \in DOMAIN s
           /\ c[j] = s[j] /\ c[k] = s[k]
        \/ c[j] \in Ran(s) /\ c[k] \in Ran(t) /\ j < k
        \/ c[j] \in Ran(t) /\ c[k] \in Ran(s) /\ k < j
        \/ \E l, m \in DOMAIN t :
             /\ c[j] = t[l] /\ c[k] = t[m]
             /\ (j = k <=> l = m) /\ (j <= k => l <= m)
    BY <1>3 DEF Joined
  <2>2. j \in Int /\ k \in Int
    BY <1>2 DEF Table, IsList
  <2>3. /\ \A l, m \in DOMAIN s : l <= m => Place(s[l]) <= Place(s[m])
        /\ \A l, m \in DOMAIN t : l <= m => Place(t[l]) <= Place(t[m])
    BY DEF Block
  <2> QED
    BY <1>5, <1>7, <2>1, <2>2, <2>3
<1>8. Block(c, N \cup M, H, lo, hi)
  BY <1>2, <1>6, <1>7 DEF Block
<1> QED
  BY <1>8 DEF c

\* Lists that are joined show what both show.
LEMMA ShownJoins ==
  \A s, t, N, M : Table(s, N) /\ Table(t, M) => Shown(s \o t) = Shown(s) \cup Shown(t)
<1> SUFFICES ASSUME NEW s, NEW t, NEW N, NEW M, Table(s, N), Table(t, M)
             PROVE  Shown(s \o t) = Shown(s) \cup Shown(t)
  OBVIOUS
<1>1. Joined(s \o t, s, t)
  BY CatIs DEF Table
<1>2. Ran(s \o t) = Ran(s) \cup Ran(t)
  BY <1>1 DEF Joined
<1> QED
  BY <1>2 DEF Shown

\* Parts of the two lists that show the same in different orders: what a
\* part of the writer's list, and of the reader's, consists of.
Says(s, N, X, H, lo, hi) == Block(s, N, H, lo, hi) /\ Shown(s) = X
Asks(u, N, X) == Table(u, N) /\ Shown(u) = X

\* They join as the lists do.
LEMMA SaysJoins ==
  ASSUME NEW s, NEW t, NEW N, NEW M, NEW X, NEW Y, NEW H,
         NEW lo \in Int, NEW mid \in Int, NEW from \in Int, NEW hi \in Int,
         Says(s, N, X, H, lo, mid), Says(t, M, Y, H, from, hi), N \cap M = {},
         lo <= mid, mid <= from, from <= hi
  PROVE  Says(s \o t, N \cup M, X \cup Y, H, lo, hi)
<1>1. /\ Block(s, N, H, lo, mid) /\ Table(s, N) /\ Shown(s) = X
      /\ Block(t, M, H, from, hi) /\ Table(t, M) /\ Shown(t) = Y
  BY DEF Says, Block
<1>2. Block(s \o t, N \cup M, H, lo, hi)
  BY <1>1, BlockJoins
<1>3. Shown(s \o t) = X \cup Y
  BY <1>1, ShownJoins
<1> QED
  BY <1>2, <1>3 DEF Says

\* Two parts of a reader's list with different names make one.
LEMMA AsksJoins ==
  \A s, t, N, M, X, Y :
    Asks(s, N, X) /\ Asks(t, M, Y) /\ N \cap M = {} => Asks(s \o t, N \cup M, X \cup Y)
<1> SUFFICES ASSUME NEW s, NEW t, NEW N, NEW M, NEW X, NEW Y,
                    Asks(s, N, X), Asks(t, M, Y), N \cap M = {}
             PROVE  Asks(s \o t, N \cup M, X \cup Y)
  OBVIOUS
<1>1. Table(s, N) /\ Shown(s) = X /\ Table(t, M) /\ Shown(t) = Y
  BY DEF Asks
<1>2. Table(s \o t, N \cup M)
  BY <1>1, TableJoins
<1>3. Shown(s \o t) = X \cup Y
  BY <1>1, ShownJoins
<1> QED
  BY <1>2, <1>3 DEF Asks

\* Nearly all entries are partitioned record variables in double precision,
\* in the seventh buffer.
Alike(s, u, N, H) == Pair(s, u, N, H, 7, 7)

\* Two parts of both lists join, also after a part in other buffers.
LEMMA AlikeJoins ==
  \A s, u, t, w, N, M, H :
    Alike(s, u, N, H) /\ Alike(t, w, M, H) /\ N \cap M = {} => Alike(s \o t, u \o w, N \cup M, H)
<1> SUFFICES ASSUME NEW s, NEW u, NEW t, NEW w, NEW N, NEW M, NEW H,
                    Alike(s, u, N, H), Alike(t, w, M, H), N \cap M = {}
             PROVE  Alike(s \o t, u \o w, N \cup M, H)
  OBVIOUS
<1>1. /\ Block(s, N, H, 7, 7) /\ Table(s, N) /\ Table(u, N) /\ Shown(u) = Shown(s)
      /\ Block(t, M, H, 7, 7) /\ Table(t, M) /\ Table(w, M) /\ Shown(w) = Shown(t)
  BY DEF Alike, Pair, Block
<1>2. Block(s \o t, N \cup M, H, 7, 7)
  BY <1>1, BlockJoins
<1>3. Table(u \o w, N \cup M)
  BY <1>1, TableJoins
<1>4. Shown(u \o w) = Shown(s \o t)
  <2>1. Shown(u \o w) = Shown(u) \cup Shown(w)
    BY <1>1, ShownJoins
  <2>2. Shown(s \o t) = Shown(s) \cup Shown(t)
    BY <1>1, ShownJoins
  <2> QED
    BY <1>1, <2>1, <2>2
<1> QED
  BY <1>2, <1>3, <1>4 DEF Alike, Pair

\* A pair of lists goes on with a part that writer and reader have alike.
LEMMA PairExtends ==
  \A s, u, t, w, N, M, H :
    Pair(s, u, N, H, 1, 7) /\ Alike(t, w, M, H) /\ N \cap M = {}
      => Pair(s \o t, u \o w, N \cup M, H, 1, 7)
<1> SUFFICES ASSUME NEW s, NEW u, NEW t, NEW w, NEW N, NEW M, NEW H,
                    Pair(s, u, N, H, 1, 7), Alike(t, w, M, H), N \cap M = {}
             PROVE  Pair(s \o t, u \o w, N \cup M, H, 1, 7)
  OBVIOUS
<1>1. /\ Block(s, N, H, 1, 7) /\ Table(s, N) /\ Table(u, N) /\ Shown(u) = Shown(s)
      /\ Block(t, M, H, 7, 7) /\ Table(t, M) /\ Table(w, M) /\ Shown(w) = Shown(t)
  BY DEF Alike, Pair, Block
<1>2. Block(s \o t, N \cup M, H, 1, 7)
  BY <1>1, BlockJoins
<1>3. Table(u \o w, N \cup M)
  BY <1>1, TableJoins
<1>4. Shown(u \o w) = Shown(s \o t)
  <2>1. Shown(u \o w) = Shown(u) \cup Shown(w)
    BY <1>1, ShownJoins
  <2>2. Shown(s \o t) = Shown(s) \cup Shown(t)
    BY <1>1, ShownJoins
  <2> QED
    BY <1>1, <2>1, <2>2
<1> QED
  BY <1>2, <1>3, <1>4 DEF Pair

\* The lists without what is under a condition.
LEMMA NothingIs ==
  \A N, H : \A lo, hi \in Int : Pair(<<>>, <<>>, N, H, lo, hi)
<1>1. IsList(<<>>) /\ Ran(<<>>) = {}
  <2>1. DOMAIN <<>> = {} /\ <<>> = [j \in 1 .. 0 |-> <<>>[j]]
    OBVIOUS
  <2> QED
    BY <2>1 DEF IsList, Ran
<1>2. DOMAIN <<>> = {}
  OBVIOUS
<1> QED
  BY <1>1, <1>2 DEF Pair, Block, Table, Distinct, Ids, Shown

\* A part that only one history file has, which is so for writer and reader.
LEMMA OnlyAlike ==
  \A s, u, N, H, h, hist :
    Alike(s, u, N, H) => Alike(Only(h, hist, s), Only(h, hist, u), N, H)
  BY NothingIs DEF Alike, Only

\* What the entries of a run show.
Each(names, decomp, itype, attrs) == {<<n, decomp, itype, attrs>> : n \in Ran(names)}

\* A run of the writer's list, and of the reader's.
LEMMA VarsIs ==
  ASSUME NEW names, NEW dims, NEW xtype, NEW itype, NEW decomp, NEW attrs, IsNames(names)
  PROVE  LET s == Vars(names, dims, xtype, itype, decomp, attrs)
         IN  /\ Table(s, Ran(names))
             /\ Shown(s) = Each(names, decomp, itype, attrs)
             /\ \A v \in Ran(s) : v.dims = dims /\ v.itype = itype /\ v.decomp = decomp
<1> DEFINE s == Vars(names, dims, xtype, itype, decomp, attrs)
<1>1. /\ DOMAIN s = DOMAIN names
      /\ \A j \in DOMAIN names :
           s[j] = [name |-> names[j], dims |-> dims, xtype |-> xtype, itype |-> itype,
                   decomp |-> decomp, attrs |-> attrs]
      /\ s = [j \in DOMAIN names |-> s[j]]
  BY DEF Vars
<1> HIDE DEF s
<1>2. IsList(s)
  BY <1>1 DEF IsNames, IsList
<1>3. Distinct(s)
  BY <1>1 DEF Distinct, IsNames
<1>4. \A x : x \in Ran(s) <=> \E n \in Ran(names) :
             x = [name |-> n, dims |-> dims, xtype |-> xtype, itype |-> itype,
                  decomp |-> decomp, attrs |-> attrs]
  BY <1>1 DEF Ran
<1>5. Ids(s) \subseteq Ran(names)
  BY <1>4 DEF Ids
<1>6. Shown(s) = Each(names, decomp, itype, attrs)
  <2>1. \A n \in Ran(names) : \E v \in Ran(s) :
          v.name = n /\ v.decomp = decomp /\ v.itype = itype /\ v.attrs = attrs
    <3> TAKE n \in Ran(names)
    <3> DEFINE v == [name |-> n, dims |-> dims, xtype |-> xtype, itype |-> itype,
                     decomp |-> decomp, attrs |-> attrs]
    <3>1. v \in Ran(s)
      BY <1>4
    <3>2. v.name = n /\ v.decomp = decomp /\ v.itype = itype /\ v.attrs = attrs
      OBVIOUS
    <3> QED
      BY <3>1, <3>2
  <2>2. \A v \in Ran(s) :
          v.name \in Ran(names) /\ v.decomp = decomp /\ v.itype = itype /\ v.attrs = attrs
    BY <1>4
  <2> QED
    BY <2>1, <2>2 DEF Shown, Each
<1>7. \A v \in Ran(s) : v.dims = dims /\ v.itype = itype /\ v.decomp = decomp
  BY <1>4
<1> QED
  BY <1>2, <1>3, <1>5, <1>6, <1>7 DEF Table, s

\* The reader's part for a run of names.
LEMMA InqIs ==
  ASSUME NEW names, NEW itype, NEW decomp, NEW attrs, IsNames(names)
  PROVE  LET s == Inq(names, itype, decomp, attrs)
         IN  /\ Table(s, Ran(names))
             /\ Shown(s) = Each(names, decomp, itype, attrs)
<1> DEFINE s == Inq(names, itype, decomp, attrs)
<1>1. /\ DOMAIN s = DOMAIN names
      /\ \A j \in DOMAIN names :
           s[j] = [name |-> names[j], itype |-> itype, decomp |-> decomp, attrs |-> attrs]
      /\ s = [j \in DOMAIN names |-> s[j]]
  BY DEF Inq
<1> HIDE DEF s
<1>2. IsList(s)
  BY <1>1 DEF IsNames, IsList
<1>3. Distinct(s)
  BY <1>1 DEF Distinct, IsNames
<1>4. \A x : x \in Ran(s) <=> \E n \in Ran(names) :
             x = [name |-> n, itype |-> itype, decomp |-> decomp, attrs |-> attrs]
  BY <1>1 DEF Ran
<1>5. Ids(s) \subseteq Ran(names)
  BY <1>4 DEF Ids
<1>6. Shown(s) = Each(names, decomp, itype, attrs)
  <2>1. \A n \in Ran(names) : \E v \in Ran(s) :
          v.name = n /\ v.decomp = decomp /\ v.itype = itype /\ v.attrs = attrs
    <3> TAKE n \in Ran(names)
    <3> DEFINE v == [name |-> n, itype |-> itype, decomp |-> decomp, attrs |-> attrs]
    <3>1. v \in Ran(s)
      BY <1>4
    <3>2. v.name = n /\ v.decomp = decomp /\ v.itype = itype /\ v.attrs = attrs
      OBVIOUS
    <3> QED
      BY <3>1, <3>2
  <2>2. \A v \in Ran(s) :
          v.name \in Ran(names) /\ v.decomp = decomp /\ v.itype = itype /\ v.attrs = attrs
    BY <1>4
  <2> QED
    BY <2>1, <2>2 DEF Shown, Each
<1> QED
  BY <1>2, <1>3, <1>5, <1>6 DEF Table, s

\* The place of a run.
PlaceOf(dims, itype) ==
  Position(<<IF dims # <<>> /\ dims[1] = "time" THEN "rec" ELSE "fix", itype>>)

\* The buffer of a variable, by its dimensions and its type in memory.
LEMMA PlaceIs ==
  /\ PlaceOf(<<>>, "int") = 2 /\ PlaceOf(<<>>, "double") = 3
  /\ \A x : /\ x # "time" => PlaceOf(<<x>>, "int") = 2 /\ PlaceOf(<<x>>, "double") = 3
            /\ PlaceOf(<<"time">>, "int") = 6 /\ PlaceOf(<<"time">>, "double") = 7
  /\ \A x, y : /\ x # "time" => PlaceOf(<<x, y>>, "int") = 2 /\ PlaceOf(<<x, y>>, "double") = 3
               /\ PlaceOf(<<"time", y>>, "char") = 5 /\ PlaceOf(<<"time", y>>, "double") = 7
  /\ \A x, y, z : /\ x # "time" => PlaceOf(<<x, y, z>>, "double") = 3
                  /\ PlaceOf(<<"time", y, z>>, "double") = 7
  /\ \A x, y, z : PlaceOf(<<"time", x, y, z>>, "double") = 7
<1>1. /\ Position(<<"fix", "int">>) = 2 /\ Position(<<"fix", "double">>) = 3
      /\ Position(<<"rec", "char">>) = 5 /\ Position(<<"rec", "int">>) = 6
      /\ Position(<<"rec", "double">>) = 7
  <2>1. /\ Buffers[2] = <<"fix", "int">> /\ Buffers[3] = <<"fix", "double">>
        /\ Buffers[5] = <<"rec", "char">> /\ Buffers[6] = <<"rec", "int">>
        /\ Buffers[7] = <<"rec", "double">>
    BY DEF Buffers
  <2>2. \A k \in 1 .. 8 : Position(Buffers[k]) = k
    BY BuffersIs
  <2> HIDE DEF Buffers
  <2>3. 2 \in 1 .. 8 /\ 3 \in 1 .. 8 /\ 5 \in 1 .. 8 /\ 6 \in 1 .. 8 /\ 7 \in 1 .. 8
    OBVIOUS
  <2> QED
    BY <2>1, <2>2, <2>3
<1>2. <<>> = <<>>
  OBVIOUS
<1>3. /\ PlaceOf(<<>>, "int") = 2 /\ PlaceOf(<<>>, "double") = 3
  BY <1>1 DEF PlaceOf
<1>4. \A x : /\ x # "time" => PlaceOf(<<x>>, "int") = 2 /\ PlaceOf(<<x>>, "double") = 3
             /\ PlaceOf(<<"time">>, "int") = 6 /\ PlaceOf(<<"time">>, "double") = 7
  BY <1>1 DEF PlaceOf
<1>5. \A x, y :
         /\ x # "time" => PlaceOf(<<x, y>>, "int") = 2 /\ PlaceOf(<<x, y>>, "double") = 3
         /\ PlaceOf(<<"time", y>>, "char") = 5 /\ PlaceOf(<<"time", y>>, "double") = 7
  BY <1>1 DEF PlaceOf
<1>6. \A x, y, z : /\ x # "time" => PlaceOf(<<x, y, z>>, "double") = 3
                   /\ PlaceOf(<<"time", y, z>>, "double") = 7
  BY <1>1 DEF PlaceOf
<1>7. \A x, y, z : PlaceOf(<<"time", x, y, z>>, "double") = 7
  BY <1>1 DEF PlaceOf
<1> QED
  BY <1>3, <1>4, <1>5, <1>6, <1>7

\* A run whose shape and place are known.
LEMMA RunBlock ==
  \A names, dims, xtype, itype, decomp, attrs, H : \A p \in Int :
    IsNames(names) /\ <<dims, itype, decomp>> \in H /\ PlaceOf(dims, itype) = p
      => /\ Block(Vars(names, dims, xtype, itype, decomp, attrs), Ran(names), H, p, p)
         /\ Shown(Vars(names, dims, xtype, itype, decomp, attrs))
              = Each(names, decomp, itype, attrs)
<1> SUFFICES ASSUME NEW names, NEW dims, NEW xtype, NEW itype, NEW decomp, NEW attrs, NEW H,
                    NEW p \in Int,
                    IsNames(names), <<dims, itype, decomp>> \in H, PlaceOf(dims, itype) = p
             PROVE  /\ Block(Vars(names, dims, xtype, itype, decomp, attrs), Ran(names), H, p, p)
                    /\ Shown(Vars(names, dims, xtype, itype, decomp, attrs))
                         = Each(names, decomp, itype, attrs)
  OBVIOUS
<1> DEFINE s == Vars(names, dims, xtype, itype, decomp, attrs)
<1>1. /\ Table(s, Ran(names))
      /\ Shown(s) = Each(names, decomp, itype, attrs)
      /\ \A v \in Ran(s) : v.dims = dims /\ v.itype = itype /\ v.decomp = decomp
  BY VarsIs
<1> HIDE DEF s
<1>2. \A v \in Ran(s) : Place(v) = p
  BY <1>1 DEF Place, PlaceOf, BufOf, IsRec
<1>3. \A j \in DOMAIN s : s[j] \in Ran(s)
  BY DEF Ran
<1>4. Block(s, Ran(names), H, p, p)
  <2>1. \A v \in Ran(s) : <<v.dims, v.itype, v.decomp>> \in H /\ Place(v) \in p .. p
    BY <1>1, <1>2
  <2>2. \A j, k \in DOMAIN s : j <= k => Place(s[j]) <= Place(s[k])
    BY <1>2, <1>3
  <2> QED
    BY <1>1, <2>1, <2>2 DEF Block
<1> QED
  BY <1>1, <1>4 DEF s

\* InqIs for all runs.
LEMMA RunTable ==
  \A names, itype, decomp, attrs :
    IsNames(names) => /\ Table(Inq(names, itype, decomp, attrs), Ran(names))
                      /\ Shown(Inq(names, itype, decomp, attrs))
                           = Each(names, decomp, itype, attrs)
  BY InqIs

\* A part of a writer's list that is one run.
LEMMA RunSays ==
  \A names, dims, xtype, itype, decomp, attrs, H : \A p \in Int :
    IsNames(names) /\ <<dims, itype, decomp>> \in H /\ PlaceOf(dims, itype) = p
      => Says(Vars(names, dims, xtype, itype, decomp, attrs), Ran(names),
              Each(names, decomp, itype, attrs), H, p, p)
  BY RunBlock DEF Says

\* A part of a reader's list that is one run.
LEMMA RunAsks ==
  \A names, itype, decomp, attrs :
    IsNames(names) => Asks(Inq(names, itype, decomp, attrs), Ran(names),
                           Each(names, decomp, itype, attrs))
  BY RunTable DEF Asks

\* The same run in the writer's and in the reader's list.
LEMMA RunAlike ==
  \A names, dims, xtype, decomp, attrs, H :
    IsNames(names) /\ <<dims, "double", decomp>> \in H /\ PlaceOf(dims, "double") = 7
      => Alike(Vars(names, dims, xtype, "double", decomp, attrs),
               Inq(names, "double", decomp, attrs), Ran(names), H)
  BY RunBlock, RunTable DEF Alike, Pair

\* The two runs of the atmosphere case, and of the land case.
LEMMA ColAlike ==
  \A t, at : IsNames(t) => Alike(DefCol(t, at), InqCol(t, at), Ran(t), FShapes)
<1>1. PlaceOf(<<"time", "ncol">>, "double") = 7
  BY PlaceIs
<1>2. << <<"time", "ncol">>, "double", 1 >> \in FShapes
  BY DEF FShapes
<1> QED
  BY <1>1, <1>2, RunAlike DEF DefCol, InqCol

\* The run of levels by columns of the atmosphere case.
LEMMA ColLevAlike ==
  \A t, at : IsNames(t) => Alike(DefColLev(t, at), InqColLev(t, at), Ran(t), FShapes)
<1>1. PlaceOf(<<"time", "lev", "ncol">>, "double") = 7
  BY PlaceIs
<1>2. << <<"time", "lev", "ncol">>, "double", 2 >> \in FShapes
  BY DEF FShapes
<1> QED
  BY <1>1, <1>2, RunAlike DEF DefColLev, InqColLev

\* The run of grid variables of the land case.
LEMMA GridAlike ==
  \A t : IsNames(t) => Alike(DefGrid(t), InqGrid(t), Ran(t), IShapes)
<1>1. PlaceOf(<<"time", "lat", "lon">>, "double") = 7
  BY PlaceIs
<1>2. << <<"time", "lat", "lon">>, "double", 0 >> \in IShapes
  BY DEF IShapes
<1> QED
  BY <1>1, <1>2, RunAlike DEF DefGrid, InqGrid

\* The runs of ground and decomposition levels of the land case.
LEMMA LevelsAlike ==
  \A l, t : l \in {"levgrnd", "levdcmp"} /\ IsNames(t)
              => Alike(DefLevels(l, t), InqLevels(t), Ran(t), IShapes)
<1>1. \A l : PlaceOf(<<"time", l, "lat", "lon">>, "double") = 7
  BY PlaceIs
<1>2. \A l \in {"levgrnd", "levdcmp"} : << <<"time", l, "lat", "lon">>, "double", 1 >> \in IShapes
  BY DEF IShapes
<1> QED
  BY <1>1, <1>2, RunAlike DEF DefLevels, InqLevels

\* ... and the runs of the land case that are written out.
LEMMA MoreAlike ==
  /\ \A t, at :
       IsNames(t) => Alike(Vars(t, <<"time", "lat", "lon">>, "rec", "double", 0, at),
                           Inq(t, "double", 0, at), Ran(t), IShapes)
  /\ \A l, d, t, at :
       <<l, d>> \in {<<"levgrnd", 1>>, <<"levlak", 2>>, <<"ltype", 3>>, <<"natpft", 4>>} /\ IsNames(t)
         => Alike(Vars(t, <<"time", l, "lat", "lon">>, "rec", "double", d, at),
                  Inq(t, "double", d, at), Ran(t), IShapes)
<1>1. /\ PlaceOf(<<"time", "lat", "lon">>, "double") = 7
      /\ \A l : PlaceOf(<<"time", l, "lat", "lon">>, "double") = 7
  BY PlaceIs
<1>2. /\ << <<"time", "lat", "lon">>, "double", 0 >> \in IShapes
      /\ \A l, d : <<l, d>> \in {<<"levgrnd", 1>>, <<"levlak", 2>>, <<"ltype", 3>>, <<"natpft", 4>>}
           => << <<"time", l, "lat", "lon">>, "double", d >> \in IShapes
  BY DEF IShapes
<1>3. \A t, at :
        IsNames(t) => Alike(Vars(t, <<"time", "lat", "lon">>, "rec", "double", 0, at),
                            Inq(t, "double", 0, at), Ran(t), IShapes)
  BY <1>1, <1>2, RunAlike
<1>4. ASSUME NEW l, NEW d, NEW t, NEW at, IsNames(t),
             <<l, d>> \in {<<"levgrnd", 1>>, <<"levlak", 2>>, <<"ltype", 3>>, <<"natpft", 4>>}
      PROVE  Alike(Vars(t, <<"time", l, "lat", "lon">>, "rec", "double", d, at),
                   Inq(t, "double", d, at), Ran(t), IShapes)
  <2>1. PlaceOf(<<"time", l, "lat", "lon">>, "double") = 7
    BY <1>1
  <2>2. << <<"time", l, "lat", "lon">>, "double", d >> \in IShapes
    BY <1>2, <1>4
  <2> QED
    BY <1>4, <2>1, <2>2, RunAlike
<1> QED
  BY <1>3, <1>4

\* A block may be said to be in more buffers than it is.
LEMMA BlockWidens ==
  ASSUME NEW s, NEW N, NEW H, NEW lo \in Int, NEW hi \in Int, NEW low \in Int, NEW high \in Int,
         Block(s, N, H, lo, hi), low <= lo, hi <= high
  PROVE  Block(s, N, H, low, high)
<1>1. \A p \in lo .. hi : p \in low .. high
  OBVIOUS
<1> QED
  BY <1>1 DEF Block

-----------------------------------------------------------------------------
(* The lists of the atmosphere case.  For each part of the writer's list   *)
(* and the part of the reader's for the same variables: the names, and     *)
(* that the parts are alike.  The parts in front are in different orders   *)
(* and are compared by all they show.                                      *)

FDef1Names ==
  {"ndbase", "nsbase", "nbdate", "nbsec", "mdt", "lev", "hyam", "hybm", "P0", "ilev",
   "hyai", "hybi", "lat", "lon", "area", "date_written", "time_written", "date", "datesec",
   "ndcur", "nscur", "nsteph", "time", "time_bnds", "co2vmr", "ch4vmr", "n2ovmr", "f11vmr",
   "f12vmr", "sol_tsi"}
FDef1Shown ==
  {<<"ndbase", -1, "int", L>>, <<"nsbase", -1, "int", L>>, <<"nbdate", -1, "int", L>>,
   <<"nbsec", -1, "int", L>>, <<"mdt", -1, "int", UL>>,
   <<"lev", -1, "double", UL \cup Standard \cup Txt({"formula_terms", "positive"})>>,
   <<"hyam", -1, "double", L>>, <<"hybm", -1, "double", L>>, <<"P0", -1, "double", UL>>,
   <<"ilev", -1, "double", UL \cup Standard \cup Txt({"formula_terms", "positive"})>>,
   <<"hyai", -1, "double", L>>, <<"hybi", -1, "double", L>>, <<"lat", 1, "double", UL>>,
   <<"lon", 1, "double", UL>>, <<"area", 0, "double", L>>,
   <<"date_written", -1, "char", {}>>, <<"time_written", -1, "char", {}>>,
   <<"date", -1, "int", L>>, <<"datesec", -1, "int", L>>, <<"ndcur", -1, "int", L>>,
   <<"nscur", -1, "int", L>>, <<"nsteph", -1, "int", L>>,
   <<"time", -1, "double", UL \cup Txt({"bounds", "calendar"})>>,
   <<"time_bnds", -1, "double", L>>, <<"co2vmr", -1, "double", L>>,
   <<"ch4vmr", -1, "double", L>>, <<"n2ovmr", -1, "double", L>>,
   <<"f11vmr", -1, "double", L>>, <<"f12vmr", -1, "double", L>>,
   <<"sol_tsi", -1, "double", UL>>}

\* The first part of header_def_F_case.cpp, up to the record variables.
LEMMA FDef1Is == Says(FDef1, FDef1Names, FDef1Shown, FShapes, 2, 7)
<1> DEFINE n1 == FDef1!1!1!1!1!1!1!1!1!1!1!1!1!1!1!1
           n2 == FDef1!1!1!1!1!1!1!1!1!1!1!1!1!1!2!1
           n3 == FDef1!1!1!1!1!1!1!1!1!1!1!1!1!2!1
           n4 == FDef1!1!1!1!1!1!1!1!1!1!1!1!2!1
           n5 == FDef1!1!1!1!1!1!1!1!1!1!1!2!1
           n6 == FDef1!1!1!1!1!1!1!1!1!1!2!1
           n7 == FDef1!1!1!1!1!1!1!1!1!2!1
           n8 == FDef1!1!1!1!1!1!1!1!2!1
           n9 == FDef1!1!1!1!1!1!1!2!1
           n10 == FDef1!1!1!1!1!1!2!1
           n11 == FDef1!1!1!1!1!2!1
           n12 == FDef1!1!1!1!2!1
           n13 == FDef1!1!1!2!1
           n14 == FDef1!1!2!1
           n15 == FDef1!2!1
           r1 == FDef1!1!1!1!1!1!1!1!1!1!1!1!1!1!1
           r2 == FDef1!1!1!1!1!1!1!1!1!1!1!1!1!1!2
           r3 == FDef1!1!1!1!1!1!1!1!1!1!1!1!1!2
           r4 == FDef1!1!1!1!1!1!1!1!1!1!1!1!2
           r5 == FDef1!1!1!1!1!1!1!1!1!1!1!2
           r6 == FDef1!1!1!1!1!1!1!1!1!1!2
           r7 == FDef1!1!1!1!1!1!1!1!1!2
           r8 == FDef1!1!1!1!1!1!1!1!2
           r9 == FDef1!1!1!1!1!1!1!2
           r10 == FDef1!1!1!1!1!1!2
           r11 == FDef1!1!1!1!1!2
           r12 == FDef1!1!1!1!2
           r13 == FDef1!1!1!2
           r14 == FDef1!1!2
           r15 == FDef1!2
           e1 == Each(n1, -1, "int", L)
           e2 == Each(n2, -1, "int", UL)
           e3 == Each(n3, -1, "double", UL \cup Standard \cup Txt({"formula_terms", "positive"}))
           e4 == Each(n4, -1, "double", L)
           e5 == Each(n5, -1, "double", UL)
           e6 == Each(n6, -1, "double", UL \cup Standard \cup Txt({"formula_terms", "positive"}))
           e7 == Each(n7, -1, "double", L)
           e8 == Each(n8, 1, "double", UL)
           e9 == Each(n9, 0, "double", L)
           e10 == Each(n10, -1, "char", {})
           e11 == Each(n11, -1, "int", L)
           e12 == Each(n12, -1, "double", UL \cup Txt({"bounds", "calendar"}))
           e13 == Each(n13, -1, "double", L)
           e14 == Each(n14, -1, "double", L)
           e15 == Each(n15, -1, "double", UL)
           x1 == {<<"ndbase", -1, "int", L>>, <<"nsbase", -1, "int", L>>, <<"nbdate", -1, "int", L>>,
       <<"nbsec", -1, "int", L>>}
           x2 == {<<"mdt", -1, "int", UL>>}
           x3 == {<<"lev", -1, "double", UL \cup Standard \cup Txt({"formula_terms", "positive"})>>}
           x4 == {<<"hyam", -1, "double", L>>, <<"hybm", -1, "double", L>>}
           x5 == {<<"P0", -1, "double", UL>>}
           x6 == {<<"ilev", -1, "double", UL \cup Standard \cup Txt({"formula_terms", "positive"})>>}
           x7 == {<<"hyai", -1, "double", L>>, <<"hybi", -1, "double", L>>}
           x8 == {<<"lat", 1, "double", UL>>, <<"lon", 1, "double", UL>>}
           x9 == {<<"area", 0, "double", L>>}
           x10 == {<<"date_written", -1, "char", {}>>, <<"time_written", -1, "char", {}>>}
           x11 == {<<"date", -1, "int", L>>, <<"datesec", -1, "int", L>>, <<"ndcur", -1, "int", L>>,
       <<"nscur", -1, "int", L>>, <<"nsteph", -1, "int", L>>}
           x12 == {<<"time", -1, "double", UL \cup Txt({"bounds", "calendar"})>>}
           x13 == {<<"time_bnds", -1, "double", L>>}
           x14 == {<<"co2vmr", -1, "double", L>>, <<"ch4vmr", -1, "double", L>>,
       <<"n2ovmr", -1, "double", L>>, <<"f11vmr", -1, "double", L>>,
       <<"f12vmr", -1, "double", L>>}
           x15 == {<<"sol_tsi", -1, "double", UL>>}
           N1 == Ran(n1)
           N2 == N1 \cup Ran(n2)
           N3 == N2 \cup Ran(n3)
           N4 == N3 \cup Ran(n4)
           N5 == N4 \cup Ran(n5)
           N6 == N5 \cup Ran(n6)
           N7 == N6 \cup Ran(n7)
           N8 == N7 \cup Ran(n8)
           N9 == N8 \cup Ran(n9)
           N10 == N9 \cup Ran(n10)
           N11 == N10 \cup Ran(n11)
           N12 == N11 \cup Ran(n12)
           N13 == N12 \cup Ran(n13)
           N14 == N13 \cup Ran(n14)
           N15 == N14 \cup Ran(n15)
<1>1. /\ IsNames(n11)
      /\ IsNames(n14)
      /\ IsNames(n1)
      /\ IsNames(n2)
      /\ IsNames(n3)
      /\ IsNames(n4)
      /\ IsNames(n5)
      /\ IsNames(n6)
      /\ IsNames(n7)
      /\ IsNames(n8)
      /\ IsNames(n9)
      /\ IsNames(n10)
      /\ IsNames(n12)
      /\ IsNames(n13)
      /\ IsNames(n15)
  <2>1. IsNames(n11)
    BY DEF IsNames, IsList
  <2>2. IsNames(n14)
    BY DEF IsNames, IsList
  <2>3. /\ IsNames(n1)
        /\ IsNames(n2)
        /\ IsNames(n3)
        /\ IsNames(n4)
        /\ IsNames(n5)
        /\ IsNames(n6)
    BY DEF IsNames, IsList
  <2>4. /\ IsNames(n7)
        /\ IsNames(n8)
        /\ IsNames(n9)
        /\ IsNames(n10)
        /\ IsNames(n12)
        /\ IsNames(n13)
    BY DEF IsNames, IsList
  <2>5. IsNames(n15)
    BY DEF IsNames, IsList
  <2> QED
    BY <2>1, <2>2, <2>3, <2>4, <2>5
<1>2. /\ N1 \cap Ran(n2) = {}
      /\ N2 \cap Ran(n3) = {}
      /\ N3 \cap Ran(n4) = {}
      /\ N4 \cap Ran(n5) = {}
      /\ N5 \cap Ran(n6) = {}
      /\ N6 \cap Ran(n7) = {}
      /\ N7 \cap Ran(n8) = {}
      /\ N8 \cap Ran(n9) = {}
      /\ N9 \cap Ran(n10) = {}
      /\ N10 \cap Ran(n11) = {}
      /\ N11 \cap Ran(n12) = {}
      /\ N12 \cap Ran(n13) = {}
      /\ N13 \cap Ran(n14) = {}
      /\ N14 \cap Ran(n15) = {}
  BY DEF Ran
<1>3. N15 = FDef1Names
  BY DEF Ran, FDef1Names
<1>4. /\ << <<>>, "int", -1 >> \in FShapes /\ PlaceOf(<<>>, "int") = 2
      /\ << <<"lev">>, "double", -1 >> \in FShapes /\ PlaceOf(<<"lev">>, "double") = 3
      /\ << <<>>, "double", -1 >> \in FShapes /\ PlaceOf(<<>>, "double") = 3
      /\ << <<"ilev">>, "double", -1 >> \in FShapes /\ PlaceOf(<<"ilev">>, "double") = 3
      /\ << <<"ncol">>, "double", 1 >> \in FShapes /\ PlaceOf(<<"ncol">>, "double") = 3
      /\ << <<"ncol">>, "double", 0 >> \in FShapes /\ PlaceOf(<<"ncol">>, "double") = 3
      /\ << <<"time", "chars">>, "char", -1 >> \in FShapes /\ PlaceOf(<<"time", "chars">>, "char") = 5
      /\ << <<"time">>, "int", -1 >> \in FShapes /\ PlaceOf(<<"time">>, "int") = 6
      /\ << <<"time">>, "double", -1 >> \in FShapes /\ PlaceOf(<<"time">>, "double") = 7
      /\ << <<"time", "nbnd">>, "double", -1 >> \in FShapes /\ PlaceOf(<<"time", "nbnd">>, "double") = 7
  <2>1. /\ << <<>>, "int", -1 >> \in FShapes /\ PlaceOf(<<>>, "int") = 2
        /\ << <<"lev">>, "double", -1 >> \in FShapes /\ PlaceOf(<<"lev">>, "double") = 3
        /\ << <<>>, "double", -1 >> \in FShapes /\ PlaceOf(<<>>, "double") = 3
    BY PlaceIs DEF FShapes
  <2>2. /\ << <<"ilev">>, "double", -1 >> \in FShapes /\ PlaceOf(<<"ilev">>, "double") = 3
        /\ << <<"ncol">>, "double", 1 >> \in FShapes /\ PlaceOf(<<"ncol">>, "double") = 3
        /\ << <<"ncol">>, "double", 0 >> \in FShapes /\ PlaceOf(<<"ncol">>, "double") = 3
    BY PlaceIs DEF FShapes
  <2>3. /\ << <<"time", "chars">>, "char", -1 >> \in FShapes /\ PlaceOf(<<"time", "chars">>, "char") = 5
        /\ << <<"time">>, "int", -1 >> \in FShapes /\ PlaceOf(<<"time">>, "int") = 6
        /\ << <<"time">>, "double", -1 >> \in FShapes /\ PlaceOf(<<"time">>, "double") = 7
    BY PlaceIs DEF FShapes
  <2>4. << <<"time", "nbnd">>, "double", -1 >> \in FShapes /\ PlaceOf(<<"time", "nbnd">>, "double") = 7
    BY PlaceIs DEF FShapes
  <2> QED
    BY <2>1, <2>2, <2>3, <2>4
<1>5. /\ Says(r1, Ran(n1), e1, FShapes, 2, 2)
      /\ Says(r2, Ran(n2), e2, FShapes, 2, 2)
      /\ Says(r3, Ran(n3), e3, FShapes, 3, 3)
      /\ Says(r4, Ran(n4), e4, FShapes, 3, 3)
      /\ Says(r5, Ran(n5), e5, FShapes, 3, 3)
      /\ Says(r6, Ran(n6), e6, FShapes, 3, 3)
      /\ Says(r7, Ran(n7), e7, FShapes, 3, 3)
      /\ Says(r8, Ran(n8), e8, FShapes, 3, 3)
      /\ Says(r9, Ran(n9), e9, FShapes, 3, 3)
      /\ Says(r10, Ran(n10), e10, FShapes, 5, 5)
      /\ Says(r11, Ran(n11), e11, FShapes, 6, 6)
      /\ Says(r12, Ran(n12), e12, FShapes, 7, 7)
      /\ Says(r13, Ran(n13), e13, FShapes, 7, 7)
      /\ Says(r14, Ran(n14), e14, FShapes, 7, 7)
      /\ Says(r15, Ran(n15), e15, FShapes, 7, 7)
  <2>1. Says(r1, Ran(n1), e1, FShapes, 2, 2)
    <3>1. << <<>>, "int", -1 >> \in FShapes /\ PlaceOf(<<>>, "int") = 2
      BY <1>4
    <3>2. IsNames(n1)
      BY <1>1
    <3> QED
      BY <3>1, <3>2, RunSays
  <2>2. Says(r2, Ran(n2), e2, FShapes, 2, 2)
    <3>1. << <<>>, "int", -1 >> \in FShapes /\ PlaceOf(<<>>, "int") = 2
      BY <1>4
    <3>2. IsNames(n2)
      BY <1>1
    <3> QED
      BY <3>1, <3>2, RunSays
  <2>3. Says(r3, Ran(n3), e3, FShapes, 3, 3)
    <3>1. << <<"lev">>, "double", -1 >> \in FShapes /\ PlaceOf(<<"lev">>, "double") = 3
      BY <1>4
    <3>2. IsNames(n3)
      BY <1>1
    <3> QED
      BY <3>1, <3>2, RunSays
  <2>4. Says(r4, Ran(n4), e4, FShapes, 3, 3)
    <3>1. << <<"lev">>, "double", -1 >> \in FShapes /\ PlaceOf(<<"lev">>, "double") = 3
      BY <1>4
    <3>2. IsNames(n4)
      BY <1>1
    <3> QED
      BY <3>1, <3>2, RunSays
  <2>5. Says(r5, Ran(n5), e5, FShapes, 3, 3)
    <3>1. << <<>>, "double", -1 >> \in FShapes /\ PlaceOf(<<>>, "double") = 3
      BY <1>4
    <3>2. IsNames(n5)
      BY <1>1
    <3> QED
      BY <3>1, <3>2, RunSays
  <2>6. Says(r6, Ran(n6), e6, FShapes, 3, 3)
    <3>1. << <<"ilev">>, "double", -1 >> \in FShapes /\ PlaceOf(<<"ilev">>, "double") = 3
      BY <1>4
    <3>2. IsNames(n6)
      BY <1>1
    <3> QED
      BY <3>1, <3>2, RunSays
  <2>7. Says(r7, Ran(n7), e7, FShapes, 3, 3)
    <3>1. << <<"ilev">>, "double", -1 >> \in FShapes /\ PlaceOf(<<"ilev">>, "double") = 3
      BY <1>4
    <3>2. IsNames(n7)
      BY <1>1
    <3> QED
      BY <3>1, <3>2, RunSays
  <2>8. Says(r8, Ran(n8), e8, FShapes, 3, 3)
    <3>1. << <<"ncol">>, "double", 1 >> \in FShapes /\ PlaceOf(<<"ncol">>, "double") = 3
      BY <1>4
    <3>2. IsNames(n8)
      BY <1>1
    <3> QED
      BY <3>1, <3>2, RunSays
  <2>9. Says(r9, Ran(n9), e9, FShapes, 3, 3)
    <3>1. << <<"ncol">>, "double", 0 >> \in FShapes /\ PlaceOf(<<"ncol">>, "double") = 3
      BY <1>4
    <3>2. IsNames(n9)
      BY <1>1
    <3> QED
      BY <3>1, <3>2, RunSays
  <2>10. Says(r10, Ran(n10), e10, FShapes, 5, 5)
    <3>1. << <<"time", "chars">>, "char", -1 >> \in FShapes /\ PlaceOf(<<"time", "chars">>, "char") = 5
      BY <1>4
    <3>2. IsNames(n10)
      BY <1>1
    <3> QED
      BY <3>1, <3>2, RunSays
  <2>11. Says(r11, Ran(n11), e11, FShapes, 6, 6)
    <3>1. << <<"time">>, "int", -1 >> \in FShapes /\ PlaceOf(<<"time">>, "int") = 6
      BY <1>4
    <3>2. IsNames(n11)
      BY <1>1
    <3> QED
      BY <3>1, <3>2, RunSays
  <2>12. Says(r12, Ran(n12), e12, FShapes, 7, 7)
    <3>1. << <<"time">>, "double", -1 >> \in FShapes /\ PlaceOf(<<"time">>, "double") = 7
      BY <1>4
    <3>2. IsNames(n12)
      BY <1>1
    <3> QED
      BY <3>1, <3>2, RunSays
  <2>13. Says(r13, Ran(n13), e13, FShapes, 7, 7)
    <3>1. << <<"time", "nbnd">>, "double", -1 >> \in FShapes /\ PlaceOf(<<"time", "nbnd">>, "double") = 7
      BY <1>4
    <3>2. IsNames(n13)
      BY <1>1
    <3> QED
      BY <3>1, <3>2, RunSays
  <2>14. Says(r14, Ran(n14), e14, FShapes, 7, 7)
    <3>1. << <<"time">>, "double", -1 >> \in FShapes /\ PlaceOf(<<"time">>, "double") = 7
      BY <1>4
    <3>2. IsNames(n14)
      BY <1>1
    <3> QED
      BY <3>1, <3>2, RunSays
  <2>15. Says(r15, Ran(n15), e15, FShapes, 7, 7)
    <3>1. << <<"time">>, "double", -1 >> \in FShapes /\ PlaceOf(<<"time">>, "double") = 7
      BY <1>4
    <3>2. IsNames(n15)
      BY <1>1
    <3> QED
      BY <3>1, <3>2, RunSays
  <2> QED
    BY <2>1, <2>2, <2>3, <2>4, <2>5, <2>6, <2>7, <2>8, <2>9, <2>10, <2>11, <2>12, <2>13,
       <2>14, <2>15
<1>6. /\ e11 = x11
      /\ e14 = x14
      /\ e1 = x1
      /\ e2 = x2
      /\ e3 = x3
      /\ e4 = x4
      /\ e5 = x5
      /\ e6 = x6
      /\ e7 = x7
      /\ e8 = x8
      /\ e9 = x9
      /\ e10 = x10
      /\ e12 = x12
      /\ e13 = x13
      /\ e15 = x15
  <2>1. e11 = x11
    BY DEF Each, Ran
  <2>2. e14 = x14
    BY DEF Each, Ran
  <2>3. /\ e1 = x1
        /\ e2 = x2
        /\ e3 = x3
        /\ e4 = x4
        /\ e5 = x5
        /\ e6 = x6
    BY DEF Each, Ran
  <2>4. /\ e7 = x7
        /\ e8 = x8
        /\ e9 = x9
        /\ e10 = x10
        /\ e12 = x12
        /\ e13 = x13
    BY DEF Each, Ran
  <2>5. e15 = x15
    BY DEF Each, Ran
  <2> QED
    BY <2>1, <2>2, <2>3, <2>4, <2>5
<1>7. FDef1 = r1 \o r2 \o r3 \o r4 \o r5 \o r6 \o r7 \o r8 \o r9 \o r10 \o r11 \o r12 \o r13 \o
        r14 \o r15
  BY DEF FDef1
<1> HIDE DEF r1, r2, r3, r4, r5, r6, r7, r8, r9, r10, r11, r12, r13, r14, r15, n1, n2, n3,
             n4, n5, n6, n7, n8, n9, n10, n11, n12, n13, n14, n15, e1, e2, e3, e4, e5, e6,
             e7, e8, e9, e10, e11, e12, e13, e14, e15, x1, x2, x3, x4, x5, x6, x7, x8, x9,
             x10, x11, x12, x13, x14, x15
<1> DEFINE p1 == r1
           p2 == p1 \o r2
           p3 == p2 \o r3
           p4 == p3 \o r4
           p5 == p4 \o r5
           p6 == p5 \o r6
           p7 == p6 \o r7
           p8 == p7 \o r8
           p9 == p8 \o r9
           p10 == p9 \o r10
           p11 == p10 \o r11
           p12 == p11 \o r12
           p13 == p12 \o r13
           p14 == p13 \o r14
           p15 == p14 \o r15
           y1 == x1
           y2 == y1 \cup x2
           y3 == y2 \cup x3
           y4 == y3 \cup x4
           y5 == y4 \cup x5
           y6 == y5 \cup x6
           y7 == y6 \cup x7
           y8 == y7 \cup x8
           y9 == y8 \cup x9
           y10 == y9 \cup x10
           y11 == y10 \cup x11
           y12 == y11 \cup x12
           y13 == y12 \cup x13
           y14 == y13 \cup x14
           y15 == y14 \cup x15
<1> HIDE DEF p1, p2, p3, p4, p5, p6, p7, p8, p9, p10, p11, p12, p13, p14, p15, y1, y2, y3,
             y4, y5, y6, y7, y8, y9, y10, y11, y12, y13, y14, y15, N1, N2, N3, N4, N5, N6,
             N7, N8, N9, N10, N11, N12, N13, N14, N15
<1>8. Says(p1, N1, y1, FShapes, 2, 2)
  BY <1>5, <1>6 DEF p1, y1, N1
<1>9. Says(p2, N2, y2, FShapes, 2, 2)
  BY <1>2, <1>5, <1>6, <1>8, SaysJoins DEF p2, y2, N2
<1>10. Says(p3, N3, y3, FShapes, 2, 3)
  BY <1>2, <1>5, <1>6, <1>9, SaysJoins DEF p3, y3, N3
<1>11. Says(p4, N4, y4, FShapes, 2, 3)
  BY <1>2, <1>5, <1>6, <1>10, SaysJoins DEF p4, y4, N4
<1>12. Says(p5, N5, y5, FShapes, 2, 3)
  BY <1>2, <1>5, <1>6, <1>11, SaysJoins DEF p5, y5, N5
<1>13. Says(p6, N6, y6, FShapes, 2, 3)
  BY <1>2, <1>5, <1>6, <1>12, SaysJoins DEF p6, y6, N6
<1>14. Says(p7, N7, y7, FShapes, 2, 3)
  BY <1>2, <1>5, <1>6, <1>13, SaysJoins DEF p7, y7, N7
<1>15. Says(p8, N8, y8, FShapes, 2, 3)
  BY <1>2, <1>5, <1>6, <1>14, SaysJoins DEF p8, y8, N8
<1>16. Says(p9, N9, y9, FShapes, 2, 3)
  BY <1>2, <1>5, <1>6, <1>15, SaysJoins DEF p9, y9, N9
<1>17. Says(p10, N10, y10, FShapes, 2, 5)
  BY <1>2, <1>5, <1>6, <1>16, SaysJoins DEF p10, y10, N10
<1>18. Says(p11, N11, y11, FShapes, 2, 6)
  BY <1>2, <1>5, <1>6, <1>17, SaysJoins DEF p11, y11, N11
<1>19. Says(p12, N12, y12, FShapes, 2, 7)
  BY <1>2, <1>5, <1>6, <1>18, SaysJoins DEF p12, y12, N12
<1>20. Says(p13, N13, y13, FShapes, 2, 7)
  BY <1>2, <1>5, <1>6, <1>19, SaysJoins DEF p13, y13, N13
<1>21. Says(p14, N14, y14, FShapes, 2, 7)
  BY <1>2, <1>5, <1>6, <1>20, SaysJoins DEF p14, y14, N14
<1>22. Says(p15, N15, y15, FShapes, 2, 7)
  BY <1>2, <1>5, <1>6, <1>21, SaysJoins DEF p15, y15, N15
<1>23. y15 = FDef1Shown
  BY DEF x1, x2, x3, x4, x5, x6, x7, x8, x9, x10, x11, x12, x13, x14, x15, y1, y2, y3, y4,
         y5, y6, y7, y8, y9, y10, y11, y12, y13, y14, y15, FDef1Shown
<1>24. FDef1 = p15
  BY <1>7 DEF p1, p2, p3, p4, p5, p6, p7, p8, p9, p10, p11, p12, p13, p14, p15
<1> QED
  BY <1>3, <1>22, <1>23, <1>24

FInq1Names ==
  {"lat", "lon", "area", "lev", "hyam", "hybm", "P0", "ilev", "hyai", "hybi", "time",
   "date", "datesec", "time_bnds", "date_written", "time_written", "ndbase", "nsbase",
   "nbdate", "nbsec", "mdt", "ndcur", "nscur", "co2vmr", "ch4vmr", "n2ovmr", "f11vmr",
   "f12vmr", "sol_tsi", "nsteph"}
FInq1Shown ==
  {<<"lat", 1, "double", UL>>, <<"lon", 1, "double", UL>>, <<"area", 0, "double", L>>,
   <<"lev", -1, "double", UL \cup Standard \cup Txt({"formula_terms", "positive"})>>,
   <<"hyam", -1, "double", L>>, <<"hybm", -1, "double", L>>, <<"P0", -1, "double", UL>>,
   <<"ilev", -1, "double", UL \cup Standard \cup Txt({"formula_terms", "positive"})>>,
   <<"hyai", -1, "double", L>>, <<"hybi", -1, "double", L>>,
   <<"time", -1, "double", UL \cup Txt({"bounds", "calendar"})>>, <<"date", -1, "int", L>>,
   <<"datesec", -1, "int", L>>, <<"time_bnds", -1, "double", L>>,
   <<"date_written", -1, "char", {}>>, <<"time_written", -1, "char", {}>>,
   <<"ndbase", -1, "int", L>>, <<"nsbase", -1, "int", L>>, <<"nbdate", -1, "int", L>>,
   <<"nbsec", -1, "int", L>>, <<"mdt", -1, "int", UL>>, <<"ndcur", -1, "int", L>>,
   <<"nscur", -1, "int", L>>, <<"co2vmr", -1, "double", L>>, <<"ch4vmr", -1, "double", L>>,
   <<"n2ovmr", -1, "double", L>>, <<"f11vmr", -1, "double", L>>,
   <<"f12vmr", -1, "double", L>>, <<"sol_tsi", -1, "double", UL>>,
   <<"nsteph", -1, "int", L>>}

\* The first part of header_inq_F_case.cpp.
LEMMA FInq1Is == Asks(FInq1, FInq1Names, FInq1Shown)
<1> DEFINE n1 == FInq1!1!1!1!1!1!1!1!1!1!1!1!1!1!1!1!1!1
           n2 == FInq1!1!1!1!1!1!1!1!1!1!1!1!1!1!1!1!2!1
           n3 == FInq1!1!1!1!1!1!1!1!1!1!1!1!1!1!1!2!1
           n4 == FInq1!1!1!1!1!1!1!1!1!1!1!1!1!1!2!1
           n5 == FInq1!1!1!1!1!1!1!1!1!1!1!1!1!2!1
           n6 == FInq1!1!1!1!1!1!1!1!1!1!1!1!2!1
           n7 == FInq1!1!1!1!1!1!1!1!1!1!1!2!1
           n8 == FInq1!1!1!1!1!1!1!1!1!1!2!1
           n9 == FInq1!1!1!1!1!1!1!1!1!2!1
           n10 == FInq1!1!1!1!1!1!1!1!2!1
           n11 == FInq1!1!1!1!1!1!1!2!1
           n12 == FInq1!1!1!1!1!1!2!1
           n13 == FInq1!1!1!1!1!2!1
           n14 == FInq1!1!1!1!2!1
           n15 == FInq1!1!1!2!1
           n16 == FInq1!1!2!1
           n17 == FInq1!2!1
           r1 == FInq1!1!1!1!1!1!1!1!1!1!1!1!1!1!1!1!1
           r2 == FInq1!1!1!1!1!1!1!1!1!1!1!1!1!1!1!1!2
           r3 == FInq1!1!1!1!1!1!1!1!1!1!1!1!1!1!1!2
           r4 == FInq1!1!1!1!1!1!1!1!1!1!1!1!1!1!2
           r5 == FInq1!1!1!1!1!1!1!1!1!1!1!1!1!2
           r6 == FInq1!1!1!1!1!1!1!1!1!1!1!1!2
           r7 == FInq1!1!1!1!1!1!1!1!1!1!1!2
           r8 == FInq1!1!1!1!1!1!1!1!1!1!2
           r9 == FInq1!1!1!1!1!1!1!1!1!2
           r10 == FInq1!1!1!1!1!1!1!1!2
           r11 == FInq1!1!1!1!1!1!1!2
           r12 == FInq1!1!1!1!1!1!2
           r13 == FInq1!1!1!1!1!2
           r14 == FInq1!1!1!1!2
           r15 == FInq1!1!1!2
           r16 == FInq1!1!2
           r17 == FInq1!2
           e1 == Each(n1, 1, "double", UL)
           e2 == Each(n2, 0, "double", L)
           e3 == Each(n3, -1, "double", UL \cup Standard \cup Txt({"formula_terms", "positive"}))
           e4 == Each(n4, -1, "double", L)
           e5 == Each(n5, -1, "double", UL)
           e6 == Each(n6, -1, "double", UL \cup Standard \cup Txt({"formula_terms", "positive"}))
           e7 == Each(n7, -1, "double", L)
           e8 == Each(n8, -1, "double", UL \cup Txt({"bounds", "calendar"}))
           e9 == Each(n9, -1, "int", L)
           e10 == Each(n10, -1, "double", L)
           e11 == Each(n11, -1, "char", {})
           e12 == Each(n12, -1, "int", L)
           e13 == Each(n13, -1, "int", UL)
           e14 == Each(n14, -1, "int", L)
           e15 == Each(n15, -1, "double", L)
           e16 == Each(n16, -1, "double", UL)
           e17 == Each(n17, -1, "int", L)
           x1 == {<<"lat", 1, "double", UL>>, <<"lon", 1, "double", UL>>}
           x2 == {<<"area", 0, "double", L>>}
           x3 == {<<"lev", -1, "double", UL \cup Standard \cup Txt({"formula_terms", "positive"})>>}
           x4 == {<<"hyam", -1, "double", L>>, <<"hybm", -1, "double", L>>}
           x5 == {<<"P0", -1, "double", UL>>}
           x6 == {<<"ilev", -1, "double", UL \cup Standard \cup Txt({"formula_terms", "positive"})>>}
           x7 == {<<"hyai", -1, "double", L>>, <<"hybi", -1, "double", L>>}
           x8 == {<<"time", -1, "double", UL \cup Txt({"bounds", "calendar"})>>}
           x9 == {<<"date", -1, "int", L>>, <<"datesec", -1, "int", L>>}
           x10 == {<<"time_bnds", -1, "double", L>>}
           x11 == {<<"date_written", -1, "char", {}>>, <<"time_written", -1, "char", {}>>}
           x12 == {<<"ndbase", -1, "int", L>>, <<"nsbase", -1, "int", L>>, <<"nbdate", -1, "int", L>>,
       <<"nbsec", -1, "int", L>>}
           x13 == {<<"mdt", -1, "int", UL>>}
           x14 == {<<"ndcur", -1, "int", L>>, <<"nscur", -1, "int", L>>}
           x15 == {<<"co2vmr", -1, "double", L>>, <<"ch4vmr", -1, "double", L>>,
       <<"n2ovmr", -1, "double", L>>, <<"f11vmr", -1, "double", L>>,
       <<"f12vmr", -1, "double", L>>}
           x16 == {<<"sol_tsi", -1, "double", UL>>}
           x17 == {<<"nsteph", -1, "int", L>>}
           N1 == Ran(n1)
           N2 == N1 \cup Ran(n2)
           N3 == N2 \cup Ran(n3)
           N4 == N3 \cup Ran(n4)
           N5 == N4 \cup Ran(n5)
           N6 == N5 \cup Ran(n6)
           N7 == N6 \cup Ran(n7)
           N8 == N7 \cup Ran(n8)
           N9 == N8 \cup Ran(n9)
           N10 == N9 \cup Ran(n10)
           N11 == N10 \cup Ran(n11)
           N12 == N11 \cup Ran(n12)
           N13 == N12 \cup Ran(n13)
           N14 == N13 \cup Ran(n14)
           N15 == N14 \cup Ran(n15)
           N16 == N15 \cup Ran(n16)
           N17 == N16 \cup Ran(n17)
<1>1. /\ IsNames(n15)
      /\ IsNames(n1)
      /\ IsNames(n2)
      /\ IsNames(n3)
      /\ IsNames(n4)
      /\ IsNames(n5)
      /\ IsNames(n6)
      /\ IsNames(n7)
      /\ IsNames(n8)
      /\ IsNames(n9)
      /\ IsNames(n10)
      /\ IsNames(n11)
      /\ IsNames(n12)
      /\ IsNames(n13)
      /\ IsNames(n14)
      /\ IsNames(n16)
      /\ IsNames(n17)
  <2>1. IsNames(n15)
    BY DEF IsNames, IsList
  <2>2. /\ IsNames(n1)
        /\ IsNames(n2)
        /\ IsNames(n3)
        /\ IsNames(n4)
        /\ IsNames(n5)
        /\ IsNames(n6)
    BY DEF IsNames, IsList
  <2>3. /\ IsNames(n7)
        /\ IsNames(n8)
        /\ IsNames(n9)
        /\ IsNames(n10)
        /\ IsNames(n11)
        /\ IsNames(n12)
    BY DEF IsNames, IsList
  <2>4. /\ IsNames(n13)
        /\ IsNames(n14)
        /\ IsNames(n16)
        /\ IsNames(n17)
    BY DEF IsNames, IsList
  <2> QED
    BY <2>1, <2>2, <2>3, <2>4
<1>2. /\ N1 \cap Ran(n2) = {}
      /\ N2 \cap Ran(n3) = {}
      /\ N3 \cap Ran(n4) = {}
      /\ N4 \cap Ran(n5) = {}
      /\ N5 \cap Ran(n6) = {}
      /\ N6 \cap Ran(n7) = {}
      /\ N7 \cap Ran(n8) = {}
      /\ N8 \cap Ran(n9) = {}
      /\ N9 \cap Ran(n10) = {}
      /\ N10 \cap Ran(n11) = {}
      /\ N11 \cap Ran(n12) = {}
      /\ N12 \cap Ran(n13) = {}
      /\ N13 \cap Ran(n14) = {}
      /\ N14 \cap Ran(n15) = {}
      /\ N15 \cap Ran(n16) = {}
      /\ N16 \cap Ran(n17) = {}
  BY DEF Ran
<1>3. N17 = FInq1Names
  BY DEF Ran, FInq1Names
<1>4. /\ Asks(r1, Ran(n1), e1)
      /\ Asks(r2, Ran(n2), e2)
      /\ Asks(r3, Ran(n3), e3)
      /\ Asks(r4, Ran(n4), e4)
      /\ Asks(r5, Ran(n5), e5)
      /\ Asks(r6, Ran(n6), e6)
      /\ Asks(r7, Ran(n7), e7)
      /\ Asks(r8, Ran(n8), e8)
      /\ Asks(r9, Ran(n9), e9)
      /\ Asks(r10, Ran(n10), e10)
      /\ Asks(r11, Ran(n11), e11)
      /\ Asks(r12, Ran(n12), e12)
      /\ Asks(r13, Ran(n13), e13)
      /\ Asks(r14, Ran(n14), e14)
      /\ Asks(r15, Ran(n15), e15)
      /\ Asks(r16, Ran(n16), e16)
      /\ Asks(r17, Ran(n17), e17)
  <2>1. Asks(r1, Ran(n1), e1)
    BY <1>1, RunAsks DEF InqCol
  <2>2. Asks(r2, Ran(n2), e2)
    BY <1>1, RunAsks DEF InqCol
  <2>3. Asks(r3, Ran(n3), e3)
    BY <1>1, RunAsks DEF InqCol
  <2>4. Asks(r4, Ran(n4), e4)
    BY <1>1, RunAsks DEF InqCol
  <2>5. Asks(r5, Ran(n5), e5)
    BY <1>1, RunAsks DEF InqCol
  <2>6. Asks(r6, Ran(n6), e6)
    BY <1>1, RunAsks DEF InqCol
  <2>7. Asks(r7, Ran(n7), e7)
    BY <1>1, RunAsks DEF InqCol
  <2>8. Asks(r8, Ran(n8), e8)
    BY <1>1, RunAsks DEF InqCol
  <2>9. Asks(r9, Ran(n9), e9)
    BY <1>1, RunAsks DEF InqCol
  <2>10. Asks(r10, Ran(n10), e10)
    BY <1>1, RunAsks DEF InqCol
  <2>11. Asks(r11, Ran(n11), e11)
    BY <1>1, RunAsks DEF InqCol
  <2>12. Asks(r12, Ran(n12), e12)
    BY <1>1, RunAsks DEF InqCol
  <2>13. Asks(r13, Ran(n13), e13)
    BY <1>1, RunAsks DEF InqCol
  <2>14. Asks(r14, Ran(n14), e14)
    BY <1>1, RunAsks DEF InqCol
  <2>15. Asks(r15, Ran(n15), e15)
    BY <1>1, RunAsks DEF InqCol
  <2>16. Asks(r16, Ran(n16), e16)
    BY <1>1, RunAsks DEF InqCol
  <2>17. Asks(r17, Ran(n17), e17)
    BY <1>1, RunAsks DEF InqCol
  <2> QED
    BY <2>1, <2>2, <2>3, <2>4, <2>5, <2>6, <2>7, <2>8, <2>9, <2>10, <2>11, <2>12, <2>13,
       <2>14, <2>15, <2>16, <2>17
<1>5. /\ e15 = x15
      /\ e1 = x1
      /\ e2 = x2
      /\ e3 = x3
      /\ e4 = x4
      /\ e5 = x5
      /\ e6 = x6
      /\ e7 = x7
      /\ e8 = x8
      /\ e9 = x9
      /\ e10 = x10
      /\ e11 = x11
      /\ e12 = x12
      /\ e13 = x13
      /\ e14 = x14
      /\ e16 = x16
      /\ e17 = x17
  <2>1. e15 = x15
    BY DEF Each, Ran
  <2>2. /\ e1 = x1
        /\ e2 = x2
        /\ e3 = x3
        /\ e4 = x4
        /\ e5 = x5
        /\ e6 = x6
    BY DEF Each, Ran
  <2>3. /\ e7 = x7
        /\ e8 = x8
        /\ e9 = x9
        /\ e10 = x10
        /\ e11 = x11
        /\ e12 = x12
    BY DEF Each, Ran
  <2>4. /\ e13 = x13
        /\ e14 = x14
        /\ e16 = x16
        /\ e17 = x17
    BY DEF Each, Ran
  <2> QED
    BY <2>1, <2>2, <2>3, <2>4
<1>6. FInq1 = r1 \o r2 \o r3 \o r4 \o r5 \o r6 \o r7 \o r8 \o r9 \o r10 \o r11 \o r12 \o r13 \o
        r14 \o r15 \o r16 \o r17
  BY DEF FInq1
<1> HIDE DEF r1, r2, r3, r4, r5, r6, r7, r8, r9, r10, r11, r12, r13, r14, r15, r16, r17, n1,
             n2, n3, n4, n5, n6, n7, n8, n9, n10, n11, n12, n13, n14, n15, n16, n17, e1, e2,
             e3, e4, e5, e6, e7, e8, e9, e10, e11, e12, e13, e14, e15, e16, e17, x1, x2, x3,
             x4, x5, x6, x7, x8, x9, x10, x11, x12, x13, x14, x15, x16, x17
<1> DEFINE p1 == r1
           p2 == p1 \o r2
           p3 == p2 \o r3
           p4 == p3 \o r4
           p5 == p4 \o r5
           p6 == p5 \o r6
           p7 == p6 \o r7
           p8 == p7 \o r8
           p9 == p8 \o r9
           p10 == p9 \o r10
           p11 == p10 \o r11
           p12 == p11 \o r12
           p13 == p12 \o r13
           p14 == p13 \o r14
           p15 == p14 \o r15
           p16 == p15 \o r16
           p17 == p16 \o r17
           y1 == x1
           y2 == y1 \cup x2
           y3 == y2 \cup x3
           y4 == y3 \cup x4
           y5 == y4 \cup x5
           y6 == y5 \cup x6
           y7 == y6 \cup x7
           y8 == y7 \cup x8
           y9 == y8 \cup x9
           y10 == y9 \cup x10
           y11 == y10 \cup x11
           y12 == y11 \cup x12
           y13 == y12 \cup x13
           y14 == y13 \cup x14
           y15 == y14 \cup x15
           y16 == y15 \cup x16
           y17 == y16 \cup x17
<1> HIDE DEF p1, p2, p3, p4, p5, p6, p7, p8, p9, p10, p11, p12, p13, p14, p15, p16, p17, y1,
             y2, y3, y4, y5, y6, y7, y8, y9, y10, y11, y12, y13, y14, y15, y16, y17, N1, N2,
             N3, N4, N5, N6, N7, N8, N9, N10, N11, N12, N13, N14, N15, N16, N17
<1>7. Asks(p1, N1, y1)
  BY <1>4, <1>5 DEF p1, y1, N1
<1>8. Asks(p2, N2, y2)
  BY <1>2, <1>4, <1>5, <1>7, AsksJoins DEF p2, y2, N2
<1>9. Asks(p3, N3, y3)
  BY <1>2, <1>4, <1>5, <1>8, AsksJoins DEF p3, y3, N3
<1>10. Asks(p4, N4, y4)
  BY <1>2, <1>4, <1>5, <1>9, AsksJoins DEF p4, y4, N4
<1>11. Asks(p5, N5, y5)
  BY <1>2, <1>4, <1>5, <1>10, AsksJoins DEF p5, y5, N5
<1>12. Asks(p6, N6, y6)
  BY <1>2, <1>4, <1>5, <1>11, AsksJoins DEF p6, y6, N6
<1>13. Asks(p7, N7, y7)
  BY <1>2, <1>4, <1>5, <1>12, AsksJoins DEF p7, y7, N7
<1>14. Asks(p8, N8, y8)
  BY <1>2, <1>4, <1>5, <1>13, AsksJoins DEF p8, y8, N8
<1>15. Asks(p9, N9, y9)
  BY <1>2, <1>4, <1>5, <1>14, AsksJoins DEF p9, y9, N9
<1>16. Asks(p10, N10, y10)
  BY <1>2, <1>4, <1>5, <1>15, AsksJoins DEF p10, y10, N10
<1>17. Asks(p11, N11, y11)
  BY <1>2, <1>4, <1>5, <1>16, AsksJoins DEF p11, y11, N11
<1>18. Asks(p12, N12, y12)
  BY <1>2, <1>4, <1>5, <1>17, AsksJoins DEF p12, y12, N12
<1>19. Asks(p13, N13, y13)
  BY <1>2, <1>4, <1>5, <1>18, AsksJoins DEF p13, y13, N13
<1>20. Asks(p14, N14, y14)
  BY <1>2, <1>4, <1>5, <1>19, AsksJoins DEF p14, y14, N14
<1>21. Asks(p15, N15, y15)
  BY <1>2, <1>4, <1>5, <1>20, AsksJoins DEF p15, y15, N15
<1>22. Asks(p16, N16, y16)
  BY <1>2, <1>4, <1>5, <1>21, AsksJoins DEF p16, y16, N16
<1>23. Asks(p17, N17, y17)
  BY <1>2, <1>4, <1>5, <1>22, AsksJoins DEF p17, y17, N17
<1>24. y17 = FInq1Shown
  BY DEF x1, x2, x3, x4, x5, x6, x7, x8, x9, x10, x11, x12, x13, x14, x15, x16, x17, y1, y2,
         y3, y4, y5, y6, y7, y8, y9, y10, y11, y12, y13, y14, y15, y16, y17, FInq1Shown
<1>25. FInq1 = p17
  BY <1>6 DEF p1, p2, p3, p4, p5, p6, p7, p8, p9, p10, p11, p12, p13, p14, p15, p16, p17
<1> QED
  BY <1>3, <1>23, <1>24, <1>25

FNames2 ==
  {"AEROD_v", "ANRAIN", "ANSNOW", "AODABS", "AODABSBC", "AODALL", "AODBC", "AODDUST",
   "AODDUST1", "AODDUST3", "AODDUST4", "AODMODE1", "AODMODE2", "AODMODE3", "AODMODE4",
   "AODNIR"}

\* The parts of header_def_F_case.cpp and header_inq_F_case.cpp that follow
\* name the same variables.
LEMMA FList2 == Alike(FDef2, FInq2, FNames2, FShapes)
<1> DEFINE n1 == FDef2!1!1!1!1
           n2 == FDef2!1!1!2!1
           n3 == FDef2!1!2!1
           n4 == FDef2!2!1
           s1 == FDef2!1!1!1   u1 == FInq2!1!1!1
           s2 == FDef2!1!1!2   u2 == FInq2!1!1!2
           s3 == FDef2!1!2   u3 == FInq2!1!2
           s4 == FDef2!2   u4 == FInq2!2
           N1 == Ran(n1)
           N2 == N1 \cup Ran(n2)
           N3 == N2 \cup Ran(n3)
           N4 == N3 \cup Ran(n4)
<1>1. /\ IsNames(n1)
      /\ IsNames(n2)
      /\ IsNames(n3)
      /\ IsNames(n4)
  <2>1. IsNames(n4)
    BY DEF IsNames, IsList
  <2>2. /\ IsNames(n1)
        /\ IsNames(n2)
        /\ IsNames(n3)
    BY DEF IsNames, IsList
  <2> QED
    BY <2>1, <2>2
<1>2. /\ N1 \cap Ran(n2) = {}
      /\ N2 \cap Ran(n3) = {}
      /\ N3 \cap Ran(n4) = {}
  BY DEF Ran
<1>3. N4 = FNames2
  BY DEF Ran, FNames2
<1>4. /\ Alike(s1, u1, Ran(n1), FShapes)
      /\ Alike(s2, u2, Ran(n2), FShapes)
      /\ Alike(s3, u3, Ran(n3), FShapes)
      /\ Alike(s4, u4, Ran(n4), FShapes)
  BY <1>1, ColAlike, ColLevAlike
<1>5. /\ FDef2 = s1 \o s2 \o s3 \o s4
      /\ FInq2 = u1 \o u2 \o u3 \o u4
  BY DEF FDef2, FInq2
<1> HIDE DEF s1, s2, s3, s4, u1, u2, u3, u4, n1, n2, n3, n4
<1> QED
  BY <1>2, <1>3, <1>4, <1>5, AlikeJoins

FNames3 ==
  {"AODPOM", "AODSO4", "AODSOA", "AODSS", "AODUV", "AODVIS", "AQRAIN", "AQSNOW", "AQ_DMS",
   "AQ_H2O2", "AQ_H2SO4", "AQ_O3", "AQ_SO2", "AQ_SOAG", "AREI", "AREL"}
LEMMA FList3 == Alike(FDef3, FInq3, FNames3, FShapes)
<1> DEFINE n1 == FDef3!1!1!1!1!1
           n2 == FDef3!1!1!1!2!1
           n3 == FDef3!1!1!2!1
           n4 == FDef3!1!2!1
           n5 == FDef3!2!1
           s1 == FDef3!1!1!1!1   u1 == FInq3!1!1!1!1
           s2 == FDef3!1!1!1!2   u2 == FInq3!1!1!1!2
           s3 == FDef3!1!1!2   u3 == FInq3!1!1!2
           s4 == FDef3!1!2   u4 == FInq3!1!2
           s5 == FDef3!2   u5 == FInq3!2
           N1 == Ran(n1)
           N2 == N1 \cup Ran(n2)
           N3 == N2 \cup Ran(n3)
           N4 == N3 \cup Ran(n4)
           N5 == N4 \cup Ran(n5)
<1>1. /\ IsNames(n1)
      /\ IsNames(n2)
      /\ IsNames(n3)
      /\ IsNames(n4)
      /\ IsNames(n5)
  BY DEF IsNames, IsList
<1>2. /\ N1 \cap Ran(n2) = {}
      /\ N2 \cap Ran(n3) = {}
      /\ N3 \cap Ran(n4) = {}
      /\ N4 \cap Ran(n5) = {}
  BY DEF Ran
<1>3. N5 = FNames3
  BY DEF Ran, FNames3
<1>4. /\ Alike(s1, u1, Ran(n1), FShapes)
      /\ Alike(s2, u2, Ran(n2), FShapes)
      /\ Alike(s3, u3, Ran(n3), FShapes)
      /\ Alike(s4, u4, Ran(n4), FShapes)
      /\ Alike(s5, u5, Ran(n5), FShapes)
  BY <1>1, ColAlike, ColLevAlike
<1>5. /\ FDef3 = s1 \o s2 \o s3 \o s4 \o s5
      /\ FInq3 = u1 \o u2 \o u3 \o u4 \o u5
  BY DEF FDef3, FInq3
<1> HIDE DEF s1, s2, s3, s4, s5, u1, u2, u3, u4, u5, n1, n2, n3, n4, n5
<1> QED
  BY <1>2, <1>3, <1>4, <1>5, AlikeJoins

FNames4 ==
  {"AWNC", "AWNI", "BURDEN1", "BURDEN2", "BURDEN3", "BURDEN4", "CCN3", "CDNUMC"}
LEMMA FList4 == Alike(FDef4, FInq4, FNames4, FShapes)
<1> DEFINE n1 == FDef4!1!1!1!1
           n2 == FDef4!1!1!2!1
           n3 == FDef4!1!2!1
           n4 == FDef4!2!1
           s1 == FDef4!1!1!1   u1 == FInq4!1!1!1
           s2 == FDef4!1!1!2   u2 == FInq4!1!1!2
           s3 == FDef4!1!2   u3 == FInq4!1!2
           s4 == FDef4!2   u4 == FInq4!2
           N1 == Ran(n1)
           N2 == N1 \cup Ran(n2)
           N3 == N2 \cup Ran(n3)
           N4 == N3 \cup Ran(n4)
<1>1. /\ IsNames(n1)
      /\ IsNames(n2)
      /\ IsNames(n3)
      /\ IsNames(n4)
  BY DEF IsNames, IsList
<1>2. /\ N1 \cap Ran(n2) = {}
      /\ N2 \cap Ran(n3) = {}
      /\ N3 \cap Ran(n4) = {}
  BY DEF Ran
<1>3. N4 = FNames4
  BY DEF Ran, FNames4
<1>4. /\ Alike(s1, u1, Ran(n1), FShapes)
      /\ Alike(s2, u2, Ran(n2), FShapes)
      /\ Alike(s3, u3, Ran(n3), FShapes)
      /\ Alike(s4, u4, Ran(n4), FShapes)
  BY <1>1, ColAlike, ColLevAlike
<1>5. /\ FDef4 = s1 \o s2 \o s3 \o s4
      /\ FInq4 = u1 \o u2 \o u3 \o u4
  BY DEF FDef4, FInq4
<1> HIDE DEF s1, s2, s3, s4, u1, u2, u3, u4, n1, n2, n3, n4
<1> QED
  BY <1>2, <1>3, <1>4, <1>5, AlikeJoins

FNames5 ==
  {"CLDHGH"}
LEMMA FList5 == Alike(FDef5, FInq5, FNames5, FShapes)
<1> DEFINE n == FDef5!1
<1>1. IsNames(n) /\ Ran(n) = FNames5
  <2>1. IsNames(n)
    BY DEF IsNames, IsList
  <2>2. Ran(n) = FNames5
    BY DEF Ran, FNames5
  <2> QED
    BY <2>1, <2>2
<1>2. Alike(FDef5, FInq5, Ran(n), FShapes)
  BY <1>1, ColAlike DEF FDef5, FInq5
<1> QED
  BY <1>1, <1>2

FNames6 ==
  {"CLDICE", "CLDLIQ"}
LEMMA FList6 == Alike(FDef6, FInq6, FNames6, FShapes)
<1> DEFINE n == FDef6!1
<1>1. IsNames(n) /\ Ran(n) = FNames6
  <2>1. IsNames(n)
    BY DEF IsNames, IsList
  <2>2. Ran(n) = FNames6
    BY DEF Ran, FNames6
  <2> QED
    BY <2>1, <2>2
<1>2. Alike(FDef6, FInq6, Ran(n), FShapes)
  BY <1>1, ColLevAlike DEF FDef6, FInq6
<1> QED
  BY <1>1, <1>2

FNames7 ==
  {"CLDLOW", "CLDMED"}
LEMMA FList7 == Alike(FDef7, FInq7, FNames7, FShapes)
<1> DEFINE n == FDef7!1
<1>1. IsNames(n) /\ Ran(n) = FNames7
  <2>1. IsNames(n)
    BY DEF IsNames, IsList
  <2>2. Ran(n) = FNames7
    BY DEF Ran, FNames7
  <2> QED
    BY <2>1, <2>2
<1>2. Alike(FDef7, FInq7, Ran(n), FShapes)
  BY <1>1, ColAlike DEF FDef7, FInq7
<1> QED
  BY <1>1, <1>2

FNames8 ==
  {"CLDTOT", "CLOUD", "CLOUDFRAC_CLUBB", "CONCLD", "DCQ", "DF_DMS", "DF_H2O2", "DF_H2SO4",
   "DF_O3", "DF_SO2", "DF_SOAG", "DMS_SRF", "DP_KCLDBASE", "DP_MFUP_MAX", "DP_WCLDBASE",
   "DSTSFMBL", "DTCOND"}
LEMMA FList8 == Alike(FDef8, FInq8, FNames8, FShapes)
<1> DEFINE n1 == FDef8!1!1!1!1
           n2 == FDef8!1!1!2!1
           n3 == FDef8!1!2!1
           n4 == FDef8!2!1
           s1 == FDef8!1!1!1   u1 == FInq8!1!1!1
           s2 == FDef8!1!1!2   u2 == FInq8!1!1!2
           s3 == FDef8!1!2   u3 == FInq8!1!2
           s4 == FDef8!2   u4 == FInq8!2
           N1 == Ran(n1)
           N2 == N1 \cup Ran(n2)
           N3 == N2 \cup Ran(n3)
           N4 == N3 \cup Ran(n4)
<1>1. /\ IsNames(n1)
      /\ IsNames(n2)
      /\ IsNames(n3)
      /\ IsNames(n4)
  <2>1. IsNames(n3)
    BY DEF IsNames, IsList
  <2>2. /\ IsNames(n1)
        /\ IsNames(n2)
        /\ IsNames(n4)
    BY DEF IsNames, IsList
  <2> QED
    BY <2>1, <2>2
<1>2. /\ N1 \cap Ran(n2) = {}
      /\ N2 \cap Ran(n3) = {}
      /\ N3 \cap Ran(n4) = {}
  BY DEF Ran
<1>3. N4 = FNames8
  BY DEF Ran, FNames8
<1>4. /\ Alike(s1, u1, Ran(n1), FShapes)
      /\ Alike(s2, u2, Ran(n2), FShapes)
      /\ Alike(s3, u3, Ran(n3), FShapes)
      /\ Alike(s4, u4, Ran(n4), FShapes)
  BY <1>1, ColAlike, ColLevAlike
<1>5. /\ FDef8 = s1 \o s2 \o s3 \o s4
      /\ FInq8 = u1 \o u2 \o u3 \o u4
  BY DEF FDef8, FInq8
<1> HIDE DEF s1, s2, s3, s4, u1, u2, u3, u4, n1, n2, n3, n4
<1> QED
  BY <1>2, <1>3, <1>4, <1>5, AlikeJoins

FNames9 ==
  {"DTENDTH", "DTENDTQ", "EXTINCT", "FICE", "FLDS", "FLNS", "FLNSC"}
LEMMA FList9 == Alike(FDef9, FInq9, FNames9, FShapes)
<1> DEFINE n1 == FDef9!1!1!1!1!1
           n2 == FDef9!1!1!1!2!1
           n3 == FDef9!1!1!2!1
           n4 == FDef9!1!2!1
           n5 == FDef9!2!1
           s1 == FDef9!1!1!1!1   u1 == FInq9!1!1!1!1
           s2 == FDef9!1!1!1!2   u2 == FInq9!1!1!1!2
           s3 == FDef9!1!1!2   u3 == FInq9!1!1!2
           s4 == FDef9!1!2   u4 == FInq9!1!2
           s5 == FDef9!2   u5 == FInq9!2
           N1 == Ran(n1)
           N2 == N1 \cup Ran(n2)
           N3 == N2 \cup Ran(n3)
           N4 == N3 \cup Ran(n4)
           N5 == N4 \cup Ran(n5)
<1>1. /\ IsNames(n1)
      /\ IsNames(n2)
      /\ IsNames(n3)
      /\ IsNames(n4)
      /\ IsNames(n5)
  BY DEF IsNames, IsList
<1>2. /\ N1 \cap Ran(n2) = {}
      /\ N2 \cap Ran(n3) = {}
      /\ N3 \cap Ran(n4) = {}
      /\ N4 \cap Ran(n5) = {}
  BY DEF Ran
<1>3. N5 = FNames9
  BY DEF Ran, FNames9
<1>4. /\ Alike(s1, u1, Ran(n1), FShapes)
      /\ Alike(s2, u2, Ran(n2), FShapes)
      /\ Alike(s3, u3, Ran(n3), FShapes)
      /\ Alike(s4, u4, Ran(n4), FShapes)
      /\ Alike(s5, u5, Ran(n5), FShapes)
  BY <1>1, ColAlike, ColLevAlike
<1>5. /\ FDef9 = s1 \o s2 \o s3 \o s4 \o s5
      /\ FInq9 = u1 \o u2 \o u3 \o u4 \o u5
  BY DEF FDef9, FInq9
<1> HIDE DEF s1, s2, s3, s4, s5, u1, u2, u3, u4, u5, n1, n2, n3, n4, n5
<1> QED
  BY <1>2, <1>3, <1>4, <1>5, AlikeJoins

FNames10 ==
  {"FLNT"}
LEMMA FList10 == Alike(FDef10, FInq10, FNames10, FShapes)
<1> DEFINE n == FDef10!1
<1>1. IsNames(n) /\ Ran(n) = FNames10
  <2>1. IsNames(n)
    BY DEF IsNames, IsList
  <2>2. Ran(n) = FNames10
    BY DEF Ran, FNames10
  <2> QED
    BY <2>1, <2>2
<1>2. Alike(FDef10, FInq10, Ran(n), FShapes)
  BY <1>1, ColAlike DEF FDef10, FInq10
<1> QED
  BY <1>1, <1>2

FNames11 ==
  {"FLNTC", "FLUT", "FLUTC", "FREQI", "FREQL", "FREQR", "FREQS", "FSDS", "FSDSC", "FSNS",
   "FSNSC", "FSNT", "FSNTC"}
LEMMA FList11 == Alike(FDef11, FInq11, FNames11, FShapes)
<1> DEFINE n1 == FDef11!1!1!1!1!1
           n2 == FDef11!1!1!1!2!1
           n3 == FDef11!1!1!2!1
           n4 == FDef11!1!2!1
           n5 == FDef11!2!1
           s1 == FDef11!1!1!1!1   u1 == FInq11!1!1!1!1
           s2 == FDef11!1!1!1!2   u2 == FInq11!1!1!1!2
           s3 == FDef11!1!1!2   u3 == FInq11!1!1!2
           s4 == FDef11!1!2   u4 == FInq11!1!2
           s5 == FDef11!2   u5 == FInq11!2
           N1 == Ran(n1)
           N2 == N1 \cup Ran(n2)
           N3 == N2 \cup Ran(n3)
           N4 == N3 \cup Ran(n4)
           N5 == N4 \cup Ran(n5)
<1>1. /\ IsNames(n1)
      /\ IsNames(n2)
      /\ IsNames(n3)
      /\ IsNames(n4)
      /\ IsNames(n5)
  BY DEF IsNames, IsList
<1>2. /\ N1 \cap Ran(n2) = {}
      /\ N2 \cap Ran(n3) = {}
      /\ N3 \cap Ran(n4) = {}
      /\ N4 \cap Ran(n5) = {}
  BY DEF Ran
<1>3. N5 = FNames11
  BY DEF Ran, FNames11
<1>4. /\ Alike(s1, u1, Ran(n1), FShapes)
      /\ Alike(s2, u2, Ran(n2), FShapes)
      /\ Alike(s3, u3, Ran(n3), FShapes)
      /\ Alike(s4, u4, Ran(n4), FShapes)
      /\ Alike(s5, u5, Ran(n5), FShapes)
  BY <1>1, ColAlike, ColLevAlike
<1>5. /\ FDef11 = s1 \o s2 \o s3 \o s4 \o s5
      /\ FInq11 = u1 \o u2 \o u3 \o u4 \o u5
  BY DEF FDef11, FInq11
<1> HIDE DEF s1, s2, s3, s4, s5, u1, u2, u3, u4, u5, n1, n2, n3, n4, n5
<1> QED
  BY <1>2, <1>3, <1>4, <1>5, AlikeJoins

FNames12 ==
  {"FSNTOA", "FSNTOAC", "FSUTOA", "FSUTOAC", "F_eff", "H2O2_SRF", "H2SO4_SRF",
   "H2SO4_sfgaex1", "ICEFRAC", "ICIMR", "ICWMR", "IWC", "LANDFRAC", "LHFLX", "LINOZ_DO3"}
LEMMA FList12 == Alike(FDef12, FInq12, FNames12, FShapes)
<1> DEFINE n1 == FDef12!1!1!1!1!1!1!1
           n2 == FDef12!1!1!1!1!1!2!1
           n3 == FDef12!1!1!1!1!2!1
           n4 == FDef12!1!1!1!2!1
           n5 == FDef12!1!1!2!1
           n6 == FDef12!1!2!1
           n7 == FDef12!2!1
           s1 == FDef12!1!1!1!1!1!1   u1 == FInq12!1!1!1!1!1!1
           s2 == FDef12!1!1!1!1!1!2   u2 == FInq12!1!1!1!1!1!2
           s3 == FDef12!1!1!1!1!2   u3 == FInq12!1!1!1!1!2
           s4 == FDef12!1!1!1!2   u4 == FInq12!1!1!1!2
           s5 == FDef12!1!1!2   u5 == FInq12!1!1!2
           s6 == FDef12!1!2   u6 == FInq12!1!2
           s7 == FDef12!2   u7 == FInq12!2
           N1 == Ran(n1)
           N2 == N1 \cup Ran(n2)
           N3 == N2 \cup Ran(n3)
           N4 == N3 \cup Ran(n4)
           N5 == N4 \cup Ran(n5)
           N6 == N5 \cup Ran(n6)
           N7 == N6 \cup Ran(n7)
<1>1. /\ IsNames(n1)
      /\ IsNames(n2)
      /\ IsNames(n3)
      /\ IsNames(n4)
      /\ IsNames(n5)
      /\ IsNames(n6)
      /\ IsNames(n7)
  BY DEF IsNames, IsList
<1>2. /\ N1 \cap Ran(n2) = {}
      /\ N2 \cap Ran(n3) = {}
      /\ N3 \cap Ran(n4) = {}
      /\ N4 \cap Ran(n5) = {}
      /\ N5 \cap Ran(n6) = {}
      /\ N6 \cap Ran(n7) = {}
  BY DEF Ran
<1>3. N7 = FNames12
  BY DEF Ran, FNames12
<1>4. /\ Alike(s1, u1, Ran(n1), FShapes)
      /\ Alike(s2, u2, Ran(n2), FShapes)
      /\ Alike(s3, u3, Ran(n3), FShapes)
      /\ Alike(s4, u4, Ran(n4), FShapes)
      /\ Alike(s5, u5, Ran(n5), FShapes)
      /\ Alike(s6, u6, Ran(n6), FShapes)
      /\ Alike(s7, u7, Ran(n7), FShapes)
  BY <1>1, ColAlike, ColLevAlike
<1>5. /\ FDef12 = s1 \o s2 \o s3 \o s4 \o s5 \o s6 \o s7
      /\ FInq12 = u1 \o u2 \o u3 \o u4 \o u5 \o u6 \o u7
  BY DEF FDef12, FInq12
<1> HIDE DEF s1, s2, s3, s4, s5, s6, s7, u1, u2, u3, u4, u5, u6, u7, n1, n2, n3, n4, n5, n6,
             n7
<1>6. Alike(s1 \o s2 \o s3 \o s4, u1 \o u2 \o u3 \o u4, N4, FShapes)
  BY <1>2, <1>4, AlikeJoins
<1> QED
  BY <1>2, <1>3, <1>4, <1>5, <1>6, AlikeJoins

FNames13 ==
  {"LINOZ_DO3_PSC", "LINOZ_O3CLIM", "LINOZ_O3COL", "LINOZ_SFCSINK", "LINOZ_SSO3",
   "LINOZ_SZA", "LND_MBL"}
LEMMA FList13 == Alike(FDef13, FInq13, FNames13, FShapes)
<1> DEFINE n1 == FDef13!1!1!1!1
           n2 == FDef13!1!1!2!1
           n3 == FDef13!1!2!1
           n4 == FDef13!2!1
           s1 == FDef13!1!1!1   u1 == FInq13!1!1!1
           s2 == FDef13!1!1!2   u2 == FInq13!1!1!2
           s3 == FDef13!1!2   u3 == FInq13!1!2
           s4 == FDef13!2   u4 == FInq13!2
           N1 == Ran(n1)
           N2 == N1 \cup Ran(n2)
           N3 == N2 \cup Ran(n3)
           N4 == N3 \cup Ran(n4)
<1>1. /\ IsNames(n1)
      /\ IsNames(n2)
      /\ IsNames(n3)
      /\ IsNames(n4)
  BY DEF IsNames, IsList
<1>2. /\ N1 \cap Ran(n2) = {}
      /\ N2 \cap Ran(n3) = {}
      /\ N3 \cap Ran(n4) = {}
  BY DEF Ran
<1>3. N4 = FNames13
  BY DEF Ran, FNames13
<1>4. /\ Alike(s1, u1, Ran(n1), FShapes)
      /\ Alike(s2, u2, Ran(n2), FShapes)
      /\ Alike(s3, u3, Ran(n3), FShapes)
      /\ Alike(s4, u4, Ran(n4), FShapes)
  BY <1>1, ColAlike, ColLevAlike
<1>5. /\ FDef13 = s1 \o s2 \o s3 \o s4
      /\ FInq13 = u1 \o u2 \o u3 \o u4
  BY DEF FDef13, FInq13
<1> HIDE DEF s1, s2, s3, s4, u1, u2, u3, u4, n1, n2, n3, n4
<1> QED
  BY <1>2, <1>3, <1>4, <1>5, AlikeJoins

FNames14 ==
  {"LWCF"}
LEMMA FList14 == Alike(FDef14, FInq14, FNames14, FShapes)
<1> DEFINE n == FDef14!1
<1>1. IsNames(n) /\ Ran(n) = FNames14
  <2>1. IsNames(n)
    BY DEF IsNames, IsList
  <2>2. Ran(n) = FNames14
    BY DEF Ran, FNames14
  <2> QED
    BY <2>1, <2>2
<1>2. Alike(FDef14, FInq14, Ran(n), FShapes)
  BY <1>1, ColAlike DEF FDef14, FInq14
<1> QED
  BY <1>1, <1>2

FNames15 ==
  {"Mass_bc", "Mass_dst", "Mass_mom", "Mass_ncl", "Mass_pom", "Mass_so4", "Mass_soa",
   "NUMICE", "NUMLIQ", "NUMRAI", "NUMSNO", "O3", "O3_SRF", "OCNFRAC"}
LEMMA FList15 == Alike(FDef15, FInq15, FNames15, FShapes)
<1> DEFINE n1 == FDef15!1!1!1
           n2 == FDef15!1!2!1
           n3 == FDef15!2!1
           s1 == FDef15!1!1   u1 == FInq15!1!1
           s2 == FDef15!1!2   u2 == FInq15!1!2
           s3 == FDef15!2   u3 == FInq15!2
           N1 == Ran(n1)
           N2 == N1 \cup Ran(n2)
           N3 == N2 \cup Ran(n3)
<1>1. /\ IsNames(n1)
      /\ IsNames(n2)
      /\ IsNames(n3)
  <2>1. IsNames(n1)
    BY DEF IsNames, IsList
  <2>2. /\ IsNames(n2)
        /\ IsNames(n3)
    BY DEF IsNames, IsList
  <2> QED
    BY <2>1, <2>2
<1>2. /\ N1 \cap Ran(n2) = {}
      /\ N2 \cap Ran(n3) = {}
  BY DEF Ran
<1>3. N3 = FNames15
  BY DEF Ran, FNames15
<1>4. /\ Alike(s1, u1, Ran(n1), FShapes)
      /\ Alike(s2, u2, Ran(n2), FShapes)
      /\ Alike(s3, u3, Ran(n3), FShapes)
  BY <1>1, ColAlike, ColLevAlike
<1>5. /\ FDef15 = s1 \o s2 \o s3
      /\ FInq15 = u1 \o u2 \o u3
  BY DEF FDef15, FInq15
<1> HIDE DEF s1, s2, s3, u1, u2, u3, n1, n2, n3
<1> QED
  BY <1>2, <1>3, <1>4, <1>5, AlikeJoins

FNames16 ==
  {"OMEGA"}
LEMMA FList16 == Alike(FDef16, FInq16, FNames16, FShapes)
<1> DEFINE n == FDef16!1
<1>1. IsNames(n) /\ Ran(n) = FNames16
  <2>1. IsNames(n)
    BY DEF IsNames, IsList
  <2>2. Ran(n) = FNames16
    BY DEF Ran, FNames16
  <2> QED
    BY <2>1, <2>2
<1>2. Alike(FDef16, FInq16, Ran(n), FShapes)
  BY <1>1, ColLevAlike DEF FDef16, FInq16
<1> QED
  BY <1>1, <1>2

FNames17 ==
  {"OMEGA500"}
LEMMA FList17 == Alike(FDef17, FInq17, FNames17, FShapes)
<1> DEFINE n == FDef17!1
<1>1. IsNames(n) /\ Ran(n) = FNames17
  <2>1. IsNames(n)
    BY DEF IsNames, IsList
  <2>2. Ran(n) = FNames17
    BY DEF Ran, FNames17
  <2> QED
    BY <2>1, <2>2
<1>2. Alike(FDef17, FInq17, Ran(n), FShapes)
  BY <1>1, ColAlike DEF FDef17, FInq17
<1> QED
  BY <1>1, <1>2

FNames18 ==
  {"OMEGAT", "PBLH", "PHIS", "PRECC", "PRECL", "PRECSC", "PRECSL"}
LEMMA FList18 == Alike(FDef18, FInq18, FNames18, FShapes)
<1> DEFINE n1 == FDef18!1!1
           n2 == FDef18!2!1
           s1 == FDef18!1   u1 == FInq18!1
           s2 == FDef18!2   u2 == FInq18!2
           N1 == Ran(n1)
           N2 == N1 \cup Ran(n2)
<1>1. /\ IsNames(n1)
      /\ IsNames(n2)
  BY DEF IsNames, IsList
<1>2. N1 \cap Ran(n2) = {}
  BY DEF Ran
<1>3. N2 = FNames18
  BY DEF Ran, FNames18
<1>4. /\ Alike(s1, u1, Ran(n1), FShapes)
      /\ Alike(s2, u2, Ran(n2), FShapes)
  BY <1>1, ColAlike, ColLevAlike
<1>5. /\ FDef18 = s1 \o s2
      /\ FInq18 = u1 \o u2
  BY DEF FDef18, FInq18
<1> HIDE DEF s1, s2, u1, u2, n1, n2
<1> QED
  BY <1>2, <1>3, <1>4, <1>5, AlikeJoins

FNames19 ==
  {"OMEGA850", "PRECT"}
LEMMA FList19 == Alike(FDef19, FInq19, FNames19, FShapes)
<1> DEFINE n == FDef19!1
<1>1. IsNames(n) /\ Ran(n) = FNames19
  <2>1. IsNames(n)
    BY DEF IsNames, IsList
  <2>2. Ran(n) = FNames19
    BY DEF Ran, FNames19
  <2> QED
    BY <2>1, <2>2
<1>2. Alike(FDef19, FInq19, Ran(n), FShapes)
  BY <1>1, ColAlike DEF FDef19, FInq19
<1> QED
  BY <1>1, <1>2

FNames20 ==
  {"PS"}
LEMMA FList20 == Alike(FDef20, FInq20, FNames20, FShapes)
<1> DEFINE n == FDef20!1
<1>1. IsNames(n) /\ Ran(n) = FNames20
  <2>1. IsNames(n)
    BY DEF IsNames, IsList
  <2>2. Ran(n) = FNames20
    BY DEF Ran, FNames20
  <2> QED
    BY <2>1, <2>2
<1>2. Alike(FDef20, FInq20, Ran(n), FShapes)
  BY <1>1, ColAlike DEF FDef20, FInq20
<1> QED
  BY <1>1, <1>2

FNames21 ==
  {"PSL", "Q", "QFLX", "QREFHT", "QRL", "QRS", "RAINQM", "RAM1", "RELHUM", "SFDMS",
   "SFH2O2", "SFH2SO4", "SFO3", "SFSO2", "SFSOAG", "SFbc_a1"}
LEMMA FList21 == Alike(FDef21, FInq21, FNames21, FShapes)
<1> DEFINE n1 == FDef21!1!1!1!1!1!1!1!1
           n2 == FDef21!1!1!1!1!1!1!2!1
           n3 == FDef21!1!1!1!1!1!2!1
           n4 == FDef21!1!1!1!1!2!1
           n5 == FDef21!1!1!1!2!1
           n6 == FDef21!1!1!2!1
           n7 == FDef21!1!2!1
           n8 == FDef21!2!1
           s1 == FDef21!1!1!1!1!1!1!1   u1 == FInq21!1!1!1!1!1!1!1
           s2 == FDef21!1!1!1!1!1!1!2   u2 == FInq21!1!1!1!1!1!1!2
           s3 == FDef21!1!1!1!1!1!2   u3 == FInq21!1!1!1!1!1!2
           s4 == FDef21!1!1!1!1!2   u4 == FInq21!1!1!1!1!2
           s5 == FDef21!1!1!1!2   u5 == FInq21!1!1!1!2
           s6 == FDef21!1!1!2   u6 == FInq21!1!1!2
           s7 == FDef21!1!2   u7 == FInq21!1!2
           s8 == FDef21!2   u8 == FInq21!2
           N1 == Ran(n1)
           N2 == N1 \cup Ran(n2)
           N3 == N2 \cup Ran(n3)
           N4 == N3 \cup Ran(n4)
           N5 == N4 \cup Ran(n5)
           N6 == N5 \cup Ran(n6)
           N7 == N6 \cup Ran(n7)
           N8 == N7 \cup Ran(n8)
<1>1. /\ IsNames(n1)
      /\ IsNames(n2)
      /\ IsNames(n3)
      /\ IsNames(n4)
      /\ IsNames(n5)
      /\ IsNames(n6)
      /\ IsNames(n7)
      /\ IsNames(n8)
  <2>1. IsNames(n8)
    BY DEF IsNames, IsList
  <2>2. /\ IsNames(n1)
        /\ IsNames(n2)
        /\ IsNames(n3)
        /\ IsNames(n4)
        /\ IsNames(n5)
        /\ IsNames(n6)
        /\ IsNames(n7)
    BY DEF IsNames, IsList
  <2> QED
    BY <2>1, <2>2
<1>2. /\ N1 \cap Ran(n2) = {}
      /\ N2 \cap Ran(n3) = {}
      /\ N3 \cap Ran(n4) = {}
      /\ N4 \cap Ran(n5) = {}
      /\ N5 \cap Ran(n6) = {}
      /\ N6 \cap Ran(n7) = {}
      /\ N7 \cap Ran(n8) = {}
  BY DEF Ran
<1>3. N8 = FNames21
  BY DEF Ran, FNames21
<1>4. /\ Alike(s1, u1, Ran(n1), FShapes)
      /\ Alike(s2, u2, Ran(n2), FShapes)
      /\ Alike(s3, u3, Ran(n3), FShapes)
      /\ Alike(s4, u4, Ran(n4), FShapes)
      /\ Alike(s5, u5, Ran(n5), FShapes)
      /\ Alike(s6, u6, Ran(n6), FShapes)
      /\ Alike(s7, u7, Ran(n7), FShapes)
      /\ Alike(s8, u8, Ran(n8), FShapes)
  BY <1>1, ColAlike, ColLevAlike
<1>5. /\ FDef21 = s1 \o s2 \o s3 \o s4 \o s5 \o s6 \o s7 \o s8
      /\ FInq21 = u1 \o u2 \o u3 \o u4 \o u5 \o u6 \o u7 \o u8
  BY DEF FDef21, FInq21
<1> HIDE DEF s1, s2, s3, s4, s5, s6, s7, s8, u1, u2, u3, u4, u5, u6, u7, u8, n1, n2, n3, n4,
             n5, n6, n7, n8
<1>6. Alike(s1 \o s2 \o s3 \o s4, u1 \o u2 \o u3 \o u4, N4, FShapes)
  BY <1>2, <1>4, AlikeJoins
<1> QED
  BY <1>2, <1>3, <1>4, <1>5, <1>6, AlikeJoins

FNames22 ==
  {"SFbc_a3", "SFbc_a4", "SFdst_a1", "SFdst_a3", "SFmom_a1", "SFmom_a2", "SFmom_a3",
   "SFmom_a4", "SFncl_a1", "SFncl_a2", "SFncl_a3", "SFnum_a1", "SFnum_a2", "SFnum_a3",
   "SFnum_a4", "SFpom_a1", "SFpom_a3", "SFpom_a4"}
LEMMA FList22 == Alike(FDef22, FInq22, FNames22, FShapes)
<1> DEFINE n == FDef22!1
<1>1. IsNames(n) /\ Ran(n) = FNames22
  <2>1. IsNames(n)
    BY DEF IsNames, IsList
  <2>2. Ran(n) = FNames22
    BY DEF Ran, FNames22
  <2> QED
    BY <2>1, <2>2
<1>2. Alike(FDef22, FInq22, Ran(n), FShapes)
  BY <1>1, ColAlike DEF FDef22, FInq22
<1> QED
  BY <1>1, <1>2

FNames23 ==
  {"SFso4_a1", "SFso4_a2", "SFso4_a3", "SFsoa_a1", "SFsoa_a2", "SFsoa_a3", "SHFLX",
   "SH_KCLDBASE", "SH_MFUP_MAX", "SH_WCLDBASE", "SNOWHICE", "SNOWHLND", "SNOWQM", "SO2",
   "SO2_CLXF", "SO2_SRF", "SOAG_CLXF", "SOAG_SRF"}
LEMMA FList23 == Alike(FDef23, FInq23, FNames23, FShapes)
<1> DEFINE n1 == FDef23!1!1!1!1!1
           n2 == FDef23!1!1!1!2!1
           n3 == FDef23!1!1!2!1
           n4 == FDef23!1!2!1
           n5 == FDef23!2!1
           s1 == FDef23!1!1!1!1   u1 == FInq23!1!1!1!1
           s2 == FDef23!1!1!1!2   u2 == FInq23!1!1!1!2
           s3 == FDef23!1!1!2   u3 == FInq23!1!1!2
           s4 == FDef23!1!2   u4 == FInq23!1!2
           s5 == FDef23!2   u5 == FInq23!2
           N1 == Ran(n1)
           N2 == N1 \cup Ran(n2)
           N3 == N2 \cup Ran(n3)
           N4 == N3 \cup Ran(n4)
           N5 == N4 \cup Ran(n5)
<1>1. /\ IsNames(n1)
      /\ IsNames(n2)
      /\ IsNames(n3)
      /\ IsNames(n4)
      /\ IsNames(n5)
  BY DEF IsNames, IsList
<1>2. /\ N1 \cap Ran(n2) = {}
      /\ N2 \cap Ran(n3) = {}
      /\ N3 \cap Ran(n4) = {}
      /\ N4 \cap Ran(n5) = {}
  BY DEF Ran
<1>3. N5 = FNames23
  BY DEF Ran, FNames23
<1>4. /\ Alike(s1, u1, Ran(n1), FShapes)
      /\ Alike(s2, u2, Ran(n2), FShapes)
      /\ Alike(s3, u3, Ran(n3), FShapes)
      /\ Alike(s4, u4, Ran(n4), FShapes)
      /\ Alike(s5, u5, Ran(n5), FShapes)
  BY <1>1, ColAlike, ColLevAlike
<1>5. /\ FDef23 = s1 \o s2 \o s3 \o s4 \o s5
      /\ FInq23 = u1 \o u2 \o u3 \o u4 \o u5
  BY DEF FDef23, FInq23
<1> HIDE DEF s1, s2, s3, s4, s5, u1, u2, u3, u4, u5, n1, n2, n3, n4, n5
<1> QED
  BY <1>2, <1>3, <1>4, <1>5, AlikeJoins

FNames24 ==
  {"SOAG_sfgaex1", "SOLIN", "SSAVIS", "SSTSFMBL", "SSTSFMBL_OM"}
LEMMA FList24 == Alike(FDef24, FInq24, FNames24, FShapes)
<1> DEFINE n1 == FDef24!1!1!1!1
           n2 == FDef24!1!1!2!1
           n3 == FDef24!1!2!1
           n4 == FDef24!2!1
           s1 == FDef24!1!1!1   u1 == FInq24!1!1!1
           s2 == FDef24!1!1!2   u2 == FInq24!1!1!2
           s3 == FDef24!1!2   u3 == FInq24!1!2
           s4 == FDef24!2   u4 == FInq24!2
           N1 == Ran(n1)
           N2 == N1 \cup Ran(n2)
           N3 == N2 \cup Ran(n3)
           N4 == N3 \cup Ran(n4)
<1>1. /\ IsNames(n1)
      /\ IsNames(n2)
      /\ IsNames(n3)
      /\ IsNames(n4)
  BY DEF IsNames, IsList
<1>2. /\ N1 \cap Ran(n2) = {}
      /\ N2 \cap Ran(n3) = {}
      /\ N3 \cap Ran(n4) = {}
  BY DEF Ran
<1>3. N4 = FNames24
  BY DEF Ran, FNames24
<1>4. /\ Alike(s1, u1, Ran(n1), FShapes)
      /\ Alike(s2, u2, Ran(n2), FShapes)
      /\ Alike(s3, u3, Ran(n3), FShapes)
      /\ Alike(s4, u4, Ran(n4), FShapes)
  BY <1>1, ColAlike
<1>5. /\ FDef24 = s1 \o s2 \o s3 \o s4
      /\ FInq24 = u1 \o u2 \o u3 \o u4
  BY DEF FDef24, FInq24
<1> HIDE DEF s1, s2, s3, s4, u1, u2, u3, u4, n1, n2, n3, n4
<1> QED
  BY <1>2, <1>3, <1>4, <1>5, AlikeJoins

FNames25 ==
  {"SWCF"}
LEMMA FList25 == Alike(FDef25, FInq25, FNames25, FShapes)
<1> DEFINE n == FDef25!1
<1>1. IsNames(n) /\ Ran(n) = FNames25
  <2>1. IsNames(n)
    BY DEF IsNames, IsList
  <2>2. Ran(n) = FNames25
    BY DEF Ran, FNames25
  <2> QED
    BY <2>1, <2>2
<1>2. Alike(FDef25, FInq25, Ran(n), FShapes)
  BY <1>1, ColAlike DEF FDef25, FInq25
<1> QED
  BY <1>1, <1>2

FNames26 ==
  {"T", "TAUGWX", "TAUGWY", "TAUX", "TAUY", "TGCLDCWP", "TGCLDIWP", "TGCLDLWP", "TH7001000"}
LEMMA FList26 == Alike(FDef26, FInq26, FNames26, FShapes)
<1> DEFINE n1 == FDef26!1!1!1!1
           n2 == FDef26!1!1!2!1
           n3 == FDef26!1!2!1
           n4 == FDef26!2!1
           s1 == FDef26!1!1!1   u1 == FInq26!1!1!1
           s2 == FDef26!1!1!2   u2 == FInq26!1!1!2
           s3 == FDef26!1!2   u3 == FInq26!1!2
           s4 == FDef26!2   u4 == FInq26!2
           N1 == Ran(n1)
           N2 == N1 \cup Ran(n2)
           N3 == N2 \cup Ran(n3)
           N4 == N3 \cup Ran(n4)
<1>1. /\ IsNames(n1)
      /\ IsNames(n2)
      /\ IsNames(n3)
      /\ IsNames(n4)
  BY DEF IsNames, IsList
<1>2. /\ N1 \cap Ran(n2) = {}
      /\ N2 \cap Ran(n3) = {}
      /\ N3 \cap Ran(n4) = {}
  BY DEF Ran
<1>3. N4 = FNames26
  BY DEF Ran, FNames26
<1>4. /\ Alike(s1, u1, Ran(n1), FShapes)
      /\ Alike(s2, u2, Ran(n2), FShapes)
      /\ Alike(s3, u3, Ran(n3), FShapes)
      /\ Alike(s4, u4, Ran(n4), FShapes)
  BY <1>1, ColAlike, ColLevAlike
<1>5. /\ FDef26 = s1 \o s2 \o s3 \o s4
      /\ FInq26 = u1 \o u2 \o u3 \o u4
  BY DEF FDef26, FInq26
<1> HIDE DEF s1, s2, s3, s4, u1, u2, u3, u4, n1, n2, n3, n4
<1> QED
  BY <1>2, <1>3, <1>4, <1>5, AlikeJoins

FNames27 ==
  {"T850"}
LEMMA FList27 == Alike(FDef27, FInq27, FNames27, FShapes)
<1> DEFINE n == FDef27!1
<1>1. IsNames(n) /\ Ran(n) = FNames27
  <2>1. IsNames(n)
    BY DEF IsNames, IsList
  <2>2. Ran(n) = FNames27
    BY DEF Ran, FNames27
  <2> QED
    BY <2>1, <2>2
<1>2. Alike(FDef27, FInq27, Ran(n), FShapes)
  BY <1>1, ColAlike DEF FDef27, FInq27
<1> QED
  BY <1>1, <1>2

FNames28 ==
  {"TMQ"}
LEMMA FList28 == Alike(FDef28, FInq28, FNames28, FShapes)
<1> DEFINE n == FDef28!1
<1>1. IsNames(n) /\ Ran(n) = FNames28
  <2>1. IsNames(n)
    BY DEF IsNames, IsList
  <2>2. Ran(n) = FNames28
    BY DEF Ran, FNames28
  <2> QED
    BY <2>1, <2>2
<1>2. Alike(FDef28, FInq28, Ran(n), FShapes)
  BY <1>1, ColAlike DEF FDef28, FInq28
<1> QED
  BY <1>1, <1>2

FNames29 ==
  {"TREFHT", "TROP_P", "TROP_T"}
LEMMA FList29 == Alike(FDef29, FInq29, FNames29, FShapes)
<1> DEFINE n1 == FDef29!1!1
           n2 == FDef29!2!1
           s1 == FDef29!1   u1 == FInq29!1
           s2 == FDef29!2   u2 == FInq29!2
           N1 == Ran(n1)
           N2 == N1 \cup Ran(n2)
<1>1. /\ IsNames(n1)
      /\ IsNames(n2)
  BY DEF IsNames, IsList
<1>2. N1 \cap Ran(n2) = {}
  BY DEF Ran
<1>3. N2 = FNames29
  BY DEF Ran, FNames29
<1>4. /\ Alike(s1, u1, Ran(n1), FShapes)
      /\ Alike(s2, u2, Ran(n2), FShapes)
  BY <1>1, ColAlike
<1>5. /\ FDef29 = s1 \o s2
      /\ FInq29 = u1 \o u2
  BY DEF FDef29, FInq29
<1> HIDE DEF s1, s2, u1, u2, n1, n2
<1> QED
  BY <1>2, <1>3, <1>4, <1>5, AlikeJoins

FNames30 ==
  {"TS"}
LEMMA FList30 == Alike(FDef30, FInq30, FNames30, FShapes)
<1> DEFINE n == FDef30!1
<1>1. IsNames(n) /\ Ran(n) = FNames30
  <2>1. IsNames(n)
    BY DEF IsNames, IsList
  <2>2. Ran(n) = FNames30
    BY DEF Ran, FNames30
  <2> QED
    BY <2>1, <2>2
<1>2. Alike(FDef30, FInq30, Ran(n), FShapes)
  BY <1>1, ColAlike DEF FDef30, FInq30
<1> QED
  BY <1>1, <1>2

FNames31 ==
  {"TSMN", "TSMX", "TUH", "TUQ", "TVH", "TVQ"}
LEMMA FList31 == Alike(FDef31, FInq31, FNames31, FShapes)
<1> DEFINE n == FDef31!1
<1>1. IsNames(n) /\ Ran(n) = FNames31
  <2>1. IsNames(n)
    BY DEF IsNames, IsList
  <2>2. Ran(n) = FNames31
    BY DEF Ran, FNames31
  <2> QED
    BY <2>1, <2>2
<1>2. Alike(FDef31, FInq31, Ran(n), FShapes)
  BY <1>1, ColAlike DEF FDef31, FInq31
<1> QED
  BY <1>1, <1>2

FNames32 ==
  {"U"}
LEMMA FList32 == Alike(FDef32, FInq32, FNames32, FShapes)
<1> DEFINE n == FDef32!1
<1>1. IsNames(n) /\ Ran(n) = FNames32
  <2>1. IsNames(n)
    BY DEF IsNames, IsList
  <2>2. Ran(n) = FNames32
    BY DEF Ran, FNames32
  <2> QED
    BY <2>1, <2>2
<1>2. Alike(FDef32, FInq32, Ran(n), FShapes)
  BY <1>1, ColLevAlike DEF FDef32, FInq32
<1> QED
  BY <1>1, <1>2

FNames33 ==
  {"U10", "UU", "V", "VQ", "VT", "VU", "VV", "WD_H2O2", "WD_H2SO4", "WD_SO2", "WSUB", "Z3",
   "aero_water", "airFV", "bc_a1DDF", "bc_a1SFWET"}
LEMMA FList33 == Alike(FDef33, FInq33, FNames33, FShapes)
<1> DEFINE n1 == FDef33!1!1!1!1!1!1!1!1!1
           n2 == FDef33!1!1!1!1!1!1!1!2!1
           n3 == FDef33!1!1!1!1!1!1!2!1
           n4 == FDef33!1!1!1!1!1!2!1
           n5 == FDef33!1!1!1!1!2!1
           n6 == FDef33!1!1!1!2!1
           n7 == FDef33!1!1!2!1
           n8 == FDef33!1!2!1
           n9 == FDef33!2!1
           s1 == FDef33!1!1!1!1!1!1!1!1   u1 == FInq33!1!1!1!1!1!1!1!1
           s2 == FDef33!1!1!1!1!1!1!1!2   u2 == FInq33!1!1!1!1!1!1!1!2
           s3 == FDef33!1!1!1!1!1!1!2   u3 == FInq33!1!1!1!1!1!1!2
           s4 == FDef33!1!1!1!1!1!2   u4 == FInq33!1!1!1!1!1!2
           s5 == FDef33!1!1!1!1!2   u5 == FInq33!1!1!1!1!2
           s6 == FDef33!1!1!1!2   u6 == FInq33!1!1!1!2
           s7 == FDef33!1!1!2   u7 == FInq33!1!1!2
           s8 == FDef33!1!2   u8 == FInq33!1!2
           s9 == FDef33!2   u9 == FInq33!2
           N1 == Ran(n1)
           N2 == N1 \cup Ran(n2)
           N3 == N2 \cup Ran(n3)
           N4 == N3 \cup Ran(n4)
           N5 == N4 \cup Ran(n5)
           N6 == N5 \cup Ran(n6)
           N7 == N6 \cup Ran(n7)
           N8 == N7 \cup Ran(n8)
           N9 == N8 \cup Ran(n9)
<1>1. /\ IsNames(n1)
      /\ IsNames(n2)
      /\ IsNames(n3)
      /\ IsNames(n4)
      /\ IsNames(n5)
      /\ IsNames(n6)
      /\ IsNames(n7)
      /\ IsNames(n8)
      /\ IsNames(n9)
  BY DEF IsNames, IsList
<1>2. /\ N1 \cap Ran(n2) = {}
      /\ N2 \cap Ran(n3) = {}
      /\ N3 \cap Ran(n4) = {}
      /\ N4 \cap Ran(n5) = {}
      /\ N5 \cap Ran(n6) = {}
      /\ N6 \cap Ran(n7) = {}
      /\ N7 \cap Ran(n8) = {}
      /\ N8 \cap Ran(n9) = {}
  BY DEF Ran
<1>3. N9 = FNames33
  BY DEF Ran, FNames33
<1>4. /\ Alike(s1, u1, Ran(n1), FShapes)
      /\ Alike(s2, u2, Ran(n2), FShapes)
      /\ Alike(s3, u3, Ran(n3), FShapes)
      /\ Alike(s4, u4, Ran(n4), FShapes)
      /\ Alike(s5, u5, Ran(n5), FShapes)
      /\ Alike(s6, u6, Ran(n6), FShapes)
      /\ Alike(s7, u7, Ran(n7), FShapes)
      /\ Alike(s8, u8, Ran(n8), FShapes)
      /\ Alike(s9, u9, Ran(n9), FShapes)
  BY <1>1, ColAlike, ColLevAlike
<1>5. /\ FDef33 = s1 \o s2 \o s3 \o s4 \o s5 \o s6 \o s7 \o s8 \o s9
      /\ FInq33 = u1 \o u2 \o u3 \o u4 \o u5 \o u6 \o u7 \o u8 \o u9
  BY DEF FDef33, FInq33
<1> HIDE DEF s1, s2, s3, s4, s5, s6, s7, s8, s9, u1, u2, u3, u4, u5, u6, u7, u8, u9, n1, n2,
             n3, n4, n5, n6, n7, n8, n9
<1>6. Alike(s1 \o s2 \o s3 \o s4, u1 \o u2 \o u3 \o u4, N4, FShapes)
  BY <1>2, <1>4, AlikeJoins
<1> QED
  BY <1>2, <1>3, <1>4, <1>5, <1>6, AlikeJoins

FNames34 ==
  {"bc_a1_SRF", "bc_a1_sfgaex1", "bc_a3DDF", "bc_a3SFWET", "bc_a3_SRF", "bc_a4DDF",
   "bc_a4SFWET", "bc_a4_CLXF", "bc_a4_SRF", "bc_a4_sfgaex1", "bc_c1DDF", "bc_c1SFWET",
   "bc_c3DDF", "bc_c3SFWET", "bc_c4DDF", "bc_c4SFWET", "chla", "dst_a1DDF"}
LEMMA FList34 == Alike(FDef34, FInq34, FNames34, FShapes)
<1> DEFINE n == FDef34!1
<1>1. IsNames(n) /\ Ran(n) = FNames34
  <2>1. IsNames(n)
    BY DEF IsNames, IsList
  <2>2. Ran(n) = FNames34
    BY DEF Ran, FNames34
  <2> QED
    BY <2>1, <2>2
<1>2. Alike(FDef34, FInq34, Ran(n), FShapes)
  BY <1>1, ColAlike DEF FDef34, FInq34
<1> QED
  BY <1>1, <1>2

FNames35 ==
  {"dst_a1SF", "dst_a1SFWET", "dst_a1_SRF", "dst_a3DDF", "dst_a3SF", "dst_a3SFWET",
   "dst_a3_SRF", "dst_c1DDF", "dst_c1SFWET", "dst_c3DDF", "dst_c3SFWET", "hstobie_linoz",
   "mlip", "mom_a1DDF", "mom_a1SF", "mom_a1SFWET", "mom_a1_SRF", "mom_a1_sfgaex1"}
LEMMA FList35 == Alike(FDef35, FInq35, FNames35, FShapes)
<1> DEFINE n1 == FDef35!1!1!1
           n2 == FDef35!1!2!1
           n3 == FDef35!2!1
           s1 == FDef35!1!1   u1 == FInq35!1!1
           s2 == FDef35!1!2   u2 == FInq35!1!2
           s3 == FDef35!2   u3 == FInq35!2
           N1 == Ran(n1)
           N2 == N1 \cup Ran(n2)
           N3 == N2 \cup Ran(n3)
<1>1. /\ IsNames(n1)
      /\ IsNames(n2)
      /\ IsNames(n3)
  <2>1. IsNames(n1)
    BY DEF IsNames, IsList
  <2>2. /\ IsNames(n2)
        /\ IsNames(n3)
    BY DEF IsNames, IsList
  <2> QED
    BY <2>1, <2>2
<1>2. /\ N1 \cap Ran(n2) = {}
      /\ N2 \cap Ran(n3) = {}
  BY DEF Ran
<1>3. N3 = FNames35
  BY DEF Ran, FNames35
<1>4. /\ Alike(s1, u1, Ran(n1), FShapes)
      /\ Alike(s2, u2, Ran(n2), FShapes)
      /\ Alike(s3, u3, Ran(n3), FShapes)
  BY <1>1, ColAlike, ColLevAlike
<1>5. /\ FDef35 = s1 \o s2 \o s3
      /\ FInq35 = u1 \o u2 \o u3
  BY DEF FDef35, FInq35
<1> HIDE DEF s1, s2, s3, u1, u2, u3, n1, n2, n3
<1> QED
  BY <1>2, <1>3, <1>4, <1>5, AlikeJoins

FNames36 ==
  {"mom_a2DDF", "mom_a2SF", "mom_a2SFWET", "mom_a2_SRF", "mom_a3DDF", "mom_a3SFWET",
   "mom_a3_SRF", "mom_a4DDF", "mom_a4SF", "mom_a4SFWET", "mom_a4_SRF", "mom_a4_sfgaex1",
   "mom_c1DDF", "mom_c1SFWET", "mom_c2DDF", "mom_c2SFWET", "mom_c3DDF", "mom_c3SFWET"}
LEMMA FList36 == Alike(FDef36, FInq36, FNames36, FShapes)
<1> DEFINE n == FDef36!1
<1>1. IsNames(n) /\ Ran(n) = FNames36
  <2>1. IsNames(n)
    BY DEF IsNames, IsList
  <2>2. Ran(n) = FNames36
    BY DEF Ran, FNames36
  <2> QED
    BY <2>1, <2>2
<1>2. Alike(FDef36, FInq36, Ran(n), FShapes)
  BY <1>1, ColAlike DEF FDef36, FInq36
<1> QED
  BY <1>1, <1>2

FNames37 ==
  {"mom_c4DDF", "mom_c4SFWET", "mpoly", "mprot", "ncl_a1DDF", "ncl_a1SF", "ncl_a1SFWET",
   "ncl_a1_SRF", "ncl_a2DDF", "ncl_a2SF", "ncl_a2SFWET", "ncl_a2_SRF", "ncl_a3DDF",
   "ncl_a3SF", "ncl_a3SFWET", "ncl_a3_SRF", "ncl_c1DDF", "ncl_c1SFWET"}
LEMMA FList37 == Alike(FDef37, FInq37, FNames37, FShapes)
<1> DEFINE n == FDef37!1
<1>1. IsNames(n) /\ Ran(n) = FNames37
  <2>1. IsNames(n)
    BY DEF IsNames, IsList
  <2>2. Ran(n) = FNames37
    BY DEF Ran, FNames37
  <2> QED
    BY <2>1, <2>2
<1>2. Alike(FDef37, FInq37, Ran(n), FShapes)
  BY <1>1, ColAlike DEF FDef37, FInq37
<1> QED
  BY <1>1, <1>2

FNames38 ==
  {"ncl_c2DDF", "ncl_c2SFWET", "ncl_c3DDF", "ncl_c3SFWET", "num_a1DDF", "num_a1SF",
   "num_a1SFWET", "num_a1_CLXF", "num_a1_SRF", "num_a1_sfgaex1", "num_a2DDF", "num_a2SFWET",
   "num_a2_CLXF", "num_a2_SRF", "num_a3DDF", "num_a3SF", "num_a3SFWET", "num_a3_SRF"}
LEMMA FList38 == Alike(FDef38, FInq38, FNames38, FShapes)
<1> DEFINE n == FDef38!1
<1>1. IsNames(n) /\ Ran(n) = FNames38
  <2>1. IsNames(n)
    BY DEF IsNames, IsList
  <2>2. Ran(n) = FNames38
    BY DEF Ran, FNames38
  <2> QED
    BY <2>1, <2>2
<1>2. Alike(FDef38, FInq38, Ran(n), FShapes)
  BY <1>1, ColAlike DEF FDef38, FInq38
<1> QED
  BY <1>1, <1>2

FNames39 ==
  {"num_a4DDF", "num_a4SFWET", "num_a4_CLXF", "num_a4_SRF", "num_a4_sfgaex1", "num_c1DDF",
   "num_c1SFWET", "num_c2DDF", "num_c2SFWET", "num_c3DDF", "num_c3SFWET", "num_c4DDF",
   "num_c4SFWET", "pom_a1DDF", "pom_a1SFWET", "pom_a1_SRF", "pom_a1_sfgaex1", "pom_a3DDF"}
LEMMA FList39 == Alike(FDef39, FInq39, FNames39, FShapes)
<1> DEFINE n == FDef39!1
<1>1. IsNames(n) /\ Ran(n) = FNames39
  <2>1. IsNames(n)
    BY DEF IsNames, IsList
  <2>2. Ran(n) = FNames39
    BY DEF Ran, FNames39
  <2> QED
    BY <2>1, <2>2
<1>2. Alike(FDef39, FInq39, Ran(n), FShapes)
  BY <1>1, ColAlike DEF FDef39, FInq39
<1> QED
  BY <1>1, <1>2

FNames40 ==
  {"pom_a3SFWET", "pom_a3_SRF", "pom_a4DDF", "pom_a4SFWET", "pom_a4_CLXF", "pom_a4_SRF",
   "pom_a4_sfgaex1", "pom_c1DDF", "pom_c1SFWET", "pom_c3DDF", "pom_c3SFWET", "pom_c4DDF",
   "pom_c4SFWET", "so4_a1DDF", "so4_a1SFWET", "so4_a1_CLXF", "so4_a1_SRF", "so4_a1_sfgaex1"}
LEMMA FList40 == Alike(FDef40, FInq40, FNames40, FShapes)
<1> DEFINE n == FDef40!1
<1>1. IsNames(n) /\ Ran(n) = FNames40
  <2>1. IsNames(n)
    BY DEF IsNames, IsList
  <2>2. Ran(n) = FNames40
    BY DEF Ran, FNames40
  <2> QED
    BY <2>1, <2>2
<1>2. Alike(FDef40, FInq40, Ran(n), FShapes)
  BY <1>1, ColAlike DEF FDef40, FInq40
<1> QED
  BY <1>1, <1>2

FNames41 ==
  {"so4_a2DDF", "so4_a2SFWET", "so4_a2_CLXF", "so4_a2_SRF", "so4_a2_sfgaex1", "so4_a3DDF",
   "so4_a3SFWET", "so4_a3_SRF", "so4_a3_sfgaex1", "so4_c1DDF", "so4_c1SFWET", "so4_c2DDF",
   "so4_c2SFWET", "so4_c3DDF", "so4_c3SFWET", "soa_a1DDF", "soa_a1SFWET", "soa_a1_SRF"}
LEMMA FList41 == Alike(FDef41, FInq41, FNames41, FShapes)
<1> DEFINE n == FDef41!1
<1>1. IsNames(n) /\ Ran(n) = FNames41
  <2>1. IsNames(n)
    BY DEF IsNames, IsList
  <2>2. Ran(n) = FNames41
    BY DEF Ran, FNames41
  <2> QED
    BY <2>1, <2>2
<1>2. Alike(FDef41, FInq41, Ran(n), FShapes)
  BY <1>1, ColAlike DEF FDef41, FInq41
<1> QED
  BY <1>1, <1>2

FNames42 ==
  {"soa_a1_sfgaex1", "soa_a2DDF", "soa_a2SFWET", "soa_a2_SRF", "soa_a2_sfgaex1",
   "soa_a3DDF", "soa_a3SFWET", "soa_a3_SRF", "soa_a3_sfgaex1", "soa_c1DDF", "soa_c1SFWET",
   "soa_c2DDF", "soa_c2SFWET", "soa_c3DDF", "soa_c3SFWET"}
LEMMA FList42 == Alike(FDef42, FInq42, FNames42, FShapes)
<1> DEFINE n == FDef42!1
<1>1. IsNames(n) /\ Ran(n) = FNames42
  <2>1. IsNames(n)
    BY DEF IsNames, IsList
  <2>2. Ran(n) = FNames42
    BY DEF Ran, FNames42
  <2> QED
    BY <2>1, <2>2
<1>2. Alike(FDef42, FInq42, Ran(n), FShapes)
  BY <1>1, ColAlike DEF FDef42, FInq42
<1> QED
  BY <1>1, <1>2

FNames43 ==
  {"U250", "U850", "UBOT", "V250", "V850", "VBOT", "Z500"}
LEMMA FList43 == Alike(FDef43, FInq43, FNames43, FShapes)
<1> DEFINE n == FDef43!1
<1>1. IsNames(n) /\ Ran(n) = FNames43
  <2>1. IsNames(n)
    BY DEF IsNames, IsList
  <2>2. Ran(n) = FNames43
    BY DEF Ran, FNames43
  <2> QED
    BY <2>1, <2>2
<1>2. Alike(FDef43, FInq43, Ran(n), FShapes)
  BY <1>1, ColAlike DEF FDef43, FInq43
<1> QED
  BY <1>1, <1>2

\* The parts of the two lists that are in different orders.
LEMMA FFront ==
  Pair(FDef1, FInq1, FDef1Names, FShapes, 1, 7)
<1>1. /\ Block(FDef1, FDef1Names, FShapes, 2, 7) /\ Shown(FDef1) = FDef1Shown
      /\ Table(FInq1, FInq1Names) /\ Shown(FInq1) = FInq1Shown
  BY FDef1Is, FInq1Is DEF Says, Asks
<1>2. FInq1Names = FDef1Names
  BY DEF FInq1Names, FDef1Names
<1>3. FInq1Shown = FDef1Shown
  BY DEF FInq1Shown, FDef1Shown
<1>4. Block(FDef1, FDef1Names, FShapes, 1, 7)
  BY <1>1, BlockWidens
<1> QED
  BY <1>1, <1>2, <1>3, <1>4 DEF Pair

\* ... and together, whichever history file it is.
LEMMA FPair ==
  ASSUME NEW hist
  PROVE  \E N : Pair(FDefined(hist), FInquired(hist), N, FShapes, 1, 7)
<1> DEFINE N0 == FDef1Names
           N1 == N0 \cup FNames2
           N2 == N1 \cup FNames3
           N3 == N2 \cup FNames4
           N4 == N3 \cup FNames5
           N5 == N4 \cup FNames6
           N6 == N5 \cup FNames7
           N7 == N6 \cup FNames8
           N8 == N7 \cup FNames9
           N9 == N8 \cup FNames10
           N10 == N9 \cup FNames11
           N11 == N10 \cup FNames12
           N12 == N11 \cup FNames13
           N13 == N12 \cup FNames14
           N14 == N13 \cup FNames15
           N15 == N14 \cup FNames16
           N16 == N15 \cup FNames17
           N17 == N16 \cup FNames18
           N18 == N17 \cup FNames19
           N19 == N18 \cup FNames20
           N20 == N19 \cup FNames21
           N21 == N20 \cup FNames22
           N22 == N21 \cup FNames23
           N23 == N22 \cup FNames24
           N24 == N23 \cup FNames25
           N25 == N24 \cup FNames26
           N26 == N25 \cup FNames27
           N27 == N26 \cup FNames28
           N28 == N27 \cup FNames29
           N29 == N28 \cup FNames30
           N30 == N29 \cup FNames31
           N31 == N30 \cup FNames32
           N32 == N31 \cup FNames33
           N33 == N32 \cup FNames34
           N34 == N33 \cup FNames35
           N35 == N34 \cup FNames36
           N36 == N35 \cup FNames37
           N37 == N36 \cup FNames38
           N38 == N37 \cup FNames39
           N39 == N38 \cup FNames40
           N40 == N39 \cup FNames41
           N41 == N40 \cup FNames42
           N42 == N41 \cup FNames43
<1>1. N0 \cap FNames2 = {}
  BY DEF FDef1Names, FNames2
<1>2. N1 \cap FNames3 = {}
  BY DEF FDef1Names, FNames2, FNames3
<1>3. N2 \cap FNames4 = {}
  BY DEF FDef1Names, FNames2, FNames3, FNames4
<1>4. N3 \cap FNames5 = {}
  BY DEF FDef1Names, FNames2, FNames3, FNames4, FNames5
<1>5. N4 \cap FNames6 = {}
  BY DEF FDef1Names, FNames2, FNames3, FNames4, FNames5, FNames6
<1>6. N5 \cap FNames7 = {}
  BY DEF FDef1Names, FNames2, FNames3, FNames4, FNames5, FNames6, FNames7
<1>7. N6 \cap FNames8 = {}
  BY DEF FDef1Names, FNames2, FNames3, FNames4, FNames5, FNames6, FNames7, FNames8
<1>8. N7 \cap FNames9 = {}
  BY DEF FDef1Names, FNames2, FNames3, FNames4, FNames5, FNames6, FNames7, FNames8, FNames9
<1>9. N8 \cap FNames10 = {}
  BY DEF FDef1Names, FNames2, FNames3, FNames4, FNames5, FNames6, FNames7, FNames8, FNames9,
         FNames10
<1>10. N9 \cap FNames11 = {}
  BY DEF FDef1Names, FNames2, FNames3, FNames4, FNames5, FNames6, FNames7, FNames8, FNames9,
         FNames10, FNames11
<1>11. N10 \cap FNames12 = {}
  BY DEF FDef1Names, FNames2, FNames3, FNames4, FNames5, FNames6, FNames7, FNames8, FNames9,
         FNames10, FNames11, FNames12
<1>12. N11 \cap FNames13 = {}
  BY DEF FDef1Names, FNames2, FNames3, FNames4, FNames5, FNames6, FNames7, FNames8, FNames9,
         FNames10, FNames11, FNames12, FNames13
<1>13. N12 \cap FNames14 = {}
  BY DEF FDef1Names, FNames2, FNames3, FNames4, FNames5, FNames6, FNames7, FNames8, FNames9,
         FNames10, FNames11, FNames12, FNames13, FNames14
<1>14. N13 \cap FNames15 = {}
  BY DEF FDef1Names, FNames2, FNames3, FNames4, FNames5, FNames6, FNames7, FNames8, FNames9,
         FNames10, FNames11, FNames12, FNames13, FNames14, FNames15
<1>15. N14 \cap FNames16 = {}
  BY DEF FDef1Names, FNames2, FNames3, FNames4, FNames5, FNames6, FNames7, FNames8, FNames9,
         FNames10, FNames11, FNames12, FNames13, FNames14, FNames15, FNames16
<1>16. N15 \cap FNames17 = {}
  BY DEF FDef1Names, FNames2, FNames3, FNames4, FNames5, FNames6, FNames7, FNames8, FNames9,
         FNames10, FNames11, FNames12, FNames13, FNames14, FNames15, FNames16, FNames17
<1>17. N16 \cap FNames18 = {}
  BY DEF FDef1Names, FNames2, FNames3, FNames4, FNames5, FNames6, FNames7, FNames8, FNames9,
         FNames10, FNames11, FNames12, FNames13, FNames14, FNames15, FNames16, FNames17,
         FNames18
<1>18. N17 \cap FNames19 = {}
  BY DEF FDef1Names, FNames2, FNames3, FNames4, FNames5, FNames6, FNames7, FNames8, FNames9,
         FNames10, FNames11, FNames12, FNames13, FNames14, FNames15, FNames16, FNames17,
         FNames18, FNames19
<1>19. N18 \cap FNames20 = {}
  BY DEF FDef1Names, FNames2, FNames3, FNames4, FNames5, FNames6, FNames7, FNames8, FNames9,
         FNames10, FNames11, FNames12, FNames13, FNames14, FNames15, FNames16, FNames17,
         FNames18, FNames19, FNames20
<1>20. N19 \cap FNames21 = {}
  BY DEF FDef1Names, FNames2, FNames3, FNames4, FNames5, FNames6, FNames7, FNames8, FNames9,
         FNames10, FNames11, FNames12, FNames13, FNames14, FNames15, FNames16, FNames17,
         FNames18, FNames19, FNames20, FNames21
<1>21. N20 \cap FNames22 = {}
  BY DEF FDef1Names, FNames2, FNames3, FNames4, FNames5, FNames6, FNames7, FNames8, FNames9,
         FNames10, FNames11, FNames12, FNames13, FNames14, FNames15, FNames16, FNames17,
         FNames18, FNames19, FNames20, FNames21, FNames22
<1>22. N21 \cap FNames23 = {}
  BY DEF FDef1Names, FNames2, FNames3, FNames4, FNames5, FNames6, FNames7, FNames8, FNames9,
         FNames10, FNames11, FNames12, FNames13, FNames14, FNames15, FNames16, FNames17,
         FNames18, FNames19, FNames20, FNames21, FNames22, FNames23
<1>23. N22 \cap FNames24 = {}
  BY DEF FDef1Names, FNames2, FNames3, FNames4, FNames5, FNames6, FNames7, FNames8, FNames9,
         FNames10, FNames11, FNames12, FNames13, FNames14, FNames15, FNames16, FNames17,
         FNames18, FNames19, FNames20, FNames21, FNames22, FNames23, FNames24
<1>24. N23 \cap FNames25 = {}
  BY DEF FDef1Names, FNames2, FNames3, FNames4, FNames5, FNames6, FNames7, FNames8, FNames9,
         FNames10, FNames11, FNames12, FNames13, FNames14, FNames15, FNames16, FNames17,
         FNames18, FNames19, FNames20, FNames21, FNames22, FNames23, FNames24, FNames25
<1>25. N24 \cap FNames26 = {}
  BY DEF FDef1Names, FNames2, FNames3, FNames4, FNames5, FNames6, FNames7, FNames8, FNames9,
         FNames10, FNames11, FNames12, FNames13, FNames14, FNames15, FNames16, FNames17,
         FNames18, FNames19, FNames20, FNames21, FNames22, FNames23, FNames24, FNames25,
         FNames26
<1>26. N25 \cap FNames27 = {}
  BY DEF FDef1Names, FNames2, FNames3, FNames4, FNames5, FNames6, FNames7, FNames8, FNames9,
         FNames10, FNames11, FNames12, FNames13, FNames14, FNames15, FNames16, FNames17,
         FNames18, FNames19, FNames20, FNames21, FNames22, FNames23, FNames24, FNames25,
         FNames26, FNames27
<1>27. N26 \cap FNames28 = {}
  BY DEF FDef1Names, FNames2, FNames3, FNames4, FNames5, FNames6, FNames7, FNames8, FNames9,
         FNames10, FNames11, FNames12, FNames13, FNames14, FNames15, FNames16, FNames17,
         FNames18, FNames19, FNames20, FNames21, FNames22, FNames23, FNames24, FNames25,
         FNames26, FNames27, FNames28
<1>28. N27 \cap FNames29 = {}
  BY DEF FDef1Names, FNames2, FNames3, FNames4, FNames5, FNames6, FNames7, FNames8, FNames9,
         FNames10, FNames11, FNames12, FNames13, FNames14, FNames15, FNames16, FNames17,
         FNames18, FNames19, FNames20, FNames21, FNames22, FNames23, FNames24, FNames25,
         FNames26, FNames27, FNames28, FNames29
<1>29. N28 \cap FNames30 = {}
  BY DEF FDef1Names, FNames2, FNames3, FNames4, FNames5, FNames6, FNames7, FNames8, FNames9,
         FNames10, FNames11, FNames12, FNames13, FNames14, FNames15, FNames16, FNames17,
         FNames18, FNames19, FNames20, FNames21, FNames22, FNames23, FNames24, FNames25,
         FNames26, FNames27, FNames28, FNames29, FNames30
<1>30. N29 \cap FNames31 = {}
  BY DEF FDef1Names, FNames2, FNames3, FNames4, FNames5, FNames6, FNames7, FNames8, FNames9,
         FNames10, FNames11, FNames12, FNames13, FNames14, FNames15, FNames16, FNames17,
         FNames18, FNames19, FNames20, FNames21, FNames22, FNames23, FNames24, FNames25,
         FNames26, FNames27, FNames28, FNames29, FNames30, FNames31
<1>31. N30 \cap FNames32 = {}
  BY DEF FDef1Names, FNames2, FNames3, FNames4, FNames5, FNames6, FNames7, FNames8, FNames9,
         FNames10, FNames11, FNames12, FNames13, FNames14, FNames15, FNames16, FNames17,
         FNames18, FNames19, FNames20, FNames21, FNames22, FNames23, FNames24, FNames25,
         FNames26, FNames27, FNames28, FNames29, FNames30, FNames31, FNames32
<1>32. N31 \cap FNames33 = {}
  BY DEF FDef1Names, FNames2, FNames3, FNames4, FNames5, FNames6, FNames7, FNames8, FNames9,
         FNames10, FNames11, FNames12, FNames13, FNames14, FNames15, FNames16, FNames17,
         FNames18, FNames19, FNames20, FNames21, FNames22, FNames23, FNames24, FNames25,
         FNames26, FNames27, FNames28, FNames29, FNames30, FNames31, FNames32, FNames33
<1>33. N32 \cap FNames34 = {}
  BY DEF FDef1Names, FNames2, FNames3, FNames4, FNames5, FNames6, FNames7, FNames8, FNames9,
         FNames10, FNames11, FNames12, FNames13, FNames14, FNames15, FNames16, FNames17,
         FNames18, FNames19, FNames20, FNames21, FNames22, FNames23, FNames24, FNames25,
         FNames26, FNames27, FNames28, FNames29, FNames30, FNames31, FNames32, FNames33,
         FNames34
<1>34. N33 \cap FNames35 = {}
  BY DEF FDef1Names, FNames2, FNames3, FNames4, FNames5, FNames6, FNames7, FNames8, FNames9,
         FNames10, FNames11, FNames12, FNames13, FNames14, FNames15, FNames16, FNames17,
         FNames18, FNames19, FNames20, FNames21, FNames22, FNames23, FNames24, FNames25,
         FNames26, FNames27, FNames28, FNames29, FNames30, FNames31, FNames32, FNames33,
         FNames34, FNames35
<1>35. N34 \cap FNames36 = {}
  BY DEF FDef1Names, FNames2, FNames3, FNames4, FNames5, FNames6, FNames7, FNames8, FNames9,
         FNames10, FNames11, FNames12, FNames13, FNames14, FNames15, FNames16, FNames17,
         FNames18, FNames19, FNames20, FNames21, FNames22, FNames23, FNames24, FNames25,
         FNames26, FNames27, FNames28, FNames29, FNames30, FNames31, FNames32, FNames33,
         FNames34, FNames35, FNames36
<1>36. N35 \cap FNames37 = {}
  BY DEF FDef1Names, FNames2, FNames3, FNames4, FNames5, FNames6, FNames7, FNames8, FNames9,
         FNames10, FNames11, FNames12, FNames13, FNames14, FNames15, FNames16, FNames17,
         FNames18, FNames19, FNames20, FNames21, FNames22, FNames23, FNames24, FNames25,
         FNames26, FNames27, FNames28, FNames29, FNames30, FNames31, FNames32, FNames33,
         FNames34, FNames35, FNames36, FNames37
<1>37. N36 \cap FNames38 = {}
  BY DEF FDef1Names, FNames2, FNames3, FNames4, FNames5, FNames6, FNames7, FNames8, FNames9,
         FNames10, FNames11, FNames12, FNames13, FNames14, FNames15, FNames16, FNames17,
         FNames18, FNames19, FNames20, FNames21, FNames22, FNames23, FNames24, FNames25,
         FNames26, FNames27, FNames28, FNames29, FNames30, FNames31, FNames32, FNames33,
         FNames34, FNames35, FNames36, FNames37, FNames38
<1>38. N37 \cap FNames39 = {}
  BY DEF FDef1Names, FNames2, FNames3, FNames4, FNames5, FNames6, FNames7, FNames8, FNames9,
         FNames10, FNames11, FNames12, FNames13, FNames14, FNames15, FNames16, FNames17,
         FNames18, FNames19, FNames20, FNames21, FNames22, FNames23, FNames24, FNames25,
         FNames26, FNames27, FNames28, FNames29, FNames30, FNames31, FNames32, FNames33,
         FNames34, FNames35, FNames36, FNames37, FNames38, FNames39
<1>39. N38 \cap FNames40 = {}
  BY DEF FDef1Names, FNames2, FNames3, FNames4, FNames5, FNames6, FNames7, FNames8, FNames9,
         FNames10, FNames11, FNames12, FNames13, FNames14, FNames15, FNames16, FNames17,
         FNames18, FNames19, FNames20, FNames21, FNames22, FNames23, FNames24, FNames25,
         FNames26, FNames27, FNames28, FNames29, FNames30, FNames31, FNames32, FNames33,
         FNames34, FNames35, FNames36, FNames37, FNames38, FNames39, FNames40
<1>40. N39 \cap FNames41 = {}
  BY DEF FDef1Names, FNames2, FNames3, FNames4, FNames5, FNames6, FNames7, FNames8, FNames9,
         FNames10, FNames11, FNames12, FNames13, FNames14, FNames15, FNames16, FNames17,
         FNames18, FNames19, FNames20, FNames21, FNames22, FNames23, FNames24, FNames25,
         FNames26, FNames27, FNames28, FNames29, FNames30, FNames31, FNames32, FNames33,
         FNames34, FNames35, FNames36, FNames37, FNames38, FNames39, FNames40, FNames41
<1>41. N40 \cap FNames42 = {}
  BY DEF FDef1Names, FNames2, FNames3, FNames4, FNames5, FNames6, FNames7, FNames8, FNames9,
         FNames10, FNames11, FNames12, FNames13, FNames14, FNames15, FNames16, FNames17,
         FNames18, FNames19, FNames20, FNames21, FNames22, FNames23, FNames24, FNames25,
         FNames26, FNames27, FNames28, FNames29, FNames30, FNames31, FNames32, FNames33,
         FNames34, FNames35, FNames36, FNames37, FNames38, FNames39, FNames40, FNames41,
         FNames42
<1>42. N41 \cap FNames43 = {}
  BY DEF FDef1Names, FNames2, FNames3, FNames4, FNames5, FNames6, FNames7, FNames8, FNames9,
         FNames10, FNames11, FNames12, FNames13, FNames14, FNames15, FNames16, FNames17,
         FNames18, FNames19, FNames20, FNames21, FNames22, FNames23, FNames24, FNames25,
         FNames26, FNames27, FNames28, FNames29, FNames30, FNames31, FNames32, FNames33,
         FNames34, FNames35, FNames36, FNames37, FNames38, FNames39, FNames40, FNames41,
         FNames42, FNames43
<1> HIDE DEF N0, N1, N2, N3, N4, N5, N6, N7, N8, N9, N10, N11, N12, N13, N14, N15, N16, N17,
             N18, N19, N20, N21, N22, N23, N24, N25, N26, N27, N28, N29, N30, N31, N32, N33,
             N34, N35, N36, N37, N38, N39, N40, N41, N42
<1> DEFINE s0 == FDef1
           s1 == s0 \o Only("h0", hist, FDef2)
           s2 == s1 \o Only("h0", hist, FDef3)
           s3 == s2 \o Only("h0", hist, FDef4)
           s4 == s3 \o FDef5
           s5 == s4 \o Only("h0", hist, FDef6)
           s6 == s5 \o FDef7
           s7 == s6 \o Only("h0", hist, FDef8)
           s8 == s7 \o Only("h0", hist, FDef9)
           s9 == s8 \o FDef10
           s10 == s9 \o Only("h0", hist, FDef11)
           s11 == s10 \o Only("h0", hist, FDef12)
           s12 == s11 \o Only("h0", hist, FDef13)
           s13 == s12 \o FDef14
           s14 == s13 \o Only("h0", hist, FDef15)
           s15 == s14 \o Only("h0", hist, FDef16)
           s16 == s15 \o FDef17
           s17 == s16 \o Only("h0", hist, FDef18)
           s18 == s17 \o Only("h1", hist, FDef19)
           s19 == s18 \o FDef20
           s20 == s19 \o Only("h0", hist, FDef21)
           s21 == s20 \o Only("h0", hist, FDef22)
           s22 == s21 \o Only("h0", hist, FDef23)
           s23 == s22 \o Only("h0", hist, FDef24)
           s24 == s23 \o FDef25
           s25 == s24 \o Only("h0", hist, FDef26)
           s26 == s25 \o Only("h1", hist, FDef27)
           s27 == s26 \o FDef28
           s28 == s27 \o Only("h0", hist, FDef29)
           s29 == s28 \o FDef30
           s30 == s29 \o Only("h0", hist, FDef31)
           s31 == s30 \o FDef32
           s32 == s31 \o Only("h0", hist, FDef33)
           s33 == s32 \o Only("h0", hist, FDef34)
           s34 == s33 \o Only("h0", hist, FDef35)
           s35 == s34 \o Only("h0", hist, FDef36)
           s36 == s35 \o Only("h0", hist, FDef37)
           s37 == s36 \o Only("h0", hist, FDef38)
           s38 == s37 \o Only("h0", hist, FDef39)
           s39 == s38 \o Only("h0", hist, FDef40)
           s40 == s39 \o Only("h0", hist, FDef41)
           s41 == s40 \o Only("h0", hist, FDef42)
           s42 == s41 \o Only("h1", hist, FDef43)
           u0 == FInq1
           u1 == u0 \o Only("h0", hist, FInq2)
           u2 == u1 \o Only("h0", hist, FInq3)
           u3 == u2 \o Only("h0", hist, FInq4)
           u4 == u3 \o FInq5
           u5 == u4 \o Only("h0", hist, FInq6)
           u6 == u5 \o FInq7
           u7 == u6 \o Only("h0", hist, FInq8)
           u8 == u7 \o Only("h0", hist, FInq9)
           u9 == u8 \o FInq10
           u10 == u9 \o Only("h0", hist, FInq11)
           u11 == u10 \o Only("h0", hist, FInq12)
           u12 == u11 \o Only("h0", hist, FInq13)
           u13 == u12 \o FInq14
           u14 == u13 \o Only("h0", hist, FInq15)
           u15 == u14 \o Only("h0", hist, FInq16)
           u16 == u15 \o FInq17
           u17 == u16 \o Only("h0", hist, FInq18)
           u18 == u17 \o Only("h1", hist, FInq19)
           u19 == u18 \o FInq20
           u20 == u19 \o Only("h0", hist, FInq21)
           u21 == u20 \o Only("h0", hist, FInq22)
           u22 == u21 \o Only("h0", hist, FInq23)
           u23 == u22 \o Only("h0", hist, FInq24)
           u24 == u23 \o FInq25
           u25 == u24 \o Only("h0", hist, FInq26)
           u26 == u25 \o Only("h1", hist, FInq27)
           u27 == u26 \o FInq28
           u28 == u27 \o Only("h0", hist, FInq29)
           u29 == u28 \o FInq30
           u30 == u29 \o Only("h0", hist, FInq31)
           u31 == u30 \o FInq32
           u32 == u31 \o Only("h0", hist, FInq33)
           u33 == u32 \o Only("h0", hist, FInq34)
           u34 == u33 \o Only("h0", hist, FInq35)
           u35 == u34 \o Only("h0", hist, FInq36)
           u36 == u35 \o Only("h0", hist, FInq37)
           u37 == u36 \o Only("h0", hist, FInq38)
           u38 == u37 \o Only("h0", hist, FInq39)
           u39 == u38 \o Only("h0", hist, FInq40)
           u40 == u39 \o Only("h0", hist, FInq41)
           u41 == u40 \o Only("h0", hist, FInq42)
           u42 == u41 \o Only("h1", hist, FInq43)
<1>43. FDefined(hist) = s42 /\ FInquired(hist) = u42
  BY DEF FDefined, FInquired
<1> HIDE DEF s0, s1, s2, s3, s4, s5, s6, s7, s8, s9, s10, s11, s12, s13, s14, s15, s16, s17,
             s18, s19, s20, s21, s22, s23, s24, s25, s26, s27, s28, s29, s30, s31, s32, s33,
             s34, s35, s36, s37, s38, s39, s40, s41, s42, u0, u1, u2, u3, u4, u5, u6, u7,
             u8, u9, u10, u11, u12, u13, u14, u15, u16, u17, u18, u19, u20, u21, u22, u23,
             u24, u25, u26, u27, u28, u29, u30, u31, u32, u33, u34, u35, u36, u37, u38, u39,
             u40, u41, u42
<1>44. Pair(s0, u0, N0, FShapes, 1, 7)
  BY FFront DEF s0, u0, N0
<1>45. Pair(s1, u1, N1, FShapes, 1, 7)
  BY <1>1, <1>44, FList2, OnlyAlike, PairExtends DEF s1, u1, N1
<1>46. Pair(s2, u2, N2, FShapes, 1, 7)
  BY <1>2, <1>45, FList3, OnlyAlike, PairExtends DEF s2, u2, N2
<1>47. Pair(s3, u3, N3, FShapes, 1, 7)
  BY <1>3, <1>46, FList4, OnlyAlike, PairExtends DEF s3, u3, N3
<1>48. Pair(s4, u4, N4, FShapes, 1, 7)
  BY <1>4, <1>47, FList5, PairExtends DEF s4, u4, N4
<1>49. Pair(s5, u5, N5, FShapes, 1, 7)
  BY <1>5, <1>48, FList6, OnlyAlike, PairExtends DEF s5, u5, N5
<1>50. Pair(s6, u6, N6, FShapes, 1, 7)
  BY <1>6, <1>49, FList7, PairExtends DEF s6, u6, N6
<1>51. Pair(s7, u7, N7, FShapes, 1, 7)
  BY <1>7, <1>50, FList8, OnlyAlike, PairExtends DEF s7, u7, N7
<1>52. Pair(s8, u8, N8, FShapes, 1, 7)
  BY <1>8, <1>51, FList9, OnlyAlike, PairExtends DEF s8, u8, N8
<1>53. Pair(s9, u9, N9, FShapes, 1, 7)
  BY <1>9, <1>52, FList10, PairExtends DEF s9, u9, N9
<1>54. Pair(s10, u10, N10, FShapes, 1, 7)
  BY <1>10, <1>53, FList11, OnlyAlike, PairExtends DEF s10, u10, N10
<1>55. Pair(s11, u11, N11, FShapes, 1, 7)
  BY <1>11, <1>54, FList12, OnlyAlike, PairExtends DEF s11, u11, N11
<1>56. Pair(s12, u12, N12, FShapes, 1, 7)
  BY <1>12, <1>55, FList13, OnlyAlike, PairExtends DEF s12, u12, N12
<1>57. Pair(s13, u13, N13, FShapes, 1, 7)
  BY <1>13, <1>56, FList14, PairExtends DEF s13, u13, N13
<1>58. Pair(s14, u14, N14, FShapes, 1, 7)
  BY <1>14, <1>57, FList15, OnlyAlike, PairExtends DEF s14, u14, N14
<1>59. Pair(s15, u15, N15, FShapes, 1, 7)
  BY <1>15, <1>58, FList16, OnlyAlike, PairExtends DEF s15, u15, N15
<1>60. Pair(s16, u16, N16, FShapes, 1, 7)
  BY <1>16, <1>59, FList17, PairExtends DEF s16, u16, N16
<1>61. Pair(s17, u17, N17, FShapes, 1, 7)
  BY <1>17, <1>60, FList18, OnlyAlike, PairExtends DEF s17, u17, N17
<1>62. Pair(s18, u18, N18, FShapes, 1, 7)
  BY <1>18, <1>61, FList19, OnlyAlike, PairExtends DEF s18, u18, N18
<1>63. Pair(s19, u19, N19, FShapes, 1, 7)
  BY <1>19, <1>62, FList20, PairExtends DEF s19, u19, N19
<1>64. Pair(s20, u20, N20, FShapes, 1, 7)
  BY <1>20, <1>63, FList21, OnlyAlike, PairExtends DEF s20, u20, N20
<1>65. Pair(s21, u21, N21, FShapes, 1, 7)
  BY <1>21, <1>64, FList22, OnlyAlike, PairExtends DEF s21, u21, N21
<1>66. Pair(s22, u22, N22, FShapes, 1, 7)
  BY <1>22, <1>65, FList23, OnlyAlike, PairExtends DEF s22, u22, N22
<1>67. Pair(s23, u23, N23, FShapes, 1, 7)
  BY <1>23, <1>66, FList24, OnlyAlike, PairExtends DEF s23, u23, N23
<1>68. Pair(s24, u24, N24, FShapes, 1, 7)
  BY <1>24, <1>67, FList25, PairExtends DEF s24, u24, N24
<1>69. Pair(s25, u25, N25, FShapes, 1, 7)
  BY <1>25, <1>68, FList26, OnlyAlike, PairExtends DEF s25, u25, N25
<1>70. Pair(s26, u26, N26, FShapes, 1, 7)
  BY <1>26, <1>69, FList27, OnlyAlike, PairExtends DEF s26, u26, N26
<1>71. Pair(s27, u27, N27, FShapes, 1, 7)
  BY <1>27, <1>70, FList28, PairExtends DEF s27, u27, N27
<1>72. Pair(s28, u28, N28, FShapes, 1, 7)
  BY <1>28, <1>71, FList29, OnlyAlike, PairExtends DEF s28, u28, N28
<1>73. Pair(s29, u29, N29, FShapes, 1, 7)
  BY <1>29, <1>72, FList30, PairExtends DEF s29, u29, N29
<1>74. Pair(s30, u30, N30, FShapes, 1, 7)
  BY <1>30, <1>73, FList31, OnlyAlike, PairExtends DEF s30, u30, N30
<1>75. Pair(s31, u31, N31, FShapes, 1, 7)
  BY <1>31, <1>74, FList32, PairExtends DEF s31, u31, N31
<1>76. Pair(s32, u32, N32, FShapes, 1, 7)
  BY <1>32, <1>75, FList33, OnlyAlike, PairExtends DEF s32, u32, N32
<1>77. Pair(s33, u33, N33, FShapes, 1, 7)
  BY <1>33, <1>76, FList34, OnlyAlike, PairExtends DEF s33, u33, N33
<1>78. Pair(s34, u34, N34, FShapes, 1, 7)
  BY <1>34, <1>77, FList35, OnlyAlike, PairExtends DEF s34, u34, N34
<1>79. Pair(s35, u35, N35, FShapes, 1, 7)
  BY <1>35, <1>78, FList36, OnlyAlike, PairExtends DEF s35, u35, N35
<1>80. Pair(s36, u36, N36, FShapes, 1, 7)
  BY <1>36, <1>79, FList37, OnlyAlike, PairExtends DEF s36, u36, N36
<1>81. Pair(s37, u37, N37, FShapes, 1, 7)
  BY <1>37, <1>80, FList38, OnlyAlike, PairExtends DEF s37, u37, N37
<1>82. Pair(s38, u38, N38, FShapes, 1, 7)
  BY <1>38, <1>81, FList39, OnlyAlike, PairExtends DEF s38, u38, N38
<1>83. Pair(s39, u39, N39, FShapes, 1, 7)
  BY <1>39, <1>82, FList40, OnlyAlike, PairExtends DEF s39, u39, N39
<1>84. Pair(s40, u40, N40, FShapes, 1, 7)
  BY <1>40, <1>83, FList41, OnlyAlike, PairExtends DEF s40, u40, N40
<1>85. Pair(s41, u41, N41, FShapes, 1, 7)
  BY <1>41, <1>84, FList42, OnlyAlike, PairExtends DEF s41, u41, N41
<1>86. Pair(s42, u42, N42, FShapes, 1, 7)
  BY <1>42, <1>85, FList43, OnlyAlike, PairExtends DEF s42, u42, N42
<1> QED
  BY <1>43, <1>86

-----------------------------------------------------------------------------
(* The lists of the ocean case, all in different orders.                   *)

GDef1Names ==
  {"maxLevelEdgeTop", "edgeMask", "cellMask", "vertexMask", "maxLevelCell",
   "maxLevelEdgeBot", "bottomDepth", "vertCoordMovementWeights", "refZMid",
   "refLayerThickness", "refBottomDepth", "xtime", "areaCellGlobal", "areaEdgeGlobal",
   "areaTriangleGlobal", "volumeCellGlobal", "volumeEdgeGlobal", "CFLNumberGlobal",
   "salinitySurfaceRestoringTendency", "vertTransportVelocityTop", "vertGMBolusVelocityTop",
   "vertAleTransportTop", "tendSSH", "layerThickness"}
GDef1Shown ==
  {<<"maxLevelEdgeTop", 1, "int", UL>>, <<"edgeMask", 3, "int", UL>>,
   <<"cellMask", 2, "int", UL>>, <<"vertexMask", 4, "int", UL>>,
   <<"maxLevelCell", 0, "int", UL>>, <<"maxLevelEdgeBot", 1, "int", UL>>,
   <<"bottomDepth", 0, "double", UL>>, <<"vertCoordMovementWeights", -1, "double", UL>>,
   <<"refZMid", -1, "double", UL>>, <<"refLayerThickness", -1, "double", UL>>,
   <<"refBottomDepth", -1, "double", UL>>, <<"xtime", -1, "char", UL>>,
   <<"areaCellGlobal", -1, "double", UL>>, <<"areaEdgeGlobal", -1, "double", UL>>,
   <<"areaTriangleGlobal", -1, "double", UL>>, <<"volumeCellGlobal", -1, "double", UL>>,
   <<"volumeEdgeGlobal", -1, "double", UL>>, <<"CFLNumberGlobal", -1, "double", UL>>,
   <<"salinitySurfaceRestoringTendency", 0, "double", UL>>,
   <<"vertTransportVelocityTop", 5, "double", UL>>,
   <<"vertGMBolusVelocityTop", 5, "double", UL>>,
   <<"vertAleTransportTop", 5, "double", UL>>, <<"tendSSH", 0, "double", UL>>,
   <<"layerThickness", 2, "double", UL>>}

\* The parts of header_def_G_case.cpp.
LEMMA GDef1Is == Says(GDef1, GDef1Names, GDef1Shown, GShapes, 2, 7)
<1> DEFINE n1 == GDef1!1!1!1!1!1!1!1!1!1!1!1!1!1!1
           n2 == GDef1!1!1!1!1!1!1!1!1!1!1!1!1!2!1
           n3 == GDef1!1!1!1!1!1!1!1!1!1!1!1!2!1
           n4 == GDef1!1!1!1!1!1!1!1!1!1!1!2!1
           n5 == GDef1!1!1!1!1!1!1!1!1!1!2!1
           n6 == GDef1!1!1!1!1!1!1!1!1!2!1
           n7 == GDef1!1!1!1!1!1!1!1!2!1
           n8 == GDef1!1!1!1!1!1!1!2!1
           n9 == GDef1!1!1!1!1!1!2!1
           n10 == GDef1!1!1!1!1!2!1
           n11 == GDef1!1!1!1!2!1
           n12 == GDef1!1!1!2!1
           n13 == GDef1!1!2!1
           n14 == GDef1!2!1
           r1 == GDef1!1!1!1!1!1!1!1!1!1!1!1!1!1
           r2 == GDef1!1!1!1!1!1!1!1!1!1!1!1!1!2
           r3 == GDef1!1!1!1!1!1!1!1!1!1!1!1!2
           r4 == GDef1!1!1!1!1!1!1!1!1!1!1!2
           r5 == GDef1!1!1!1!1!1!1!1!1!1!2
           r6 == GDef1!1!1!1!1!1!1!1!1!2
           r7 == GDef1!1!1!1!1!1!1!1!2
           r8 == GDef1!1!1!1!1!1!1!2
           r9 == GDef1!1!1!1!1!1!2
           r10 == GDef1!1!1!1!1!2
           r11 == GDef1!1!1!1!2
           r12 == GDef1!1!1!2
           r13 == GDef1!1!2
           r14 == GDef1!2
           e1 == Each(n1, 1, "int", UL)
           e2 == Each(n2, 3, "int", UL)
           e3 == Each(n3, 2, "int", UL)
           e4 == Each(n4, 4, "int", UL)
           e5 == Each(n5, 0, "int", UL)
           e6 == Each(n6, 1, "int", UL)
           e7 == Each(n7, 0, "double", UL)
           e8 == Each(n8, -1, "double", UL)
           e9 == Each(n9, -1, "char", UL)
           e10 == Each(n10, -1, "double", UL)
           e11 == Each(n11, 0, "double", UL)
           e12 == Each(n12, 5, "double", UL)
           e13 == Each(n13, 0, "double", UL)
           e14 == Each(n14, 2, "double", UL)
           x1 == {<<"maxLevelEdgeTop", 1, "int", UL>>}
           x2 == {<<"edgeMask", 3, "int", UL>>}
           x3 == {<<"cellMask", 2, "int", UL>>}
           x4 == {<<"vertexMask", 4, "int", UL>>}
           x5 == {<<"maxLevelCell", 0, "int", UL>>}
           x6 == {<<"maxLevelEdgeBot", 1, "int", UL>>}
           x7 == {<<"bottomDepth", 0, "double", UL>>}
           x8 == {<<"vertCoordMovementWeights", -1, "double", UL>>, <<"refZMid", -1, "double", UL>>,
       <<"refLayerThickness", -1, "double", UL>>, <<"refBottomDepth", -1, "double", UL>>}
           x9 == {<<"xtime", -1, "char", UL>>}
           x10 == {<<"areaCellGlobal", -1, "double", UL>>, <<"areaEdgeGlobal", -1, "double", UL>>,
       <<"areaTriangleGlobal", -1, "double", UL>>, <<"volumeCellGlobal", -1, "double", UL>>,
       <<"volumeEdgeGlobal", -1, "double", UL>>, <<"CFLNumberGlobal", -1, "double", UL>>}
           x11 == {<<"salinitySurfaceRestoringTendency", 0, "double", UL>>}
           x12 == {<<"vertTransportVelocityTop", 5, "double", UL>>,
       <<"vertGMBolusVelocityTop", 5, "double", UL>>,
       <<"vertAleTransportTop", 5, "double", UL>>}
           x13 == {<<"tendSSH", 0, "double", UL>>}
           x14 == {<<"layerThickness", 2, "double", UL>>}
           N1 == Ran(n1)
           N2 == N1 \cup Ran(n2)
           N3 == N2 \cup Ran(n3)
           N4 == N3 \cup Ran(n4)
           N5 == N4 \cup Ran(n5)
           N6 == N5 \cup Ran(n6)
           N7 == N6 \cup Ran(n7)
           N8 == N7 \cup Ran(n8)
           N9 == N8 \cup Ran(n9)
           N10 == N9 \cup Ran(n10)
           N11 == N10 \cup Ran(n11)
           N12 == N11 \cup Ran(n12)
           N13 == N12 \cup Ran(n13)
           N14 == N13 \cup Ran(n14)
<1>1. /\ IsNames(n10)
      /\ IsNames(n1)
      /\ IsNames(n2)
      /\ IsNames(n3)
      /\ IsNames(n4)
      /\ IsNames(n5)
      /\ IsNames(n6)
      /\ IsNames(n7)
      /\ IsNames(n8)
      /\ IsNames(n9)
      /\ IsNames(n11)
      /\ IsNames(n12)
      /\ IsNames(n13)
      /\ IsNames(n14)
  <2>1. IsNames(n10)
    BY DEF IsNames, IsList
  <2>2. /\ IsNames(n1)
        /\ IsNames(n2)
        /\ IsNames(n3)
        /\ IsNames(n4)
        /\ IsNames(n5)
        /\ IsNames(n6)
    BY DEF IsNames, IsList
  <2>3. /\ IsNames(n7)
        /\ IsNames(n8)
        /\ IsNames(n9)
        /\ IsNames(n11)
        /\ IsNames(n12)
        /\ IsNames(n13)
    BY DEF IsNames, IsList
  <2>4. IsNames(n14)
    BY DEF IsNames, IsList
  <2> QED
    BY <2>1, <2>2, <2>3, <2>4
<1>2. /\ N1 \cap Ran(n2) = {}
      /\ N2 \cap Ran(n3) = {}
      /\ N3 \cap Ran(n4) = {}
      /\ N4 \cap Ran(n5) = {}
      /\ N5 \cap Ran(n6) = {}
      /\ N6 \cap Ran(n7) = {}
      /\ N7 \cap Ran(n8) = {}
      /\ N8 \cap Ran(n9) = {}
      /\ N9 \cap Ran(n10) = {}
      /\ N10 \cap Ran(n11) = {}
      /\ N11 \cap Ran(n12) = {}
      /\ N12 \cap Ran(n13) = {}
      /\ N13 \cap Ran(n14) = {}
  BY DEF Ran
<1>3. N14 = GDef1Names
  BY DEF Ran, GDef1Names
<1>4. /\ << <<"nEdges">>, "int", 1 >> \in GShapes /\ PlaceOf(<<"nEdges">>, "int") = 2
      /\ << <<"nEdges", "nVertLevels">>, "int", 3 >> \in GShapes /\ PlaceOf(<<"nEdges", "nVertLevels">>, "int") = 2
      /\ << <<"nCells", "nVertLevels">>, "int", 2 >> \in GShapes /\ PlaceOf(<<"nCells", "nVertLevels">>, "int") = 2
      /\ << <<"nVertices", "nVertLevels">>, "int", 4 >> \in GShapes /\ PlaceOf(<<"nVertices", "nVertLevels">>, "int") = 2
      /\ << <<"nCells">>, "int", 0 >> \in GShapes /\ PlaceOf(<<"nCells">>, "int") = 2
      /\ << <<"nCells">>, "double", 0 >> \in GShapes /\ PlaceOf(<<"nCells">>, "double") = 3
      /\ << <<"nVertLevels">>, "double", -1 >> \in GShapes /\ PlaceOf(<<"nVertLevels">>, "double") = 3
      /\ << <<"time", "StrLen">>, "char", -1 >> \in GShapes /\ PlaceOf(<<"time", "StrLen">>, "char") = 5
      /\ << <<"time">>, "double", -1 >> \in GShapes /\ PlaceOf(<<"time">>, "double") = 7
      /\ << <<"time", "nCells">>, "double", 0 >> \in GShapes /\ PlaceOf(<<"time", "nCells">>, "double") = 7
      /\ << <<"time", "nCells", "nVertLevelsP1">>, "double", 5 >> \in GShapes /\ PlaceOf(<<"time", "nCells", "nVertLevelsP1">>, "double") = 7
      /\ << <<"time", "nCells", "nVertLevels">>, "double", 2 >> \in GShapes /\ PlaceOf(<<"time", "nCells", "nVertLevels">>, "double") = 7
  <2>1. /\ << <<"nEdges">>, "int", 1 >> \in GShapes /\ PlaceOf(<<"nEdges">>, "int") = 2
        /\ << <<"nEdges", "nVertLevels">>, "int", 3 >> \in GShapes /\ PlaceOf(<<"nEdges", "nVertLevels">>, "int") = 2
        /\ << <<"nCells", "nVertLevels">>, "int", 2 >> \in GShapes /\ PlaceOf(<<"nCells", "nVertLevels">>, "int") = 2
    BY PlaceIs DEF GShapes
  <2>2. /\ << <<"nVertices", "nVertLevels">>, "int", 4 >> \in GShapes /\ PlaceOf(<<"nVertices", "nVertLevels">>, "int") = 2
        /\ << <<"nCells">>, "int", 0 >> \in GShapes /\ PlaceOf(<<"nCells">>, "int") = 2
        /\ << <<"nCells">>, "double", 0 >> \in GShapes /\ PlaceOf(<<"nCells">>, "double") = 3
    BY PlaceIs DEF GShapes
  <2>3. /\ << <<"nVertLevels">>, "double", -1 >> \in GShapes /\ PlaceOf(<<"nVertLevels">>, "double") = 3
        /\ << <<"time", "StrLen">>, "char", -1 >> \in GShapes /\ PlaceOf(<<"time", "StrLen">>, "char") = 5
        /\ << <<"time">>, "double", -1 >> \in GShapes /\ PlaceOf(<<"time">>, "double") = 7
    BY PlaceIs DEF GShapes
  <2>4. /\ << <<"time", "nCells">>, "double", 0 >> \in GShapes /\ PlaceOf(<<"time", "nCells">>, "double") = 7
        /\ << <<"time", "nCells", "nVertLevelsP1">>, "double", 5 >> \in GShapes /\ PlaceOf(<<"time", "nCells", "nVertLevelsP1">>, "double") = 7
        /\ << <<"time", "nCells", "nVertLevels">>, "double", 2 >> \in GShapes /\ PlaceOf(<<"time", "nCells", "nVertLevels">>, "double") = 7
    BY PlaceIs DEF GShapes
  <2> QED
    BY <2>1, <2>2, <2>3, <2>4
<1>5. /\ Says(r1, Ran(n1), e1, GShapes, 2, 2)
      /\ Says(r2, Ran(n2), e2, GShapes, 2, 2)
      /\ Says(r3, Ran(n3), e3, GShapes, 2, 2)
      /\ Says(r4, Ran(n4), e4, GShapes, 2, 2)
      /\ Says(r5, Ran(n5), e5, GShapes, 2, 2)
      /\ Says(r6, Ran(n6), e6, GShapes, 2, 2)
      /\ Says(r7, Ran(n7), e7, GShapes, 3, 3)
      /\ Says(r8, Ran(n8), e8, GShapes, 3, 3)
      /\ Says(r9, Ran(n9), e9, GShapes, 5, 5)
      /\ Says(r10, Ran(n10), e10, GShapes, 7, 7)
      /\ Says(r11, Ran(n11), e11, GShapes, 7, 7)
      /\ Says(r12, Ran(n12), e12, GShapes, 7, 7)
      /\ Says(r13, Ran(n13), e13, GShapes, 7, 7)
      /\ Says(r14, Ran(n14), e14, GShapes, 7, 7)
  <2>1. Says(r1, Ran(n1), e1, GShapes, 2, 2)
    <3>1. << <<"nEdges">>, "int", 1 >> \in GShapes /\ PlaceOf(<<"nEdges">>, "int") = 2
      BY <1>4
    <3>2. IsNames(n1)
      BY <1>1
    <3> QED
      BY <3>1, <3>2, RunSays
  <2>2. Says(r2, Ran(n2), e2, GShapes, 2, 2)
    <3>1. << <<"nEdges", "nVertLevels">>, "int", 3 >> \in GShapes /\ PlaceOf(<<"nEdges", "nVertLevels">>, "int") = 2
      BY <1>4
    <3>2. IsNames(n2)
      BY <1>1
    <3> QED
      BY <3>1, <3>2, RunSays
  <2>3. Says(r3, Ran(n3), e3, GShapes, 2, 2)
    <3>1. << <<"nCells", "nVertLevels">>, "int", 2 >> \in GShapes /\ PlaceOf(<<"nCells", "nVertLevels">>, "int") = 2
      BY <1>4
    <3>2. IsNames(n3)
      BY <1>1
    <3> QED
      BY <3>1, <3>2, RunSays
  <2>4. Says(r4, Ran(n4), e4, GShapes, 2, 2)
    <3>1. << <<"nVertices", "nVertLevels">>, "int", 4 >> \in GShapes /\ PlaceOf(<<"nVertices", "nVertLevels">>, "int") = 2
      BY <1>4
    <3>2. IsNames(n4)
      BY <1>1
    <3> QED
      BY <3>1, <3>2, RunSays
  <2>5. Says(r5, Ran(n5), e5, GShapes, 2, 2)
    <3>1. << <<"nCells">>, "int", 0 >> \in GShapes /\ PlaceOf(<<"nCells">>, "int") = 2
      BY <1>4
    <3>2. IsNames(n5)
      BY <1>1
    <3> QED
      BY <3>1, <3>2, RunSays
  <2>6. Says(r6, Ran(n6), e6, GShapes, 2, 2)
    <3>1. << <<"nEdges">>, "int", 1 >> \in GShapes /\ PlaceOf(<<"nEdges">>, "int") = 2
      BY <1>4
    <3>2. IsNames(n6)
      BY <1>1
    <3> QED
      BY <3>1, <3>2, RunSays
  <2>7. Says(r7, Ran(n7), e7, GShapes, 3, 3)
    <3>1. << <<"nCells">>, "double", 0 >> \in GShapes /\ PlaceOf(<<"nCells">>, "double") = 3
      BY <1>4
    <3>2. IsNames(n7)
      BY <1>1
    <3> QED
      BY <3>1, <3>2, RunSays
  <2>8. Says(r8, Ran(n8), e8, GShapes, 3, 3)
    <3>1. << <<"nVertLevels">>, "double", -1 >> \in GShapes /\ PlaceOf(<<"nVertLevels">>, "double") = 3
      BY <1>4
    <3>2. IsNames(n8)
      BY <1>1
    <3> QED
      BY <3>1, <3>2, RunSays
  <2>9. Says(r9, Ran(n9), e9, GShapes, 5, 5)
    <3>1. << <<"time", "StrLen">>, "char", -1 >> \in GShapes /\ PlaceOf(<<"time", "StrLen">>, "char") = 5
      BY <1>4
    <3>2. IsNames(n9)
      BY <1>1
    <3> QED
      BY <3>1, <3>2, RunSays
  <2>10. Says(r10, Ran(n10), e10, GShapes, 7, 7)
    <3>1. << <<"time">>, "double", -1 >> \in GShapes /\ PlaceOf(<<"time">>, "double") = 7
      BY <1>4
    <3>2. IsNames(n10)
      BY <1>1
    <3> QED
      BY <3>1, <3>2, RunSays
  <2>11. Says(r11, Ran(n11), e11, GShapes, 7, 7)
    <3>1. << <<"time", "nCells">>, "double", 0 >> \in GShapes /\ PlaceOf(<<"time", "nCells">>, "double") = 7
      BY <1>4
    <3>2. IsNames(n11)
      BY <1>1
    <3> QED
      BY <3>1, <3>2, RunSays
  <2>12. Says(r12, Ran(n12), e12, GShapes, 7, 7)
    <3>1. << <<"time", "nCells", "nVertLevelsP1">>, "double", 5 >> \in GShapes /\ PlaceOf(<<"time", "nCells", "nVertLevelsP1">>, "double") = 7
      BY <1>4
    <3>2. IsNames(n12)
      BY <1>1
    <3> QED
      BY <3>1, <3>2, RunSays
  <2>13. Says(r13, Ran(n13), e13, GShapes, 7, 7)
    <3>1. << <<"time", "nCells">>, "double", 0 >> \in GShapes /\ PlaceOf(<<"time", "nCells">>, "double") = 7
      BY <1>4
    <3>2. IsNames(n13)
      BY <1>1
    <3> QED
      BY <3>1, <3>2, RunSays
  <2>14. Says(r14, Ran(n14), e14, GShapes, 7, 7)
    <3>1. << <<"time", "nCells", "nVertLevels">>, "double", 2 >> \in GShapes /\ PlaceOf(<<"time", "nCells", "nVertLevels">>, "double") = 7
      BY <1>4
    <3>2. IsNames(n14)
      BY <1>1
    <3> QED
      BY <3>1, <3>2, RunSays
  <2> QED
    BY <2>1, <2>2, <2>3, <2>4, <2>5, <2>6, <2>7, <2>8, <2>9, <2>10, <2>11, <2>12, <2>13,
       <2>14
<1>6. /\ e10 = x10
      /\ e1 = x1
      /\ e2 = x2
      /\ e3 = x3
      /\ e4 = x4
      /\ e5 = x5
      /\ e6 = x6
      /\ e7 = x7
      /\ e8 = x8
      /\ e9 = x9
      /\ e11 = x11
      /\ e12 = x12
      /\ e13 = x13
      /\ e14 = x14
  <2>1. e10 = x10
    BY DEF Each, Ran
  <2>2. /\ e1 = x1
        /\ e2 = x2
        /\ e3 = x3
        /\ e4 = x4
        /\ e5 = x5
        /\ e6 = x6
    BY DEF Each, Ran
  <2>3. /\ e7 = x7
        /\ e8 = x8
        /\ e9 = x9
        /\ e11 = x11
        /\ e12 = x12
        /\ e13 = x13
    BY DEF Each, Ran
  <2>4. e14 = x14
    BY DEF Each, Ran
  <2> QED
    BY <2>1, <2>2, <2>3, <2>4
<1>7. GDef1 = r1 \o r2 \o r3 \o r4 \o r5 \o r6 \o r7 \o r8 \o r9 \o r10 \o r11 \o r12 \o r13 \o
        r14
  BY DEF GDef1
<1> HIDE DEF r1, r2, r3, r4, r5, r6, r7, r8, r9, r10, r11, r12, r13, r14, n1, n2, n3, n4,
             n5, n6, n7, n8, n9, n10, n11, n12, n13, n14, e1, e2, e3, e4, e5, e6, e7, e8,
             e9, e10, e11, e12, e13, e14, x1, x2, x3, x4, x5, x6, x7, x8, x9, x10, x11, x12,
             x13, x14
<1> DEFINE p1 == r1
           p2 == p1 \o r2
           p3 == p2 \o r3
           p4 == p3 \o r4
           p5 == p4 \o r5
           p6 == p5 \o r6
           p7 == p6 \o r7
           p8 == p7 \o r8
           p9 == p8 \o r9
           p10 == p9 \o r10
           p11 == p10 \o r11
           p12 == p11 \o r12
           p13 == p12 \o r13
           p14 == p13 \o r14
           y1 == x1
           y2 == y1 \cup x2
           y3 == y2 \cup x3
           y4 == y3 \cup x4
           y5 == y4 \cup x5
           y6 == y5 \cup x6
           y7 == y6 \cup x7
           y8 == y7 \cup x8
           y9 == y8 \cup x9
           y10 == y9 \cup x10
           y11 == y10 \cup x11
           y12 == y11 \cup x12
           y13 == y12 \cup x13
           y14 == y13 \cup x14
<1> HIDE DEF p1, p2, p3, p4, p5, p6, p7, p8, p9, p10, p11, p12, p13, p14, y1, y2, y3, y4,
             y5, y6, y7, y8, y9, y10, y11, y12, y13, y14, N1, N2, N3, N4, N5, N6, N7, N8,
             N9, N10, N11, N12, N13, N14
<1>8. Says(p1, N1, y1, GShapes, 2, 2)
  BY <1>5, <1>6 DEF p1, y1, N1
<1>9. Says(p2, N2, y2, GShapes, 2, 2)
  BY <1>2, <1>5, <1>6, <1>8, SaysJoins DEF p2, y2, N2
<1>10. Says(p3, N3, y3, GShapes, 2, 2)
  BY <1>2, <1>5, <1>6, <1>9, SaysJoins DEF p3, y3, N3
<1>11. Says(p4, N4, y4, GShapes, 2, 2)
  BY <1>2, <1>5, <1>6, <1>10, SaysJoins DEF p4, y4, N4
<1>12. Says(p5, N5, y5, GShapes, 2, 2)
  BY <1>2, <1>5, <1>6, <1>11, SaysJoins DEF p5, y5, N5
<1>13. Says(p6, N6, y6, GShapes, 2, 2)
  BY <1>2, <1>5, <1>6, <1>12, SaysJoins DEF p6, y6, N6
<1>14. Says(p7, N7, y7, GShapes, 2, 3)
  BY <1>2, <1>5, <1>6, <1>13, SaysJoins DEF p7, y7, N7
<1>15. Says(p8, N8, y8, GShapes, 2, 3)
  BY <1>2, <1>5, <1>6, <1>14, SaysJoins DEF p8, y8, N8
<1>16. Says(p9, N9, y9, GShapes, 2, 5)
  BY <1>2, <1>5, <1>6, <1>15, SaysJoins DEF p9, y9, N9
<1>17. Says(p10, N10, y10, GShapes, 2, 7)
  BY <1>2, <1>5, <1>6, <1>16, SaysJoins DEF p10, y10, N10
<1>18. Says(p11, N11, y11, GShapes, 2, 7)
  BY <1>2, <1>5, <1>6, <1>17, SaysJoins DEF p11, y11, N11
<1>19. Says(p12, N12, y12, GShapes, 2, 7)
  BY <1>2, <1>5, <1>6, <1>18, SaysJoins DEF p12, y12, N12
<1>20. Says(p13, N13, y13, GShapes, 2, 7)
  BY <1>2, <1>5, <1>6, <1>19, SaysJoins DEF p13, y13, N13
<1>21. Says(p14, N14, y14, GShapes, 2, 7)
  BY <1>2, <1>5, <1>6, <1>20, SaysJoins DEF p14, y14, N14
<1>22. y14 = GDef1Shown
  BY DEF x1, x2, x3, x4, x5, x6, x7, x8, x9, x10, x11, x12, x13, x14, y1, y2, y3, y4, y5,
         y6, y7, y8, y9, y10, y11, y12, y13, y14, GDef1Shown
<1>23. GDef1 = p14
  BY <1>7 DEF p1, p2, p3, p4, p5, p6, p7, p8, p9, p10, p11, p12, p13, p14
<1> QED
  BY <1>3, <1>21, <1>22, <1>23

GDef2Names ==
  {"normalVelocity", "ssh", "kineticEnergyCell", "relativeVorticityCell",
   "relativeVorticity", "divergence", "BruntVaisalaFreqTop", "vertVelocityTop",
   "velocityZonal", "velocityMeridional", "displacedDensity", "potentialDensity",
   "pressure", "zMid", "columnIntegratedSpeed", "temperatureHorizontalAdvectionTendency",
   "salinityHorizontalAdvectionTendency", "temperatureVerticalAdvectionTendency",
   "salinityVerticalAdvectionTendency"}
GDef2Shown ==
  {<<"normalVelocity", 3, "double", UL>>, <<"ssh", 0, "double", UL>>,
   <<"kineticEnergyCell", 2, "double", UL>>, <<"relativeVorticityCell", 2, "double", UL>>,
   <<"relativeVorticity", 4, "double", UL>>, <<"divergence", 2, "double", UL>>,
   <<"BruntVaisalaFreqTop", 2, "double", UL>>, <<"vertVelocityTop", 5, "double", UL>>,
   <<"velocityZonal", 2, "double", UL>>, <<"velocityMeridional", 2, "double", UL>>,
   <<"displacedDensity", 2, "double", UL>>, <<"potentialDensity", 2, "double", UL>>,
   <<"pressure", 2, "double", UL>>, <<"zMid", 2, "double", UL>>,
   <<"columnIntegratedSpeed", 0, "double", UL>>,
   <<"temperatureHorizontalAdvectionTendency", 2, "double", UL>>,
   <<"salinityHorizontalAdvectionTendency", 2, "double", UL>>,
   <<"temperatureVerticalAdvectionTendency", 2, "double", UL>>,
   <<"salinityVerticalAdvectionTendency", 2, "double", UL>>}
LEMMA GDef2Is == Says(GDef2, GDef2Names, GDef2Shown, GShapes, 7, 7)
<1> DEFINE n1 == GDef2!1!1!1!1!1!1!1!1!1
           n2 == GDef2!1!1!1!1!1!1!1!2!1
           n3 == GDef2!1!1!1!1!1!1!2!1
           n4 == GDef2!1!1!1!1!1!2!1
           n5 == GDef2!1!1!1!1!2!1
           n6 == GDef2!1!1!1!2!1
           n7 == GDef2!1!1!2!1
           n8 == GDef2!1!2!1
           n9 == GDef2!2!1
           r1 == GDef2!1!1!1!1!1!1!1!1
           r2 == GDef2!1!1!1!1!1!1!1!2
           r3 == GDef2!1!1!1!1!1!1!2
           r4 == GDef2!1!1!1!1!1!2
           r5 == GDef2!1!1!1!1!2
           r6 == GDef2!1!1!1!2
           r7 == GDef2!1!1!2
           r8 == GDef2!1!2
           r9 == GDef2!2
           e1 == Each(n1, 3, "double", UL)
           e2 == Each(n2, 0, "double", UL)
           e3 == Each(n3, 2, "double", UL)
           e4 == Each(n4, 4, "double", UL)
           e5 == Each(n5, 2, "double", UL)
           e6 == Each(n6, 5, "double", UL)
           e7 == Each(n7, 2, "double", UL)
           e8 == Each(n8, 0, "double", UL)
           e9 == Each(n9, 2, "double", UL)
           x1 == {<<"normalVelocity", 3, "double", UL>>}
           x2 == {<<"ssh", 0, "double", UL>>}
           x3 == {<<"kineticEnergyCell", 2, "double", UL>>, <<"relativeVorticityCell", 2, "double", UL>>}
           x4 == {<<"relativeVorticity", 4, "double", UL>>}
           x5 == {<<"divergence", 2, "double", UL>>, <<"BruntVaisalaFreqTop", 2, "double", UL>>}
           x6 == {<<"vertVelocityTop", 5, "double", UL>>}
           x7 == {<<"velocityZonal", 2, "double", UL>>, <<"velocityMeridional", 2, "double", UL>>,
       <<"displacedDensity", 2, "double", UL>>, <<"potentialDensity", 2, "double", UL>>,
       <<"pressure", 2, "double", UL>>, <<"zMid", 2, "double", UL>>}
           x8 == {<<"columnIntegratedSpeed", 0, "double", UL>>}
           x9 == {<<"temperatureHorizontalAdvectionTendency", 2, "double", UL>>,
       <<"salinityHorizontalAdvectionTendency", 2, "double", UL>>,
       <<"temperatureVerticalAdvectionTendency", 2, "double", UL>>,
       <<"salinityVerticalAdvectionTendency", 2, "double", UL>>}
           N1 == Ran(n1)
           N2 == N1 \cup Ran(n2)
           N3 == N2 \cup Ran(n3)
           N4 == N3 \cup Ran(n4)
           N5 == N4 \cup Ran(n5)
           N6 == N5 \cup Ran(n6)
           N7 == N6 \cup Ran(n7)
           N8 == N7 \cup Ran(n8)
           N9 == N8 \cup Ran(n9)
<1>1. /\ IsNames(n7)
      /\ IsNames(n1)
      /\ IsNames(n2)
      /\ IsNames(n3)
      /\ IsNames(n4)
      /\ IsNames(n5)
      /\ IsNames(n6)
      /\ IsNames(n8)
      /\ IsNames(n9)
  <2>1. IsNames(n7)
    BY DEF IsNames, IsList
  <2>2. /\ IsNames(n1)
        /\ IsNames(n2)
        /\ IsNames(n3)
        /\ IsNames(n4)
        /\ IsNames(n5)
        /\ IsNames(n6)
    BY DEF IsNames, IsList
  <2>3. /\ IsNames(n8)
        /\ IsNames(n9)
    BY DEF IsNames, IsList
  <2> QED
    BY <2>1, <2>2, <2>3
<1>2. /\ N1 \cap Ran(n2) = {}
      /\ N2 \cap Ran(n3) = {}
      /\ N3 \cap Ran(n4) = {}
      /\ N4 \cap Ran(n5) = {}
      /\ N5 \cap Ran(n6) = {}
      /\ N6 \cap Ran(n7) = {}
      /\ N7 \cap Ran(n8) = {}
      /\ N8 \cap Ran(n9) = {}
  BY DEF Ran
<1>3. N9 = GDef2Names
  BY DEF Ran, GDef2Names
<1>4. /\ << <<"time", "nEdges", "nVertLevels">>, "double", 3 >> \in GShapes /\ PlaceOf(<<"time", "nEdges", "nVertLevels">>, "double") = 7
      /\ << <<"time", "nCells">>, "double", 0 >> \in GShapes /\ PlaceOf(<<"time", "nCells">>, "double") = 7
      /\ << <<"time", "nCells", "nVertLevels">>, "double", 2 >> \in GShapes /\ PlaceOf(<<"time", "nCells", "nVertLevels">>, "double") = 7
      /\ << <<"time", "nVertices", "nVertLevels">>, "double", 4 >> \in GShapes /\ PlaceOf(<<"time", "nVertices", "nVertLevels">>, "double") = 7
      /\ << <<"time", "nCells", "nVertLevelsP1">>, "double", 5 >> \in GShapes /\ PlaceOf(<<"time", "nCells", "nVertLevelsP1">>, "double") = 7
  <2>1. /\ << <<"time", "nEdges", "nVertLevels">>, "double", 3 >> \in GShapes /\ PlaceOf(<<"time", "nEdges", "nVertLevels">>, "double") = 7
        /\ << <<"time", "nCells">>, "double", 0 >> \in GShapes /\ PlaceOf(<<"time", "nCells">>, "double") = 7
        /\ << <<"time", "nCells", "nVertLevels">>, "double", 2 >> \in GShapes /\ PlaceOf(<<"time", "nCells", "nVertLevels">>, "double") = 7
    BY PlaceIs DEF GShapes
  <2>2. /\ << <<"time", "nVertices", "nVertLevels">>, "double", 4 >> \in GShapes /\ PlaceOf(<<"time", "nVertices", "nVertLevels">>, "double") = 7
        /\ << <<"time", "nCells", "nVertLevelsP1">>, "double", 5 >> \in GShapes /\ PlaceOf(<<"time", "nCells", "nVertLevelsP1">>, "double") = 7
    BY PlaceIs DEF GShapes
  <2> QED
    BY <2>1, <2>2
<1>5. /\ Says(r1, Ran(n1), e1, GShapes, 7, 7)
      /\ Says(r2, Ran(n2), e2, GShapes, 7, 7)
      /\ Says(r3, Ran(n3), e3, GShapes, 7, 7)
      /\ Says(r4, Ran(n4), e4, GShapes, 7, 7)
      /\ Says(r5, Ran(n5), e5, GShapes, 7, 7)
      /\ Says(r6, Ran(n6), e6, GShapes, 7, 7)
      /\ Says(r7, Ran(n7), e7, GShapes, 7, 7)
      /\ Says(r8, Ran(n8), e8, GShapes, 7, 7)
      /\ Says(r9, Ran(n9), e9, GShapes, 7, 7)
  <2>1. Says(r1, Ran(n1), e1, GShapes, 7, 7)
    <3>1. << <<"time", "nEdges", "nVertLevels">>, "double", 3 >> \in GShapes /\ PlaceOf(<<"time", "nEdges", "nVertLevels">>, "double") = 7
      BY <1>4
    <3>2. IsNames(n1)
      BY <1>1
    <3> QED
      BY <3>1, <3>2, RunSays
  <2>2. Says(r2, Ran(n2), e2, GShapes, 7, 7)
    <3>1. << <<"time", "nCells">>, "double", 0 >> \in GShapes /\ PlaceOf(<<"time", "nCells">>, "double") = 7
      BY <1>4
    <3>2. IsNames(n2)
      BY <1>1
    <3> QED
      BY <3>1, <3>2, RunSays
  <2>3. Says(r3, Ran(n3), e3, GShapes, 7, 7)
    <3>1. << <<"time", "nCells", "nVertLevels">>, "double", 2 >> \in GShapes /\ PlaceOf(<<"time", "nCells", "nVertLevels">>, "double") = 7
      BY <1>4
    <3>2. IsNames(n3)
      BY <1>1
    <3> QED
      BY <3>1, <3>2, RunSays
  <2>4. Says(r4, Ran(n4), e4, GShapes, 7, 7)
    <3>1. << <<"time", "nVertices", "nVertLevels">>, "double", 4 >> \in GShapes /\ PlaceOf(<<"time", "nVertices", "nVertLevels">>, "double") = 7
      BY <1>4
    <3>2. IsNames(n4)
      BY <1>1
    <3> QED
      BY <3>1, <3>2, RunSays
  <2>5. Says(r5, Ran(n5), e5, GShapes, 7, 7)
    <3>1. << <<"time", "nCells", "nVertLevels">>, "double", 2 >> \in GShapes /\ PlaceOf(<<"time", "nCells", "nVertLevels">>, "double") = 7
      BY <1>4
    <3>2. IsNames(n5)
      BY <1>1
    <3> QED
      BY <3>1, <3>2, RunSays
  <2>6. Says(r6, Ran(n6), e6, GShapes, 7, 7)
    <3>1. << <<"time", "nCells", "nVertLevelsP1">>, "double", 5 >> \in GShapes /\ PlaceOf(<<"time", "nCells", "nVertLevelsP1">>, "double") = 7
      BY <1>4
    <3>2. IsNames(n6)
      BY <1>1
    <3> QED
      BY <3>1, <3>2, RunSays
  <2>7. Says(r7, Ran(n7), e7, GShapes, 7, 7)
    <3>1. << <<"time", "nCells", "nVertLevels">>, "double", 2 >> \in GShapes /\ PlaceOf(<<"time", "nCells", "nVertLevels">>, "double") = 7
      BY <1>4
    <3>2. IsNames(n7)
      BY <1>1
    <3> QED
      BY <3>1, <3>2, RunSays
  <2>8. Says(r8, Ran(n8), e8, GShapes, 7, 7)
    <3>1. << <<"time", "nCells">>, "double", 0 >> \in GShapes /\ PlaceOf(<<"time", "nCells">>, "double") = 7
      BY <1>4
    <3>2. IsNames(n8)
      BY <1>1
    <3> QED
      BY <3>1, <3>2, RunSays
  <2>9. Says(r9, Ran(n9), e9, GShapes, 7, 7)
    <3>1. << <<"time", "nCells", "nVertLevels">>, "double", 2 >> \in GShapes /\ PlaceOf(<<"time", "nCells", "nVertLevels">>, "double") = 7
      BY <1>4
    <3>2. IsNames(n9)
      BY <1>1
    <3> QED
      BY <3>1, <3>2, RunSays
  <2> QED
    BY <2>1, <2>2, <2>3, <2>4, <2>5, <2>6, <2>7, <2>8, <2>9
<1>6. /\ e7 = x7
      /\ e1 = x1
      /\ e2 = x2
      /\ e3 = x3
      /\ e4 = x4
      /\ e5 = x5
      /\ e6 = x6
      /\ e8 = x8
      /\ e9 = x9
  <2>1. e7 = x7
    BY DEF Each, Ran
  <2>2. /\ e1 = x1
        /\ e2 = x2
        /\ e3 = x3
        /\ e4 = x4
        /\ e5 = x5
        /\ e6 = x6
    BY DEF Each, Ran
  <2>3. /\ e8 = x8
        /\ e9 = x9
    BY DEF Each, Ran
  <2> QED
    BY <2>1, <2>2, <2>3
<1>7. GDef2 = r1 \o r2 \o r3 \o r4 \o r5 \o r6 \o r7 \o r8 \o r9
  BY DEF GDef2
<1> HIDE DEF r1, r2, r3, r4, r5, r6, r7, r8, r9, n1, n2, n3, n4, n5, n6, n7, n8, n9, e1, e2,
             e3, e4, e5, e6, e7, e8, e9, x1, x2, x3, x4, x5, x6, x7, x8, x9
<1> DEFINE p1 == r1
           p2 == p1 \o r2
           p3 == p2 \o r3
           p4 == p3 \o r4
           p5 == p4 \o r5
           p6 == p5 \o r6
           p7 == p6 \o r7
           p8 == p7 \o r8
           p9 == p8 \o r9
           y1 == x1
           y2 == y1 \cup x2
           y3 == y2 \cup x3
           y4 == y3 \cup x4
           y5 == y4 \cup x5
           y6 == y5 \cup x6
           y7 == y6 \cup x7
           y8 == y7 \cup x8
           y9 == y8 \cup x9
<1> HIDE DEF p1, p2, p3, p4, p5, p6, p7, p8, p9, y1, y2, y3, y4, y5, y6, y7, y8, y9, N1, N2,
             N3, N4, N5, N6, N7, N8, N9
<1>8. Says(p1, N1, y1, GShapes, 7, 7)
  BY <1>5, <1>6 DEF p1, y1, N1
<1>9. Says(p2, N2, y2, GShapes, 7, 7)
  BY <1>2, <1>5, <1>6, <1>8, SaysJoins DEF p2, y2, N2
<1>10. Says(p3, N3, y3, GShapes, 7, 7)
  BY <1>2, <1>5, <1>6, <1>9, SaysJoins DEF p3, y3, N3
<1>11. Says(p4, N4, y4, GShapes, 7, 7)
  BY <1>2, <1>5, <1>6, <1>10, SaysJoins DEF p4, y4, N4
<1>12. Says(p5, N5, y5, GShapes, 7, 7)
  BY <1>2, <1>5, <1>6, <1>11, SaysJoins DEF p5, y5, N5
<1>13. Says(p6, N6, y6, GShapes, 7, 7)
  BY <1>2, <1>5, <1>6, <1>12, SaysJoins DEF p6, y6, N6
<1>14. Says(p7, N7, y7, GShapes, 7, 7)
  BY <1>2, <1>5, <1>6, <1>13, SaysJoins DEF p7, y7, N7
<1>15. Says(p8, N8, y8, GShapes, 7, 7)
  BY <1>2, <1>5, <1>6, <1>14, SaysJoins DEF p8, y8, N8
<1>16. Says(p9, N9, y9, GShapes, 7, 7)
  BY <1>2, <1>5, <1>6, <1>15, SaysJoins DEF p9, y9, N9
<1>17. y9 = GDef2Shown
  BY DEF x1, x2, x3, x4, x5, x6, x7, x8, x9, y1, y2, y3, y4, y5, y6, y7, y8, y9, GDef2Shown
<1>18. GDef2 = p9
  BY <1>7 DEF p1, p2, p3, p4, p5, p6, p7, p8, p9
<1> QED
  BY <1>3, <1>16, <1>17, <1>18

GDef3Names ==
  {"temperatureVertMixTendency", "salinityVertMixTendency",
   "temperatureSurfaceFluxTendency", "salinitySurfaceFluxTendency",
   "temperatureShortWaveTendency", "temperatureNonLocalTendency",
   "salinityNonLocalTendency", "temperature", "salinity"}
GDef3Shown ==
  {<<"temperatureVertMixTendency", 2, "double", UL>>,
   <<"salinityVertMixTendency", 2, "double", UL>>,
   <<"temperatureSurfaceFluxTendency", 2, "double", UL>>,
   <<"salinitySurfaceFluxTendency", 2, "double", UL>>,
   <<"temperatureShortWaveTendency", 2, "double", UL>>,
   <<"temperatureNonLocalTendency", 2, "double", UL>>,
   <<"salinityNonLocalTendency", 2, "double", UL>>, <<"temperature", 2, "double", UL>>,
   <<"salinity", 2, "double", UL>>}
LEMMA GDef3Is == Says(GDef3, GDef3Names, GDef3Shown, GShapes, 7, 7)
<1> DEFINE n1 == GDef3!1
           r1 == GDef3
           e1 == Each(n1, 2, "double", UL)
           x1 == {<<"temperatureVertMixTendency", 2, "double", UL>>,
       <<"salinityVertMixTendency", 2, "double", UL>>,
       <<"temperatureSurfaceFluxTendency", 2, "double", UL>>,
       <<"salinitySurfaceFluxTendency", 2, "double", UL>>,
       <<"temperatureShortWaveTendency", 2, "double", UL>>,
       <<"temperatureNonLocalTendency", 2, "double", UL>>,
       <<"salinityNonLocalTendency", 2, "double", UL>>, <<"temperature", 2, "double", UL>>,
       <<"salinity", 2, "double", UL>>}
           N1 == Ran(n1)
<1>1. IsNames(n1)
  BY DEF IsNames, IsList
<1>2. N1 = GDef3Names
  BY DEF Ran, GDef3Names
<1>3. << <<"time", "nCells", "nVertLevels">>, "double", 2 >> \in GShapes /\ PlaceOf(<<"time", "nCells", "nVertLevels">>, "double") = 7
  BY PlaceIs DEF GShapes
<1>4. Says(r1, Ran(n1), e1, GShapes, 7, 7)
  <2>1. Says(r1, Ran(n1), e1, GShapes, 7, 7)
    <3>1. << <<"time", "nCells", "nVertLevels">>, "double", 2 >> \in GShapes /\ PlaceOf(<<"time", "nCells", "nVertLevels">>, "double") = 7
      BY <1>3
    <3>2. IsNames(n1)
      BY <1>1
    <3> QED
      BY <3>1, <3>2, RunSays DEF GDef3
  <2> QED
    BY <2>1
<1>5. e1 = x1
  BY DEF Each, Ran
<1>6. GDef3 = r1
  BY DEF GDef3
<1> HIDE DEF r1, n1, e1, x1
<1>7. x1 = GDef3Shown
  BY DEF x1, GDef3Shown
<1> QED
  BY <1>2, <1>4, <1>5, <1>6, <1>7 DEF N1

GInq1Names ==
  {"salinitySurfaceRestoringTendency", "vertTransportVelocityTop", "vertGMBolusVelocityTop",
   "vertAleTransportTop", "tendSSH", "layerThickness", "normalVelocity", "ssh",
   "maxLevelEdgeTop", "vertCoordMovementWeights", "edgeMask", "cellMask", "vertexMask",
   "refZMid", "refLayerThickness", "xtime", "kineticEnergyCell", "relativeVorticityCell",
   "relativeVorticity", "divergence", "areaCellGlobal", "areaEdgeGlobal"}
GInq1Shown ==
  {<<"salinitySurfaceRestoringTendency", 0, "double", UL>>,
   <<"vertTransportVelocityTop", 5, "double", UL>>,
   <<"vertGMBolusVelocityTop", 5, "double", UL>>,
   <<"vertAleTransportTop", 5, "double", UL>>, <<"tendSSH", 0, "double", UL>>,
   <<"layerThickness", 2, "double", UL>>, <<"normalVelocity", 3, "double", UL>>,
   <<"ssh", 0, "double", UL>>, <<"maxLevelEdgeTop", 1, "int", UL>>,
   <<"vertCoordMovementWeights", -1, "double", UL>>, <<"edgeMask", 3, "int", UL>>,
   <<"cellMask", 2, "int", UL>>, <<"vertexMask", 4, "int", UL>>,
   <<"refZMid", -1, "double", UL>>, <<"refLayerThickness", -1, "double", UL>>,
   <<"xtime", -1, "char", UL>>, <<"kineticEnergyCell", 2, "double", UL>>,
   <<"relativeVorticityCell", 2, "double", UL>>, <<"relativeVorticity", 4, "double", UL>>,
   <<"divergence", 2, "double", UL>>, <<"areaCellGlobal", -1, "double", UL>>,
   <<"areaEdgeGlobal", -1, "double", UL>>}

\* The parts of header_inq_G_case.cpp, in an order of their own.
LEMMA GInq1Is == Asks(GInq1, GInq1Names, GInq1Shown)
<1> DEFINE n1 == GInq1!1!1!1!1!1!1!1!1!1!1!1!1!1!1!1!1!1
           n2 == GInq1!1!1!1!1!1!1!1!1!1!1!1!1!1!1!1!2!1
           n3 == GInq1!1!1!1!1!1!1!1!1!1!1!1!1!1!1!2!1
           n4 == GInq1!1!1!1!1!1!1!1!1!1!1!1!1!1!2!1
           n5 == GInq1!1!1!1!1!1!1!1!1!1!1!1!1!2!1
           n6 == GInq1!1!1!1!1!1!1!1!1!1!1!1!2!1
           n7 == GInq1!1!1!1!1!1!1!1!1!1!1!2!1
           n8 == GInq1!1!1!1!1!1!1!1!1!1!2!1
           n9 == GInq1!1!1!1!1!1!1!1!1!2!1
           n10 == GInq1!1!1!1!1!1!1!1!2!1
           n11 == GInq1!1!1!1!1!1!1!2!1
           n12 == GInq1!1!1!1!1!1!2!1
           n13 == GInq1!1!1!1!1!2!1
           n14 == GInq1!1!1!1!2!1
           n15 == GInq1!1!1!2!1
           n16 == GInq1!1!2!1
           n17 == GInq1!2!1
           r1 == GInq1!1!1!1!1!1!1!1!1!1!1!1!1!1!1!1!1
           r2 == GInq1!1!1!1!1!1!1!1!1!1!1!1!1!1!1!1!2
           r3 == GInq1!1!1!1!1!1!1!1!1!1!1!1!1!1!1!2
           r4 == GInq1!1!1!1!1!1!1!1!1!1!1!1!1!1!2
           r5 == GInq1!1!1!1!1!1!1!1!1!1!1!1!1!2
           r6 == GInq1!1!1!1!1!1!1!1!1!1!1!1!2
           r7 == GInq1!1!1!1!1!1!1!1!1!1!1!2
           r8 == GInq1!1!1!1!1!1!1!1!1!1!2
           r9 == GInq1!1!1!1!1!1!1!1!1!2
           r10 == GInq1!1!1!1!1!1!1!1!2
           r11 == GInq1!1!1!1!1!1!1!2
           r12 == GInq1!1!1!1!1!1!2
           r13 == GInq1!1!1!1!1!2
           r14 == GInq1!1!1!1!2
           r15 == GInq1!1!1!2
           r16 == GInq1!1!2
           r17 == GInq1!2
           e1 == Each(n1, 0, "double", UL)
           e2 == Each(n2, 5, "double", UL)
           e3 == Each(n3, 0, "double", UL)
           e4 == Each(n4, 2, "double", UL)
           e5 == Each(n5, 3, "double", UL)
           e6 == Each(n6, 0, "double", UL)
           e7 == Each(n7, 1, "int", UL)
           e8 == Each(n8, -1, "double", UL)
           e9 == Each(n9, 3, "int", UL)
           e10 == Each(n10, 2, "int", UL)
           e11 == Each(n11, 4, "int", UL)
           e12 == Each(n12, -1, "double", UL)
           e13 == Each(n13, -1, "char", UL)
           e14 == Each(n14, 2, "double", UL)
           e15 == Each(n15, 4, "double", UL)
           e16 == Each(n16, 2, "double", UL)
           e17 == Each(n17, -1, "double", UL)
           x1 == {<<"salinitySurfaceRestoringTendency", 0, "double", UL>>}
           x2 == {<<"vertTransportVelocityTop", 5, "double", UL>>,
       <<"vertGMBolusVelocityTop", 5, "double", UL>>,
       <<"vertAleTransportTop", 5, "double", UL>>}
           x3 == {<<"tendSSH", 0, "double", UL>>}
           x4 == {<<"layerThickness", 2, "double", UL>>}
           x5 == {<<"normalVelocity", 3, "double", UL>>}
           x6 == {<<"ssh", 0, "double", UL>>}
           x7 == {<<"maxLevelEdgeTop", 1, "int", UL>>}
           x8 == {<<"vertCoordMovementWeights", -1, "double", UL>>}
           x9 == {<<"edgeMask", 3, "int", UL>>}
           x10 == {<<"cellMask", 2, "int", UL>>}
           x11 == {<<"vertexMask", 4, "int", UL>>}
           x12 == {<<"refZMid", -1, "double", UL>>, <<"refLayerThickness", -1, "double", UL>>}
           x13 == {<<"xtime", -1, "char", UL>>}
           x14 == {<<"kineticEnergyCell", 2, "double", UL>>, <<"relativeVorticityCell", 2, "double", UL>>}
           x15 == {<<"relativeVorticity", 4, "double", UL>>}
           x16 == {<<"divergence", 2, "double", UL>>}
           x17 == {<<"areaCellGlobal", -1, "double", UL>>, <<"areaEdgeGlobal", -1, "double", UL>>}
           N1 == Ran(n1)
           N2 == N1 \cup Ran(n2)
           N3 == N2 \cup Ran(n3)
           N4 == N3 \cup Ran(n4)
           N5 == N4 \cup Ran(n5)
           N6 == N5 \cup Ran(n6)
           N7 == N6 \cup Ran(n7)
           N8 == N7 \cup Ran(n8)
           N9 == N8 \cup Ran(n9)
           N10 == N9 \cup Ran(n10)
           N11 == N10 \cup Ran(n11)
           N12 == N11 \cup Ran(n12)
           N13 == N12 \cup Ran(n13)
           N14 == N13 \cup Ran(n14)
           N15 == N14 \cup Ran(n15)
           N16 == N15 \cup Ran(n16)
           N17 == N16 \cup Ran(n17)
<1>1. /\ IsNames(n1)
      /\ IsNames(n2)
      /\ IsNames(n3)
      /\ IsNames(n4)
      /\ IsNames(n5)
      /\ IsNames(n6)
      /\ IsNames(n7)
      /\ IsNames(n8)
      /\ IsNames(n9)
      /\ IsNames(n10)
      /\ IsNames(n11)
      /\ IsNames(n12)
      /\ IsNames(n13)
      /\ IsNames(n14)
      /\ IsNames(n15)
      /\ IsNames(n16)
      /\ IsNames(n17)
  <2>1. /\ IsNames(n1)
        /\ IsNames(n2)
        /\ IsNames(n3)
        /\ IsNames(n4)
        /\ IsNames(n5)
        /\ IsNames(n6)
    BY DEF IsNames, IsList
  <2>2. /\ IsNames(n7)
        /\ IsNames(n8)
        /\ IsNames(n9)
        /\ IsNames(n10)
        /\ IsNames(n11)
        /\ IsNames(n12)
    BY DEF IsNames, IsList
  <2>3. /\ IsNames(n13)
        /\ IsNames(n14)
        /\ IsNames(n15)
        /\ IsNames(n16)
        /\ IsNames(n17)
    BY DEF IsNames, IsList
  <2> QED
    BY <2>1, <2>2, <2>3
<1>2. /\ N1 \cap Ran(n2) = {}
      /\ N2 \cap Ran(n3) = {}
      /\ N3 \cap Ran(n4) = {}
      /\ N4 \cap Ran(n5) = {}
      /\ N5 \cap Ran(n6) = {}
      /\ N6 \cap Ran(n7) = {}
      /\ N7 \cap Ran(n8) = {}
      /\ N8 \cap Ran(n9) = {}
      /\ N9 \cap Ran(n10) = {}
      /\ N10 \cap Ran(n11) = {}
      /\ N11 \cap Ran(n12) = {}
      /\ N12 \cap Ran(n13) = {}
      /\ N13 \cap Ran(n14) = {}
      /\ N14 \cap Ran(n15) = {}
      /\ N15 \cap Ran(n16) = {}
      /\ N16 \cap Ran(n17) = {}
  BY DEF Ran
<1>3. N17 = GInq1Names
  BY DEF Ran, GInq1Names
<1>4. /\ Asks(r1, Ran(n1), e1)
      /\ Asks(r2, Ran(n2), e2)
      /\ Asks(r3, Ran(n3), e3)
      /\ Asks(r4, Ran(n4), e4)
      /\ Asks(r5, Ran(n5), e5)
      /\ Asks(r6, Ran(n6), e6)
      /\ Asks(r7, Ran(n7), e7)
      /\ Asks(r8, Ran(n8), e8)
      /\ Asks(r9, Ran(n9), e9)
      /\ Asks(r10, Ran(n10), e10)
      /\ Asks(r11, Ran(n11), e11)
      /\ Asks(r12, Ran(n12), e12)
      /\ Asks(r13, Ran(n13), e13)
      /\ Asks(r14, Ran(n14), e14)
      /\ Asks(r15, Ran(n15), e15)
      /\ Asks(r16, Ran(n16), e16)
      /\ Asks(r17, Ran(n17), e17)
  <2>1. Asks(r1, Ran(n1), e1)
    BY <1>1, RunAsks
  <2>2. Asks(r2, Ran(n2), e2)
    BY <1>1, RunAsks
  <2>3. Asks(r3, Ran(n3), e3)
    BY <1>1, RunAsks
  <2>4. Asks(r4, Ran(n4), e4)
    BY <1>1, RunAsks
  <2>5. Asks(r5, Ran(n5), e5)
    BY <1>1, RunAsks
  <2>6. Asks(r6, Ran(n6), e6)
    BY <1>1, RunAsks
  <2>7. Asks(r7, Ran(n7), e7)
    BY <1>1, RunAsks
  <2>8. Asks(r8, Ran(n8), e8)
    BY <1>1, RunAsks
  <2>9. Asks(r9, Ran(n9), e9)
    BY <1>1, RunAsks
  <2>10. Asks(r10, Ran(n10), e10)
    BY <1>1, RunAsks
  <2>11. Asks(r11, Ran(n11), e11)
    BY <1>1, RunAsks
  <2>12. Asks(r12, Ran(n12), e12)
    BY <1>1, RunAsks
  <2>13. Asks(r13, Ran(n13), e13)
    BY <1>1, RunAsks
  <2>14. Asks(r14, Ran(n14), e14)
    BY <1>1, RunAsks
  <2>15. Asks(r15, Ran(n15), e15)
    BY <1>1, RunAsks
  <2>16. Asks(r16, Ran(n16), e16)
    BY <1>1, RunAsks
  <2>17. Asks(r17, Ran(n17), e17)
    BY <1>1, RunAsks
  <2> QED
    BY <2>1, <2>2, <2>3, <2>4, <2>5, <2>6, <2>7, <2>8, <2>9, <2>10, <2>11, <2>12, <2>13,
       <2>14, <2>15, <2>16, <2>17
<1>5. /\ e1 = x1
      /\ e2 = x2
      /\ e3 = x3
      /\ e4 = x4
      /\ e5 = x5
      /\ e6 = x6
      /\ e7 = x7
      /\ e8 = x8
      /\ e9 = x9
      /\ e10 = x10
      /\ e11 = x11
      /\ e12 = x12
      /\ e13 = x13
      /\ e14 = x14
      /\ e15 = x15
      /\ e16 = x16
      /\ e17 = x17
  <2>1. /\ e1 = x1
        /\ e2 = x2
        /\ e3 = x3
        /\ e4 = x4
        /\ e5 = x5
        /\ e6 = x6
    BY DEF Each, Ran
  <2>2. /\ e7 = x7
        /\ e8 = x8
        /\ e9 = x9
        /\ e10 = x10
        /\ e11 = x11
        /\ e12 = x12
    BY DEF Each, Ran
  <2>3. /\ e13 = x13
        /\ e14 = x14
        /\ e15 = x15
        /\ e16 = x16
        /\ e17 = x17
    BY DEF Each, Ran
  <2> QED
    BY <2>1, <2>2, <2>3
<1>6. GInq1 = r1 \o r2 \o r3 \o r4 \o r5 \o r6 \o r7 \o r8 \o r9 \o r10 \o r11 \o r12 \o r13 \o
        r14 \o r15 \o r16 \o r17
  BY DEF GInq1
<1> HIDE DEF r1, r2, r3, r4, r5, r6, r7, r8, r9, r10, r11, r12, r13, r14, r15, r16, r17, n1,
             n2, n3, n4, n5, n6, n7, n8, n9, n10, n11, n12, n13, n14, n15, n16, n17, e1, e2,
             e3, e4, e5, e6, e7, e8, e9, e10, e11, e12, e13, e14, e15, e16, e17, x1, x2, x3,
             x4, x5, x6, x7, x8, x9, x10, x11, x12, x13, x14, x15, x16, x17
<1> DEFINE p1 == r1
           p2 == p1 \o r2
           p3 == p2 \o r3
           p4 == p3 \o r4
           p5 == p4 \o r5
           p6 == p5 \o r6
           p7 == p6 \o r7
           p8 == p7 \o r8
           p9 == p8 \o r9
           p10 == p9 \o r10
           p11 == p10 \o r11
           p12 == p11 \o r12
           p13 == p12 \o r13
           p14 == p13 \o r14
           p15 == p14 \o r15
           p16 == p15 \o r16
           p17 == p16 \o r17
           y1 == x1
           y2 == y1 \cup x2
           y3 == y2 \cup x3
           y4 == y3 \cup x4
           y5 == y4 \cup x5
           y6 == y5 \cup x6
           y7 == y6 \cup x7
           y8 == y7 \cup x8
           y9 == y8 \cup x9
           y10 == y9 \cup x10
           y11 == y10 \cup x11
           y12 == y11 \cup x12
           y13 == y12 \cup x13
           y14 == y13 \cup x14
           y15 == y14 \cup x15
           y16 == y15 \cup x16
           y17 == y16 \cup x17
<1> HIDE DEF p1, p2, p3, p4, p5, p6, p7, p8, p9, p10, p11, p12, p13, p14, p15, p16, p17, y1,
             y2, y3, y4, y5, y6, y7, y8, y9, y10, y11, y12, y13, y14, y15, y16, y17, N1, N2,
             N3, N4, N5, N6, N7, N8, N9, N10, N11, N12, N13, N14, N15, N16, N17
<1>7. Asks(p1, N1, y1)
  BY <1>4, <1>5 DEF p1, y1, N1
<1>8. Asks(p2, N2, y2)
  BY <1>2, <1>4, <1>5, <1>7, AsksJoins DEF p2, y2, N2
<1>9. Asks(p3, N3, y3)
  BY <1>2, <1>4, <1>5, <1>8, AsksJoins DEF p3, y3, N3
<1>10. Asks(p4, N4, y4)
  BY <1>2, <1>4, <1>5, <1>9, AsksJoins DEF p4, y4, N4
<1>11. Asks(p5, N5, y5)
  BY <1>2, <1>4, <1>5, <1>10, AsksJoins DEF p5, y5, N5
<1>12. Asks(p6, N6, y6)
  BY <1>2, <1>4, <1>5, <1>11, AsksJoins DEF p6, y6, N6
<1>13. Asks(p7, N7, y7)
  BY <1>2, <1>4, <1>5, <1>12, AsksJoins DEF p7, y7, N7
<1>14. Asks(p8, N8, y8)
  BY <1>2, <1>4, <1>5, <1>13, AsksJoins DEF p8, y8, N8
<1>15. Asks(p9, N9, y9)
  BY <1>2, <1>4, <1>5, <1>14, AsksJoins DEF p9, y9, N9
<1>16. Asks(p10, N10, y10)
  BY <1>2, <1>4, <1>5, <1>15, AsksJoins DEF p10, y10, N10
<1>17. Asks(p11, N11, y11)
  BY <1>2, <1>4, <1>5, <1>16, AsksJoins DEF p11, y11, N11
<1>18. Asks(p12, N12, y12)
  BY <1>2, <1>4, <1>5, <1>17, AsksJoins DEF p12, y12, N12
<1>19. Asks(p13, N13, y13)
  BY <1>2, <1>4, <1>5, <1>18, AsksJoins DEF p13, y13, N13
<1>20. Asks(p14, N14, y14)
  BY <1>2, <1>4, <1>5, <1>19, AsksJoins DEF p14, y14, N14
<1>21. Asks(p15, N15, y15)
  BY <1>2, <1>4, <1>5, <1>20, AsksJoins DEF p15, y15, N15
<1>22. Asks(p16, N16, y16)
  BY <1>2, <1>4, <1>5, <1>21, AsksJoins DEF p16, y16, N16
<1>23. Asks(p17, N17, y17)
  BY <1>2, <1>4, <1>5, <1>22, AsksJoins DEF p17, y17, N17
<1>24. y17 = GInq1Shown
  BY DEF x1, x2, x3, x4, x5, x6, x7, x8, x9, x10, x11, x12, x13, x14, x15, x16, x17, y1, y2,
         y3, y4, y5, y6, y7, y8, y9, y10, y11, y12, y13, y14, y15, y16, y17, GInq1Shown
<1>25. GInq1 = p17
  BY <1>6 DEF p1, p2, p3, p4, p5, p6, p7, p8, p9, p10, p11, p12, p13, p14, p15, p16, p17
<1> QED
  BY <1>3, <1>23, <1>24, <1>25

GInq2Names ==
  {"areaTriangleGlobal", "volumeCellGlobal", "volumeEdgeGlobal", "CFLNumberGlobal",
   "BruntVaisalaFreqTop", "vertVelocityTop", "velocityZonal", "velocityMeridional",
   "displacedDensity", "potentialDensity", "pressure", "refBottomDepth", "zMid",
   "bottomDepth", "maxLevelCell", "maxLevelEdgeBot", "columnIntegratedSpeed",
   "temperatureHorizontalAdvectionTendency", "salinityHorizontalAdvectionTendency",
   "temperatureVerticalAdvectionTendency", "salinityVerticalAdvectionTendency",
   "temperatureVertMixTendency"}
GInq2Shown ==
  {<<"areaTriangleGlobal", -1, "double", UL>>, <<"volumeCellGlobal", -1, "double", UL>>,
   <<"volumeEdgeGlobal", -1, "double", UL>>, <<"CFLNumberGlobal", -1, "double", UL>>,
   <<"BruntVaisalaFreqTop", 2, "double", UL>>, <<"vertVelocityTop", 5, "double", UL>>,
   <<"velocityZonal", 2, "double", UL>>, <<"velocityMeridional", 2, "double", UL>>,
   <<"displacedDensity", 2, "double", UL>>, <<"potentialDensity", 2, "double", UL>>,
   <<"pressure", 2, "double", UL>>, <<"refBottomDepth", -1, "double", UL>>,
   <<"zMid", 2, "double", UL>>, <<"bottomDepth", 0, "double", UL>>,
   <<"maxLevelCell", 0, "int", UL>>, <<"maxLevelEdgeBot", 1, "int", UL>>,
   <<"columnIntegratedSpeed", 0, "double", UL>>,
   <<"temperatureHorizontalAdvectionTendency", 2, "double", UL>>,
   <<"salinityHorizontalAdvectionTendency", 2, "double", UL>>,
   <<"temperatureVerticalAdvectionTendency", 2, "double", UL>>,
   <<"salinityVerticalAdvectionTendency", 2, "double", UL>>,
   <<"temperatureVertMixTendency", 2, "double", UL>>}
LEMMA GInq2Is == Asks(GInq2, GInq2Names, GInq2Shown)
<1> DEFINE n1 == GInq2!1!1!1!1!1!1!1!1!1!1!1
           n2 == GInq2!1!1!1!1!1!1!1!1!1!2!1
           n3 == GInq2!1!1!1!1!1!1!1!1!2!1
           n4 == GInq2!1!1!1!1!1!1!1!2!1
           n5 == GInq2!1!1!1!1!1!1!2!1
           n6 == GInq2!1!1!1!1!1!2!1
           n7 == GInq2!1!1!1!1!2!1
           n8 == GInq2!1!1!1!2!1
           n9 == GInq2!1!1!2!1
           n10 == GInq2!1!2!1
           n11 == GInq2!2!1
           r1 == GInq2!1!1!1!1!1!1!1!1!1!1
           r2 == GInq2!1!1!1!1!1!1!1!1!1!2
           r3 == GInq2!1!1!1!1!1!1!1!1!2
           r4 == GInq2!1!1!1!1!1!1!1!2
           r5 == GInq2!1!1!1!1!1!1!2
           r6 == GInq2!1!1!1!1!1!2
           r7 == GInq2!1!1!1!1!2
           r8 == GInq2!1!1!1!2
           r9 == GInq2!1!1!2
           r10 == GInq2!1!2
           r11 == GInq2!2
           e1 == Each(n1, -1, "double", UL)
           e2 == Each(n2, 2, "double", UL)
           e3 == Each(n3, 5, "double", UL)
           e4 == Each(n4, 2, "double", UL)
           e5 == Each(n5, -1, "double", UL)
           e6 == Each(n6, 2, "double", UL)
           e7 == Each(n7, 0, "double", UL)
           e8 == Each(n8, 0, "int", UL)
           e9 == Each(n9, 1, "int", UL)
           e10 == Each(n10, 0, "double", UL)
           e11 == Each(n11, 2, "double", UL)
           x1 == {<<"areaTriangleGlobal", -1, "double", UL>>, <<"volumeCellGlobal", -1, "double", UL>>,
       <<"volumeEdgeGlobal", -1, "double", UL>>, <<"CFLNumberGlobal", -1, "double", UL>>}
           x2 == {<<"BruntVaisalaFreqTop", 2, "double", UL>>}
           x3 == {<<"vertVelocityTop", 5, "double", UL>>}
           x4 == {<<"velocityZonal", 2, "double", UL>>, <<"velocityMeridional", 2, "double", UL>>,
       <<"displacedDensity", 2, "double", UL>>, <<"potentialDensity", 2, "double", UL>>,
       <<"pressure", 2, "double", UL>>}
           x5 == {<<"refBottomDepth", -1, "double", UL>>}
           x6 == {<<"zMid", 2, "double", UL>>}
           x7 == {<<"bottomDepth", 0, "double", UL>>}
           x8 == {<<"maxLevelCell", 0, "int", UL>>}
           x9 == {<<"maxLevelEdgeBot", 1, "int", UL>>}
           x10 == {<<"columnIntegratedSpeed", 0, "double", UL>>}
           x11 == {<<"temperatureHorizontalAdvectionTendency", 2, "double", UL>>,
       <<"salinityHorizontalAdvectionTendency", 2, "double", UL>>,
       <<"temperatureVerticalAdvectionTendency", 2, "double", UL>>,
       <<"salinityVerticalAdvectionTendency", 2, "double", UL>>,
       <<"temperatureVertMixTendency", 2, "double", UL>>}
           N1 == Ran(n1)
           N2 == N1 \cup Ran(n2)
           N3 == N2 \cup Ran(n3)
           N4 == N3 \cup Ran(n4)
           N5 == N4 \cup Ran(n5)
           N6 == N5 \cup Ran(n6)
           N7 == N6 \cup Ran(n7)
           N8 == N7 \cup Ran(n8)
           N9 == N8 \cup Ran(n9)
           N10 == N9 \cup Ran(n10)
           N11 == N10 \cup Ran(n11)
<1>1. /\ IsNames(n4)
      /\ IsNames(n11)
      /\ IsNames(n1)
      /\ IsNames(n2)
      /\ IsNames(n3)
      /\ IsNames(n5)
      /\ IsNames(n6)
      /\ IsNames(n7)
      /\ IsNames(n8)
      /\ IsNames(n9)
      /\ IsNames(n10)
  <2>1. IsNames(n4)
    BY DEF IsNames, IsList
  <2>2. IsNames(n11)
    BY DEF IsNames, IsList
  <2>3. /\ IsNames(n1)
        /\ IsNames(n2)
        /\ IsNames(n3)
        /\ IsNames(n5)
        /\ IsNames(n6)
        /\ IsNames(n7)
    BY DEF IsNames, IsList
  <2>4. /\ IsNames(n8)
        /\ IsNames(n9)
        /\ IsNames(n10)
    BY DEF IsNames, IsList
  <2> QED
    BY <2>1, <2>2, <2>3, <2>4
<1>2. /\ N1 \cap Ran(n2) = {}
      /\ N2 \cap Ran(n3) = {}
      /\ N3 \cap Ran(n4) = {}
      /\ N4 \cap Ran(n5) = {}
      /\ N5 \cap Ran(n6) = {}
      /\ N6 \cap Ran(n7) = {}
      /\ N7 \cap Ran(n8) = {}
      /\ N8 \cap Ran(n9) = {}
      /\ N9 \cap Ran(n10) = {}
      /\ N10 \cap Ran(n11) = {}
  BY DEF Ran
<1>3. N11 = GInq2Names
  BY DEF Ran, GInq2Names
<1>4. /\ Asks(r1, Ran(n1), e1)
      /\ Asks(r2, Ran(n2), e2)
      /\ Asks(r3, Ran(n3), e3)
      /\ Asks(r4, Ran(n4), e4)
      /\ Asks(r5, Ran(n5), e5)
      /\ Asks(r6, Ran(n6), e6)
      /\ Asks(r7, Ran(n7), e7)
      /\ Asks(r8, Ran(n8), e8)
      /\ Asks(r9, Ran(n9), e9)
      /\ Asks(r10, Ran(n10), e10)
      /\ Asks(r11, Ran(n11), e11)
  <2>1. Asks(r1, Ran(n1), e1)
    BY <1>1, RunAsks
  <2>2. Asks(r2, Ran(n2), e2)
    BY <1>1, RunAsks
  <2>3. Asks(r3, Ran(n3), e3)
    BY <1>1, RunAsks
  <2>4. Asks(r4, Ran(n4), e4)
    BY <1>1, RunAsks
  <2>5. Asks(r5, Ran(n5), e5)
    BY <1>1, RunAsks
  <2>6. Asks(r6, Ran(n6), e6)
    BY <1>1, RunAsks
  <2>7. Asks(r7, Ran(n7), e7)
    BY <1>1, RunAsks
  <2>8. Asks(r8, Ran(n8), e8)
    BY <1>1, RunAsks
  <2>9. Asks(r9, Ran(n9), e9)
    BY <1>1, RunAsks
  <2>10. Asks(r10, Ran(n10), e10)
    BY <1>1, RunAsks
  <2>11. Asks(r11, Ran(n11), e11)
    BY <1>1, RunAsks
  <2> QED
    BY <2>1, <2>2, <2>3, <2>4, <2>5, <2>6, <2>7, <2>8, <2>9, <2>10, <2>11
<1>5. /\ e4 = x4
      /\ e11 = x11
      /\ e1 = x1
      /\ e2 = x2
      /\ e3 = x3
      /\ e5 = x5
      /\ e6 = x6
      /\ e7 = x7
      /\ e8 = x8
      /\ e9 = x9
      /\ e10 = x10
  <2>1. e4 = x4
    BY DEF Each, Ran
  <2>2. e11 = x11
    BY DEF Each, Ran
  <2>3. /\ e1 = x1
        /\ e2 = x2
        /\ e3 = x3
        /\ e5 = x5
        /\ e6 = x6
        /\ e7 = x7
    BY DEF Each, Ran
  <2>4. /\ e8 = x8
        /\ e9 = x9
        /\ e10 = x10
    BY DEF Each, Ran
  <2> QED
    BY <2>1, <2>2, <2>3, <2>4
<1>6. GInq2 = r1 \o r2 \o r3 \o r4 \o r5 \o r6 \o r7 \o r8 \o r9 \o r10 \o r11
  BY DEF GInq2
<1> HIDE DEF r1, r2, r3, r4, r5, r6, r7, r8, r9, r10, r11, n1, n2, n3, n4, n5, n6, n7, n8,
             n9, n10, n11, e1, e2, e3, e4, e5, e6, e7, e8, e9, e10, e11, x1, x2, x3, x4, x5,
             x6, x7, x8, x9, x10, x11
<1> DEFINE p1 == r1
           p2 == p1 \o r2
           p3 == p2 \o r3
           p4 == p3 \o r4
           p5 == p4 \o r5
           p6 == p5 \o r6
           p7 == p6 \o r7
           p8 == p7 \o r8
           p9 == p8 \o r9
           p10 == p9 \o r10
           p11 == p10 \o r11
           y1 == x1
           y2 == y1 \cup x2
           y3 == y2 \cup x3
           y4 == y3 \cup x4
           y5 == y4 \cup x5
           y6 == y5 \cup x6
           y7 == y6 \cup x7
           y8 == y7 \cup x8
           y9 == y8 \cup x9
           y10 == y9 \cup x10
           y11 == y10 \cup x11
<1> HIDE DEF p1, p2, p3, p4, p5, p6, p7, p8, p9, p10, p11, y1, y2, y3, y4, y5, y6, y7, y8,
             y9, y10, y11, N1, N2, N3, N4, N5, N6, N7, N8, N9, N10, N11
<1>7. Asks(p1, N1, y1)
  BY <1>4, <1>5 DEF p1, y1, N1
<1>8. Asks(p2, N2, y2)
  BY <1>2, <1>4, <1>5, <1>7, AsksJoins DEF p2, y2, N2
<1>9. Asks(p3, N3, y3)
  BY <1>2, <1>4, <1>5, <1>8, AsksJoins DEF p3, y3, N3
<1>10. Asks(p4, N4, y4)
  BY <1>2, <1>4, <1>5, <1>9, AsksJoins DEF p4, y4, N4
<1>11. Asks(p5, N5, y5)
  BY <1>2, <1>4, <1>5, <1>10, AsksJoins DEF p5, y5, N5
<1>12. Asks(p6, N6, y6)
  BY <1>2, <1>4, <1>5, <1>11, AsksJoins DEF p6, y6, N6
<1>13. Asks(p7, N7, y7)
  BY <1>2, <1>4, <1>5, <1>12, AsksJoins DEF p7, y7, N7
<1>14. Asks(p8, N8, y8)
  BY <1>2, <1>4, <1>5, <1>13, AsksJoins DEF p8, y8, N8
<1>15. Asks(p9, N9, y9)
  BY <1>2, <1>4, <1>5, <1>14, AsksJoins DEF p9, y9, N9
<1>16. Asks(p10, N10, y10)
  BY <1>2, <1>4, <1>5, <1>15, AsksJoins DEF p10, y10, N10
<1>17. Asks(p11, N11, y11)
  BY <1>2, <1>4, <1>5, <1>16, AsksJoins DEF p11, y11, N11
<1>18. y11 = GInq2Shown
  BY DEF x1, x2, x3, x4, x5, x6, x7, x8, x9, x10, x11, y1, y2, y3, y4, y5, y6, y7, y8, y9,
         y10, y11, GInq2Shown
<1>19. GInq2 = p11
  BY <1>6 DEF p1, p2, p3, p4, p5, p6, p7, p8, p9, p10, p11
<1> QED
  BY <1>3, <1>17, <1>18, <1>19

GInq3Names ==
  {"salinityVertMixTendency", "temperatureSurfaceFluxTendency",
   "salinitySurfaceFluxTendency", "temperatureShortWaveTendency",
   "temperatureNonLocalTendency", "salinityNonLocalTendency", "temperature", "salinity"}
GInq3Shown ==
  {<<"salinityVertMixTendency", 2, "double", UL>>,
   <<"temperatureSurfaceFluxTendency", 2, "double", UL>>,
   <<"salinitySurfaceFluxTendency", 2, "double", UL>>,
   <<"temperatureShortWaveTendency", 2, "double", UL>>,
   <<"temperatureNonLocalTendency", 2, "double", UL>>,
   <<"salinityNonLocalTendency", 2, "double", UL>>, <<"temperature", 2, "double", UL>>,
   <<"salinity", 2, "double", UL>>}
LEMMA GInq3Is == Asks(GInq3, GInq3Names, GInq3Shown)
<1> DEFINE n1 == GInq3!1
           r1 == GInq3
           e1 == Each(n1, 2, "double", UL)
           x1 == {<<"salinityVertMixTendency", 2, "double", UL>>,
       <<"temperatureSurfaceFluxTendency", 2, "double", UL>>,
       <<"salinitySurfaceFluxTendency", 2, "double", UL>>,
       <<"temperatureShortWaveTendency", 2, "double", UL>>,
       <<"temperatureNonLocalTendency", 2, "double", UL>>,
       <<"salinityNonLocalTendency", 2, "double", UL>>, <<"temperature", 2, "double", UL>>,
       <<"salinity", 2, "double", UL>>}
           N1 == Ran(n1)
<1>1. IsNames(n1)
  BY DEF IsNames, IsList
<1>2. N1 = GInq3Names
  BY DEF Ran, GInq3Names
<1>3. Asks(r1, Ran(n1), e1)
  BY <1>1, RunAsks DEF GInq3
<1>4. e1 = x1
  BY DEF Each, Ran
<1>5. GInq3 = r1
  BY DEF GInq3
<1> HIDE DEF r1, n1, e1, x1
<1>6. x1 = GInq3Shown
  BY DEF x1, GInq3Shown
<1> QED
  BY <1>2, <1>3, <1>4, <1>5, <1>6 DEF N1

\* ... and together.
LEMMA GPair ==
  ASSUME NEW hist
  PROVE  \E N : Pair(GDefined(hist), GInquired(hist), N, GShapes, 1, 7)
<1>1. /\ Block(GDef1, GDef1Names, GShapes, 2, 7) /\ Table(GDef1, GDef1Names)
      /\ Shown(GDef1) = GDef1Shown
      /\ Block(GDef2, GDef2Names, GShapes, 7, 7) /\ Table(GDef2, GDef2Names)
      /\ Shown(GDef2) = GDef2Shown
      /\ Block(GDef3, GDef3Names, GShapes, 7, 7) /\ Table(GDef3, GDef3Names)
      /\ Shown(GDef3) = GDef3Shown
      /\ Table(GInq1, GInq1Names) /\ Shown(GInq1) = GInq1Shown
      /\ Table(GInq2, GInq2Names) /\ Shown(GInq2) = GInq2Shown
      /\ Table(GInq3, GInq3Names) /\ Shown(GInq3) = GInq3Shown
  BY GDef1Is, GDef2Is, GDef3Is, GInq1Is, GInq2Is, GInq3Is DEF Says, Asks, Block
<1>2. /\ GDef1Names \cap GDef2Names = {}
      /\ (GDef1Names \cup GDef2Names) \cap GDef3Names = {}
  BY DEF GDef1Names, GDef2Names, GDef3Names
<1>3. /\ GInq1Names \cap GInq2Names = {}
      /\ (GInq1Names \cup GInq2Names) \cap GInq3Names = {}
  BY DEF GInq1Names, GInq2Names, GInq3Names
<1>4. GInq1Names \cup GInq2Names \cup GInq3Names = GDef1Names \cup GDef2Names \cup GDef3Names
  BY DEF GInq1Names, GInq2Names, GInq3Names, GDef1Names, GDef2Names, GDef3Names
<1>5. GInq1Shown \cup GInq2Shown \cup GInq3Shown = GDef1Shown \cup GDef2Shown \cup GDef3Shown
  BY DEF GInq1Shown, GInq2Shown, GInq3Shown, GDef1Shown, GDef2Shown, GDef3Shown
<1>6. Block(GDef1 \o GDef2, GDef1Names \cup GDef2Names, GShapes, 2, 7)
  BY <1>1, <1>2, BlockJoins
<1>7. Block((GDef1 \o GDef2) \o GDef3, GDef1Names \cup GDef2Names \cup GDef3Names, GShapes, 1, 7)
  <2>1. Block((GDef1 \o GDef2) \o GDef3, GDef1Names \cup GDef2Names \cup GDef3Names, GShapes, 2, 7)
    BY <1>1, <1>2, <1>6, BlockJoins
  <2> QED
    BY <2>1, BlockWidens
<1>8. Shown((GDef1 \o GDef2) \o GDef3) = GDef1Shown \cup GDef2Shown \cup GDef3Shown
  <2>1. Shown(GDef1 \o GDef2) = GDef1Shown \cup GDef2Shown
    BY <1>1, ShownJoins
  <2>2. Table(GDef1 \o GDef2, GDef1Names \cup GDef2Names)
    BY <1>6 DEF Block
  <2> QED
    BY <1>1, <2>1, <2>2, ShownJoins
<1>9. Table(GInq1 \o GInq2, GInq1Names \cup GInq2Names)
  BY <1>1, <1>3, TableJoins
<1>10. Table((GInq1 \o GInq2) \o GInq3, GInq1Names \cup GInq2Names \cup GInq3Names)
  BY <1>1, <1>3, <1>9, TableJoins
<1>11. Shown((GInq1 \o GInq2) \o GInq3) = GInq1Shown \cup GInq2Shown \cup GInq3Shown
  <2>1. Shown(GInq1 \o GInq2) = GInq1Shown \cup GInq2Shown
    BY <1>1, ShownJoins
  <2> QED
    BY <1>1, <1>9, <2>1, ShownJoins
<1>12. Pair((GDef1 \o GDef2) \o GDef3, (GInq1 \o GInq2) \o GInq3,
            GDef1Names \cup GDef2Names \cup GDef3Names, GShapes, 1, 7)
  BY <1>4, <1>5, <1>7, <1>8, <1>10, <1>11 DEF Pair
<1> QED
  BY <1>12 DEF GDefined, GInquired

-----------------------------------------------------------------------------
(* The lists of the land case.                                             *)

IDef1Names ==
  {"landmask", "pftmask", "levgrnd", "levlak", "levdcmp", "lon", "lat", "area", "topo",
   "landfrac"}
IDef1Shown ==
  {<<"landmask", 0, "int", L \cup FilledInt>>, <<"pftmask", 0, "int", L \cup FilledInt>>,
   <<"levgrnd", -1, "double", UL>>, <<"levlak", -1, "double", UL>>,
   <<"levdcmp", -1, "double", UL>>, <<"lon", -1, "double", UL \cup Filled>>,
   <<"lat", -1, "double", UL \cup Filled>>, <<"area", 0, "double", UL \cup Filled>>,
   <<"topo", 0, "double", UL \cup Filled>>, <<"landfrac", 0, "double", L \cup Filled>>}

\* The parts of header_def_I_case.cpp up to the record variables.
LEMMA IDef1Is == Says(IDef1, IDef1Names, IDef1Shown, IShapes, 2, 3)
<1> DEFINE n1 == IDef1!1!1!1!1!1!1!1!1
           n2 == IDef1!1!1!1!1!1!1!2!1
           n3 == IDef1!1!1!1!1!1!2!1
           n4 == IDef1!1!1!1!1!2!1
           n5 == IDef1!1!1!1!2!1
           n6 == IDef1!1!1!2!1
           n7 == IDef1!1!2!1
           n8 == IDef1!2!1
           r1 == IDef1!1!1!1!1!1!1!1
           r2 == IDef1!1!1!1!1!1!1!2
           r3 == IDef1!1!1!1!1!1!2
           r4 == IDef1!1!1!1!1!2
           r5 == IDef1!1!1!1!2
           r6 == IDef1!1!1!2
           r7 == IDef1!1!2
           r8 == IDef1!2
           e1 == Each(n1, 0, "int", L \cup FilledInt)
           e2 == Each(n2, -1, "double", UL)
           e3 == Each(n3, -1, "double", UL)
           e4 == Each(n4, -1, "double", UL)
           e5 == Each(n5, -1, "double", UL \cup Filled)
           e6 == Each(n6, -1, "double", UL \cup Filled)
           e7 == Each(n7, 0, "double", UL \cup Filled)
           e8 == Each(n8, 0, "double", L \cup Filled)
           x1 == {<<"landmask", 0, "int", L \cup FilledInt>>, <<"pftmask", 0, "int", L \cup FilledInt>>}
           x2 == {<<"levgrnd", -1, "double", UL>>}
           x3 == {<<"levlak", -1, "double", UL>>}
           x4 == {<<"levdcmp", -1, "double", UL>>}
           x5 == {<<"lon", -1, "double", UL \cup Filled>>}
           x6 == {<<"lat", -1, "double", UL \cup Filled>>}
           x7 == {<<"area", 0, "double", UL \cup Filled>>, <<"topo", 0, "double", UL \cup Filled>>}
           x8 == {<<"landfrac", 0, "double", L \cup Filled>>}
           N1 == Ran(n1)
           N2 == N1 \cup Ran(n2)
           N3 == N2 \cup Ran(n3)
           N4 == N3 \cup Ran(n4)
           N5 == N4 \cup Ran(n5)
           N6 == N5 \cup Ran(n6)
           N7 == N6 \cup Ran(n7)
           N8 == N7 \cup Ran(n8)
<1>1. /\ IsNames(n1)
      /\ IsNames(n2)
      /\ IsNames(n3)
      /\ IsNames(n4)
      /\ IsNames(n5)
      /\ IsNames(n6)
      /\ IsNames(n7)
      /\ IsNames(n8)
  <2>1. /\ IsNames(n1)
        /\ IsNames(n2)
        /\ IsNames(n3)
        /\ IsNames(n4)
        /\ IsNames(n5)
        /\ IsNames(n6)
    BY DEF IsNames, IsList
  <2>2. /\ IsNames(n7)
        /\ IsNames(n8)
    BY DEF IsNames, IsList
  <2> QED
    BY <2>1, <2>2
<1>2. /\ N1 \cap Ran(n2) = {}
      /\ N2 \cap Ran(n3) = {}
      /\ N3 \cap Ran(n4) = {}
      /\ N4 \cap Ran(n5) = {}
      /\ N5 \cap Ran(n6) = {}
      /\ N6 \cap Ran(n7) = {}
      /\ N7 \cap Ran(n8) = {}
  BY DEF Ran
<1>3. N8 = IDef1Names
  BY DEF Ran, IDef1Names
<1>4. /\ << <<"lat", "lon">>, "int", 0 >> \in IShapes /\ PlaceOf(<<"lat", "lon">>, "int") = 2
      /\ << <<"levgrnd">>, "double", -1 >> \in IShapes /\ PlaceOf(<<"levgrnd">>, "double") = 3
      /\ << <<"levlak">>, "double", -1 >> \in IShapes /\ PlaceOf(<<"levlak">>, "double") = 3
      /\ << <<"levdcmp">>, "double", -1 >> \in IShapes /\ PlaceOf(<<"levdcmp">>, "double") = 3
      /\ << <<"lon">>, "double", -1 >> \in IShapes /\ PlaceOf(<<"lon">>, "double") = 3
      /\ << <<"lat">>, "double", -1 >> \in IShapes /\ PlaceOf(<<"lat">>, "double") = 3
      /\ << <<"lat", "lon">>, "double", 0 >> \in IShapes /\ PlaceOf(<<"lat", "lon">>, "double") = 3
  <2>1. /\ << <<"lat", "lon">>, "int", 0 >> \in IShapes /\ PlaceOf(<<"lat", "lon">>, "int") = 2
        /\ << <<"levgrnd">>, "double", -1 >> \in IShapes /\ PlaceOf(<<"levgrnd">>, "double") = 3
        /\ << <<"levlak">>, "double", -1 >> \in IShapes /\ PlaceOf(<<"levlak">>, "double") = 3
    BY PlaceIs DEF IShapes
  <2>2. /\ << <<"levdcmp">>, "double", -1 >> \in IShapes /\ PlaceOf(<<"levdcmp">>, "double") = 3
        /\ << <<"lon">>, "double", -1 >> \in IShapes /\ PlaceOf(<<"lon">>, "double") = 3
        /\ << <<"lat">>, "double", -1 >> \in IShapes /\ PlaceOf(<<"lat">>, "double") = 3
    BY PlaceIs DEF IShapes
  <2>3. << <<"lat", "lon">>, "double", 0 >> \in IShapes /\ PlaceOf(<<"lat", "lon">>, "double") = 3
    BY PlaceIs DEF IShapes
  <2> QED
    BY <2>1, <2>2, <2>3
<1>5. /\ Says(r1, Ran(n1), e1, IShapes, 2, 2)
      /\ Says(r2, Ran(n2), e2, IShapes, 3, 3)
      /\ Says(r3, Ran(n3), e3, IShapes, 3, 3)
      /\ Says(r4, Ran(n4), e4, IShapes, 3, 3)
      /\ Says(r5, Ran(n5), e5, IShapes, 3, 3)
      /\ Says(r6, Ran(n6), e6, IShapes, 3, 3)
      /\ Says(r7, Ran(n7), e7, IShapes, 3, 3)
      /\ Says(r8, Ran(n8), e8, IShapes, 3, 3)
  <2>1. Says(r1, Ran(n1), e1, IShapes, 2, 2)
    <3>1. << <<"lat", "lon">>, "int", 0 >> \in IShapes /\ PlaceOf(<<"lat", "lon">>, "int") = 2
      BY <1>4
    <3>2. IsNames(n1)
      BY <1>1
    <3> QED
      BY <3>1, <3>2, RunSays
  <2>2. Says(r2, Ran(n2), e2, IShapes, 3, 3)
    <3>1. << <<"levgrnd">>, "double", -1 >> \in IShapes /\ PlaceOf(<<"levgrnd">>, "double") = 3
      BY <1>4
    <3>2. IsNames(n2)
      BY <1>1
    <3> QED
      BY <3>1, <3>2, RunSays
  <2>3. Says(r3, Ran(n3), e3, IShapes, 3, 3)
    <3>1. << <<"levlak">>, "double", -1 >> \in IShapes /\ PlaceOf(<<"levlak">>, "double") = 3
      BY <1>4
    <3>2. IsNames(n3)
      BY <1>1
    <3> QED
      BY <3>1, <3>2, RunSays
  <2>4. Says(r4, Ran(n4), e4, IShapes, 3, 3)
    <3>1. << <<"levdcmp">>, "double", -1 >> \in IShapes /\ PlaceOf(<<"levdcmp">>, "double") = 3
      BY <1>4
    <3>2. IsNames(n4)
      BY <1>1
    <3> QED
      BY <3>1, <3>2, RunSays
  <2>5. Says(r5, Ran(n5), e5, IShapes, 3, 3)
    <3>1. << <<"lon">>, "double", -1 >> \in IShapes /\ PlaceOf(<<"lon">>, "double") = 3
      BY <1>4
    <3>2. IsNames(n5)
      BY <1>1
    <3> QED
      BY <3>1, <3>2, RunSays
  <2>6. Says(r6, Ran(n6), e6, IShapes, 3, 3)
    <3>1. << <<"lat">>, "double", -1 >> \in IShapes /\ PlaceOf(<<"lat">>, "double") = 3
      BY <1>4
    <3>2. IsNames(n6)
      BY <1>1
    <3> QED
      BY <3>1, <3>2, RunSays
  <2>7. Says(r7, Ran(n7), e7, IShapes, 3, 3)
    <3>1. << <<"lat", "lon">>, "double", 0 >> \in IShapes /\ PlaceOf(<<"lat", "lon">>, "double") = 3
      BY <1>4
    <3>2. IsNames(n7)
      BY <1>1
    <3> QED
      BY <3>1, <3>2, RunSays
  <2>8. Says(r8, Ran(n8), e8, IShapes, 3, 3)
    <3>1. << <<"lat", "lon">>, "double", 0 >> \in IShapes /\ PlaceOf(<<"lat", "lon">>, "double") = 3
      BY <1>4
    <3>2. IsNames(n8)
      BY <1>1
    <3> QED
      BY <3>1, <3>2, RunSays
  <2> QED
    BY <2>1, <2>2, <2>3, <2>4, <2>5, <2>6, <2>7, <2>8
<1>6. /\ e1 = x1
      /\ e2 = x2
      /\ e3 = x3
      /\ e4 = x4
      /\ e5 = x5
      /\ e6 = x6
      /\ e7 = x7
      /\ e8 = x8
  <2>1. /\ e1 = x1
        /\ e2 = x2
        /\ e3 = x3
        /\ e4 = x4
        /\ e5 = x5
        /\ e6 = x6
    BY DEF Each, Ran
  <2>2. /\ e7 = x7
        /\ e8 = x8
    BY DEF Each, Ran
  <2> QED
    BY <2>1, <2>2
<1>7. IDef1 = r1 \o r2 \o r3 \o r4 \o r5 \o r6 \o r7 \o r8
  BY DEF IDef1
<1> HIDE DEF r1, r2, r3, r4, r5, r6, r7, r8, n1, n2, n3, n4, n5, n6, n7, n8, e1, e2, e3, e4,
             e5, e6, e7, e8, x1, x2, x3, x4, x5, x6, x7, x8
<1> DEFINE p1 == r1
           p2 == p1 \o r2
           p3 == p2 \o r3
           p4 == p3 \o r4
           p5 == p4 \o r5
           p6 == p5 \o r6
           p7 == p6 \o r7
           p8 == p7 \o r8
           y1 == x1
           y2 == y1 \cup x2
           y3 == y2 \cup x3
           y4 == y3 \cup x4
           y5 == y4 \cup x5
           y6 == y5 \cup x6
           y7 == y6 \cup x7
           y8 == y7 \cup x8
<1> HIDE DEF p1, p2, p3, p4, p5, p6, p7, p8, y1, y2, y3, y4, y5, y6, y7, y8, N1, N2, N3, N4,
             N5, N6, N7, N8
<1>8. Says(p1, N1, y1, IShapes, 2, 2)
  BY <1>5, <1>6 DEF p1, y1, N1
<1>9. Says(p2, N2, y2, IShapes, 2, 3)
  BY <1>2, <1>5, <1>6, <1>8, SaysJoins DEF p2, y2, N2
<1>10. Says(p3, N3, y3, IShapes, 2, 3)
  BY <1>2, <1>5, <1>6, <1>9, SaysJoins DEF p3, y3, N3
<1>11. Says(p4, N4, y4, IShapes, 2, 3)
  BY <1>2, <1>5, <1>6, <1>10, SaysJoins DEF p4, y4, N4
<1>12. Says(p5, N5, y5, IShapes, 2, 3)
  BY <1>2, <1>5, <1>6, <1>11, SaysJoins DEF p5, y5, N5
<1>13. Says(p6, N6, y6, IShapes, 2, 3)
  BY <1>2, <1>5, <1>6, <1>12, SaysJoins DEF p6, y6, N6
<1>14. Says(p7, N7, y7, IShapes, 2, 3)
  BY <1>2, <1>5, <1>6, <1>13, SaysJoins DEF p7, y7, N7
<1>15. Says(p8, N8, y8, IShapes, 2, 3)
  BY <1>2, <1>5, <1>6, <1>14, SaysJoins DEF p8, y8, N8
<1>16. y8 = IDef1Shown
  BY DEF x1, x2, x3, x4, x5, x6, x7, x8, y1, y2, y3, y4, y5, y6, y7, y8, IDef1Shown
<1>17. IDef1 = p8
  BY <1>7 DEF p1, p2, p3, p4, p5, p6, p7, p8
<1> QED
  BY <1>3, <1>15, <1>16, <1>17

IDef2Names ==
  {"ZSOI", "DZSOI", "WATSAT", "SUCSAT", "BSW", "HKSAT", "ZLAKE", "DZLAKE"}
IDef2Shown ==
  {<<"ZSOI", 1, "double", UL \cup Filled>>, <<"DZSOI", 1, "double", UL \cup Filled>>,
   <<"WATSAT", 1, "double", UL \cup Filled>>, <<"SUCSAT", 1, "double", UL \cup Filled>>,
   <<"BSW", 1, "double", UL \cup Filled>>, <<"HKSAT", 1, "double", UL \cup Filled>>,
   <<"ZLAKE", 2, "double", UL \cup Filled>>, <<"DZLAKE", 2, "double", UL \cup Filled>>}
LEMMA IDef2Is == Says(IDef2, IDef2Names, IDef2Shown, IShapes, 3, 3)
<1> DEFINE n1 == IDef2!1!1
           n2 == IDef2!2!1
           r1 == IDef2!1
           r2 == IDef2!2
           e1 == Each(n1, 1, "double", UL \cup Filled)
           e2 == Each(n2, 2, "double", UL \cup Filled)
           x1 == {<<"ZSOI", 1, "double", UL \cup Filled>>, <<"DZSOI", 1, "double", UL \cup Filled>>,
       <<"WATSAT", 1, "double", UL \cup Filled>>, <<"SUCSAT", 1, "double", UL \cup Filled>>,
       <<"BSW", 1, "double", UL \cup Filled>>, <<"HKSAT", 1, "double", UL \cup Filled>>}
           x2 == {<<"ZLAKE", 2, "double", UL \cup Filled>>, <<"DZLAKE", 2, "double", UL \cup Filled>>}
           N1 == Ran(n1)
           N2 == N1 \cup Ran(n2)
<1>1. /\ IsNames(n1)
      /\ IsNames(n2)
  <2>1. IsNames(n1)
    BY DEF IsNames, IsList
  <2>2. IsNames(n2)
    BY DEF IsNames, IsList
  <2> QED
    BY <2>1, <2>2
<1>2. N1 \cap Ran(n2) = {}
  BY DEF Ran
<1>3. N2 = IDef2Names
  BY DEF Ran, IDef2Names
<1>4. /\ << <<"levgrnd", "lat", "lon">>, "double", 1 >> \in IShapes /\ PlaceOf(<<"levgrnd", "lat", "lon">>, "double") = 3
      /\ << <<"levlak", "lat", "lon">>, "double", 2 >> \in IShapes /\ PlaceOf(<<"levlak", "lat", "lon">>, "double") = 3
  BY PlaceIs DEF IShapes
<1>5. /\ Says(r1, Ran(n1), e1, IShapes, 3, 3)
      /\ Says(r2, Ran(n2), e2, IShapes, 3, 3)
  <2>1. Says(r1, Ran(n1), e1, IShapes, 3, 3)
    <3>1. << <<"levgrnd", "lat", "lon">>, "double", 1 >> \in IShapes /\ PlaceOf(<<"levgrnd", "lat", "lon">>, "double") = 3
      BY <1>4
    <3>2. IsNames(n1)
      BY <1>1
    <3> QED
      BY <3>1, <3>2, RunSays
  <2>2. Says(r2, Ran(n2), e2, IShapes, 3, 3)
    <3>1. << <<"levlak", "lat", "lon">>, "double", 2 >> \in IShapes /\ PlaceOf(<<"levlak", "lat", "lon">>, "double") = 3
      BY <1>4
    <3>2. IsNames(n2)
      BY <1>1
    <3> QED
      BY <3>1, <3>2, RunSays
  <2> QED
    BY <2>1, <2>2
<1>6. /\ e1 = x1
      /\ e2 = x2
  <2>1. e1 = x1
    BY DEF Each, Ran
  <2>2. e2 = x2
    BY DEF Each, Ran
  <2> QED
    BY <2>1, <2>2
<1>7. IDef2 = r1 \o r2
  BY DEF IDef2
<1> HIDE DEF r1, r2, n1, n2, e1, e2, x1, x2
<1> DEFINE p1 == r1
           p2 == p1 \o r2
           y1 == x1
           y2 == y1 \cup x2
<1> HIDE DEF p1, p2, y1, y2, N1, N2
<1>8. Says(p1, N1, y1, IShapes, 3, 3)
  BY <1>5, <1>6 DEF p1, y1, N1
<1>9. Says(p2, N2, y2, IShapes, 3, 3)
  BY <1>2, <1>5, <1>6, <1>8, SaysJoins DEF p2, y2, N2
<1>10. y2 = IDef2Shown
  BY DEF x1, x2, y1, y2, IDef2Shown
<1>11. IDef2 = p2
  BY <1>7 DEF p1, p2
<1> QED
  BY <1>3, <1>9, <1>10, <1>11

IDef3Names ==
  {"date_written", "time_written", "mcdate", "mcsec", "mdcur", "mscur", "nstep",
   "time_bounds", "time"}
IDef3Shown ==
  {<<"date_written", -1, "char", {}>>, <<"time_written", -1, "char", {}>>,
   <<"mcdate", -1, "int", L>>, <<"mcsec", -1, "int", UL>>, <<"mdcur", -1, "int", L>>,
   <<"mscur", -1, "int", L>>, <<"nstep", -1, "int", L>>, <<"time_bounds", -1, "double", L>>,
   <<"time", -1, "double", UL \cup Txt({"bounds", "calendar"})>>}
LEMMA IDef3Is == Says(IDef3, IDef3Names, IDef3Shown, IShapes, 5, 7)
<1> DEFINE n1 == IDef3!1!1!1!1!1!1
           n2 == IDef3!1!1!1!1!2!1
           n3 == IDef3!1!1!1!2!1
           n4 == IDef3!1!1!2!1
           n5 == IDef3!1!2!1
           n6 == IDef3!2!1
           r1 == IDef3!1!1!1!1!1
           r2 == IDef3!1!1!1!1!2
           r3 == IDef3!1!1!1!2
           r4 == IDef3!1!1!2
           r5 == IDef3!1!2
           r6 == IDef3!2
           e1 == Each(n1, -1, "char", {})
           e2 == Each(n2, -1, "int", L)
           e3 == Each(n3, -1, "int", UL)
           e4 == Each(n4, -1, "int", L)
           e5 == Each(n5, -1, "double", L)
           e6 == Each(n6, -1, "double", UL \cup Txt({"bounds", "calendar"}))
           x1 == {<<"date_written", -1, "char", {}>>, <<"time_written", -1, "char", {}>>}
           x2 == {<<"mcdate", -1, "int", L>>}
           x3 == {<<"mcsec", -1, "int", UL>>}
           x4 == {<<"mdcur", -1, "int", L>>, <<"mscur", -1, "int", L>>, <<"nstep", -1, "int", L>>}
           x5 == {<<"time_bounds", -1, "double", L>>}
           x6 == {<<"time", -1, "double", UL \cup Txt({"bounds", "calendar"})>>}
           N1 == Ran(n1)
           N2 == N1 \cup Ran(n2)
           N3 == N2 \cup Ran(n3)
           N4 == N3 \cup Ran(n4)
           N5 == N4 \cup Ran(n5)
           N6 == N5 \cup Ran(n6)
<1>1. /\ IsNames(n1)
      /\ IsNames(n2)
      /\ IsNames(n3)
      /\ IsNames(n4)
      /\ IsNames(n5)
      /\ IsNames(n6)
  BY DEF IsNames, IsList
<1>2. /\ N1 \cap Ran(n2) = {}
      /\ N2 \cap Ran(n3) = {}
      /\ N3 \cap Ran(n4) = {}
      /\ N4 \cap Ran(n5) = {}
      /\ N5 \cap Ran(n6) = {}
  BY DEF Ran
<1>3. N6 = IDef3Names
  BY DEF Ran, IDef3Names
<1>4. /\ << <<"time", "string_length">>, "char", -1 >> \in IShapes /\ PlaceOf(<<"time", "string_length">>, "char") = 5
      /\ << <<"time">>, "int", -1 >> \in IShapes /\ PlaceOf(<<"time">>, "int") = 6
      /\ << <<"time", "hist_interval">>, "double", -1 >> \in IShapes /\ PlaceOf(<<"time", "hist_interval">>, "double") = 7
      /\ << <<"time">>, "double", -1 >> \in IShapes /\ PlaceOf(<<"time">>, "double") = 7
  <2>1. /\ << <<"time", "string_length">>, "char", -1 >> \in IShapes /\ PlaceOf(<<"time", "string_length">>, "char") = 5
        /\ << <<"time">>, "int", -1 >> \in IShapes /\ PlaceOf(<<"time">>, "int") = 6
        /\ << <<"time", "hist_interval">>, "double", -1 >> \in IShapes /\ PlaceOf(<<"time", "hist_interval">>, "double") = 7
    BY PlaceIs DEF IShapes
  <2>2. << <<"time">>, "double", -1 >> \in IShapes /\ PlaceOf(<<"time">>, "double") = 7
    BY PlaceIs DEF IShapes
  <2> QED
    BY <2>1, <2>2
<1>5. /\ Says(r1, Ran(n1), e1, IShapes, 5, 5)
      /\ Says(r2, Ran(n2), e2, IShapes, 6, 6)
      /\ Says(r3, Ran(n3), e3, IShapes, 6, 6)
      /\ Says(r4, Ran(n4), e4, IShapes, 6, 6)
      /\ Says(r5, Ran(n5), e5, IShapes, 7, 7)
      /\ Says(r6, Ran(n6), e6, IShapes, 7, 7)
  <2>1. Says(r1, Ran(n1), e1, IShapes, 5, 5)
    <3>1. << <<"time", "string_length">>, "char", -1 >> \in IShapes /\ PlaceOf(<<"time", "string_length">>, "char") = 5
      BY <1>4
    <3>2. IsNames(n1)
      BY <1>1
    <3> QED
      BY <3>1, <3>2, RunSays
  <2>2. Says(r2, Ran(n2), e2, IShapes, 6, 6)
    <3>1. << <<"time">>, "int", -1 >> \in IShapes /\ PlaceOf(<<"time">>, "int") = 6
      BY <1>4
    <3>2. IsNames(n2)
      BY <1>1
    <3> QED
      BY <3>1, <3>2, RunSays
  <2>3. Says(r3, Ran(n3), e3, IShapes, 6, 6)
    <3>1. << <<"time">>, "int", -1 >> \in IShapes /\ PlaceOf(<<"time">>, "int") = 6
      BY <1>4
    <3>2. IsNames(n3)
      BY <1>1
    <3> QED
      BY <3>1, <3>2, RunSays
  <2>4. Says(r4, Ran(n4), e4, IShapes, 6, 6)
    <3>1. << <<"time">>, "int", -1 >> \in IShapes /\ PlaceOf(<<"time">>, "int") = 6
      BY <1>4
    <3>2. IsNames(n4)
      BY <1>1
    <3> QED
      BY <3>1, <3>2, RunSays
  <2>5. Says(r5, Ran(n5), e5, IShapes, 7, 7)
    <3>1. << <<"time", "hist_interval">>, "double", -1 >> \in IShapes /\ PlaceOf(<<"time", "hist_interval">>, "double") = 7
      BY <1>4
    <3>2. IsNames(n5)
      BY <1>1
    <3> QED
      BY <3>1, <3>2, RunSays
  <2>6. Says(r6, Ran(n6), e6, IShapes, 7, 7)
    <3>1. << <<"time">>, "double", -1 >> \in IShapes /\ PlaceOf(<<"time">>, "double") = 7
      BY <1>4
    <3>2. IsNames(n6)
      BY <1>1
    <3> QED
      BY <3>1, <3>2, RunSays
  <2> QED
    BY <2>1, <2>2, <2>3, <2>4, <2>5, <2>6
<1>6. /\ e1 = x1
      /\ e2 = x2
      /\ e3 = x3
      /\ e4 = x4
      /\ e5 = x5
      /\ e6 = x6
  BY DEF Each, Ran
<1>7. IDef3 = r1 \o r2 \o r3 \o r4 \o r5 \o r6
  BY DEF IDef3
<1> HIDE DEF r1, r2, r3, r4, r5, r6, n1, n2, n3, n4, n5, n6, e1, e2, e3, e4, e5, e6, x1, x2,
             x3, x4, x5, x6
<1> DEFINE p1 == r1
           p2 == p1 \o r2
           p3 == p2 \o r3
           p4 == p3 \o r4
           p5 == p4 \o r5
           p6 == p5 \o r6
           y1 == x1
           y2 == y1 \cup x2
           y3 == y2 \cup x3
           y4 == y3 \cup x4
           y5 == y4 \cup x5
           y6 == y5 \cup x6
<1> HIDE DEF p1, p2, p3, p4, p5, p6, y1, y2, y3, y4, y5, y6, N1, N2, N3, N4, N5, N6
<1>8. Says(p1, N1, y1, IShapes, 5, 5)
  BY <1>5, <1>6 DEF p1, y1, N1
<1>9. Says(p2, N2, y2, IShapes, 5, 6)
  BY <1>2, <1>5, <1>6, <1>8, SaysJoins DEF p2, y2, N2
<1>10. Says(p3, N3, y3, IShapes, 5, 6)
  BY <1>2, <1>5, <1>6, <1>9, SaysJoins DEF p3, y3, N3
<1>11. Says(p4, N4, y4, IShapes, 5, 6)
  BY <1>2, <1>5, <1>6, <1>10, SaysJoins DEF p4, y4, N4
<1>12. Says(p5, N5, y5, IShapes, 5, 7)
  BY <1>2, <1>5, <1>6, <1>11, SaysJoins DEF p5, y5, N5
<1>13. Says(p6, N6, y6, IShapes, 5, 7)
  BY <1>2, <1>5, <1>6, <1>12, SaysJoins DEF p6, y6, N6
<1>14. y6 = IDef3Shown
  BY DEF x1, x2, x3, x4, x5, x6, y1, y2, y3, y4, y5, y6, IDef3Shown
<1>15. IDef3 = p6
  BY <1>7 DEF p1, p2, p3, p4, p5, p6
<1> QED
  BY <1>3, <1>13, <1>14, <1>15

IInq1Names ==
  {"levgrnd", "levlak", "levdcmp", "time", "mcdate", "mcsec", "mdcur", "mscur", "nstep",
   "time_bounds", "date_written", "time_written", "lon", "lat", "area", "topo", "landfrac",
   "landmask", "pftmask"}
IInq1Shown ==
  {<<"levgrnd", -1, "double", UL>>, <<"levlak", -1, "double", UL>>,
   <<"levdcmp", -1, "double", UL>>,
   <<"time", -1, "double", UL \cup Txt({"bounds", "calendar"})>>,
   <<"mcdate", -1, "int", L>>, <<"mcsec", -1, "int", UL>>, <<"mdcur", -1, "int", L>>,
   <<"mscur", -1, "int", L>>, <<"nstep", -1, "int", L>>, <<"time_bounds", -1, "double", L>>,
   <<"date_written", -1, "char", {}>>, <<"time_written", -1, "char", {}>>,
   <<"lon", -1, "double", UL \cup Filled>>, <<"lat", -1, "double", UL \cup Filled>>,
   <<"area", 0, "double", UL \cup Filled>>, <<"topo", 0, "double", UL \cup Filled>>,
   <<"landfrac", 0, "double", L \cup Filled>>, <<"landmask", 0, "int", L \cup FilledInt>>,
   <<"pftmask", 0, "int", L \cup FilledInt>>}

\* The parts of header_inq_I_case.cpp up to the record variables.
LEMMA IInq1Is == Asks(IInq1, IInq1Names, IInq1Shown)
<1> DEFINE n1 == IInq1!1!1!1!1!1!1!1!1!1!1!1
           n2 == IInq1!1!1!1!1!1!1!1!1!1!2!1
           n3 == IInq1!1!1!1!1!1!1!1!1!2!1
           n4 == IInq1!1!1!1!1!1!1!1!2!1
           n5 == IInq1!1!1!1!1!1!1!2!1
           n6 == IInq1!1!1!1!1!1!2!1
           n7 == IInq1!1!1!1!1!2!1
           n8 == IInq1!1!1!1!2!1
           n9 == IInq1!1!1!2!1
           n10 == IInq1!1!2!1
           n11 == IInq1!2!1
           r1 == IInq1!1!1!1!1!1!1!1!1!1!1
           r2 == IInq1!1!1!1!1!1!1!1!1!1!2
           r3 == IInq1!1!1!1!1!1!1!1!1!2
           r4 == IInq1!1!1!1!1!1!1!1!2
           r5 == IInq1!1!1!1!1!1!1!2
           r6 == IInq1!1!1!1!1!1!2
           r7 == IInq1!1!1!1!1!2
           r8 == IInq1!1!1!1!2
           r9 == IInq1!1!1!2
           r10 == IInq1!1!2
           r11 == IInq1!2
           e1 == Each(n1, -1, "double", UL)
           e2 == Each(n2, -1, "double", UL \cup Txt({"bounds", "calendar"}))
           e3 == Each(n3, -1, "int", L)
           e4 == Each(n4, -1, "int", UL)
           e5 == Each(n5, -1, "int", L)
           e6 == Each(n6, -1, "double", L)
           e7 == Each(n7, -1, "char", {})
           e8 == Each(n8, -1, "double", UL \cup Filled)
           e9 == Each(n9, 0, "double", UL \cup Filled)
           e10 == Each(n10, 0, "double", L \cup Filled)
           e11 == Each(n11, 0, "int", L \cup FilledInt)
           x1 == {<<"levgrnd", -1, "double", UL>>, <<"levlak", -1, "double", UL>>,
       <<"levdcmp", -1, "double", UL>>}
           x2 == {<<"time", -1, "double", UL \cup Txt({"bounds", "calendar"})>>}
           x3 == {<<"mcdate", -1, "int", L>>}
           x4 == {<<"mcsec", -1, "int", UL>>}
           x5 == {<<"mdcur", -1, "int", L>>, <<"mscur", -1, "int", L>>, <<"nstep", -1, "int", L>>}
           x6 == {<<"time_bounds", -1, "double", L>>}
           x7 == {<<"date_written", -1, "char", {}>>, <<"time_written", -1, "char", {}>>}
           x8 == {<<"lon", -1, "double", UL \cup Filled>>, <<"lat", -1, "double", UL \cup Filled>>}
           x9 == {<<"area", 0, "double", UL \cup Filled>>, <<"topo", 0, "double", UL \cup Filled>>}
           x10 == {<<"landfrac", 0, "double", L \cup Filled>>}
           x11 == {<<"landmask", 0, "int", L \cup FilledInt>>, <<"pftmask", 0, "int", L \cup FilledInt>>}
           N1 == Ran(n1)
           N2 == N1 \cup Ran(n2)
           N3 == N2 \cup Ran(n3)
           N4 == N3 \cup Ran(n4)
           N5 == N4 \cup Ran(n5)
           N6 == N5 \cup Ran(n6)
           N7 == N6 \cup Ran(n7)
           N8 == N7 \cup Ran(n8)
           N9 == N8 \cup Ran(n9)
           N10 == N9 \cup Ran(n10)
           N11 == N10 \cup Ran(n11)
<1>1. /\ IsNames(n1)
      /\ IsNames(n2)
      /\ IsNames(n3)
      /\ IsNames(n4)
      /\ IsNames(n5)
      /\ IsNames(n6)
      /\ IsNames(n7)
      /\ IsNames(n8)
      /\ IsNames(n9)
      /\ IsNames(n10)
      /\ IsNames(n11)
  <2>1. /\ IsNames(n1)
        /\ IsNames(n2)
        /\ IsNames(n3)
        /\ IsNames(n4)
        /\ IsNames(n5)
        /\ IsNames(n6)
    BY DEF IsNames, IsList
  <2>2. /\ IsNames(n7)
        /\ IsNames(n8)
        /\ IsNames(n9)
        /\ IsNames(n10)
        /\ IsNames(n11)
    BY DEF IsNames, IsList
  <2> QED
    BY <2>1, <2>2
<1>2. /\ N1 \cap Ran(n2) = {}
      /\ N2 \cap Ran(n3) = {}
      /\ N3 \cap Ran(n4) = {}
      /\ N4 \cap Ran(n5) = {}
      /\ N5 \cap Ran(n6) = {}
      /\ N6 \cap Ran(n7) = {}
      /\ N7 \cap Ran(n8) = {}
      /\ N8 \cap Ran(n9) = {}
      /\ N9 \cap Ran(n10) = {}
      /\ N10 \cap Ran(n11) = {}
  BY DEF Ran
<1>3. N11 = IInq1Names
  BY DEF Ran, IInq1Names
<1>4. /\ Asks(r1, Ran(n1), e1)
      /\ Asks(r2, Ran(n2), e2)
      /\ Asks(r3, Ran(n3), e3)
      /\ Asks(r4, Ran(n4), e4)
      /\ Asks(r5, Ran(n5), e5)
      /\ Asks(r6, Ran(n6), e6)
      /\ Asks(r7, Ran(n7), e7)
      /\ Asks(r8, Ran(n8), e8)
      /\ Asks(r9, Ran(n9), e9)
      /\ Asks(r10, Ran(n10), e10)
      /\ Asks(r11, Ran(n11), e11)
  <2>1. Asks(r1, Ran(n1), e1)
    BY <1>1, RunAsks
  <2>2. Asks(r2, Ran(n2), e2)
    BY <1>1, RunAsks
  <2>3. Asks(r3, Ran(n3), e3)
    BY <1>1, RunAsks
  <2>4. Asks(r4, Ran(n4), e4)
    BY <1>1, RunAsks
  <2>5. Asks(r5, Ran(n5), e5)
    BY <1>1, RunAsks
  <2>6. Asks(r6, Ran(n6), e6)
    BY <1>1, RunAsks
  <2>7. Asks(r7, Ran(n7), e7)
    BY <1>1, RunAsks
  <2>8. Asks(r8, Ran(n8), e8)
    BY <1>1, RunAsks
  <2>9. Asks(r9, Ran(n9), e9)
    BY <1>1, RunAsks
  <2>10. Asks(r10, Ran(n10), e10)
    BY <1>1, RunAsks
  <2>11. Asks(r11, Ran(n11), e11)
    BY <1>1, RunAsks
  <2> QED
    BY <2>1, <2>2, <2>3, <2>4, <2>5, <2>6, <2>7, <2>8, <2>9, <2>10, <2>11
<1>5. /\ e1 = x1
      /\ e2 = x2
      /\ e3 = x3
      /\ e4 = x4
      /\ e5 = x5
      /\ e6 = x6
      /\ e7 = x7
      /\ e8 = x8
      /\ e9 = x9
      /\ e10 = x10
      /\ e11 = x11
  <2>1. /\ e1 = x1
        /\ e2 = x2
        /\ e3 = x3
        /\ e4 = x4
        /\ e5 = x5
        /\ e6 = x6
    BY DEF Each, Ran
  <2>2. /\ e7 = x7
        /\ e8 = x8
        /\ e9 = x9
        /\ e10 = x10
        /\ e11 = x11
    BY DEF Each, Ran
  <2> QED
    BY <2>1, <2>2
<1>6. IInq1 = r1 \o r2 \o r3 \o r4 \o r5 \o r6 \o r7 \o r8 \o r9 \o r10 \o r11
  BY DEF IInq1
<1> HIDE DEF r1, r2, r3, r4, r5, r6, r7, r8, r9, r10, r11, n1, n2, n3, n4, n5, n6, n7, n8,
             n9, n10, n11, e1, e2, e3, e4, e5, e6, e7, e8, e9, e10, e11, x1, x2, x3, x4, x5,
             x6, x7, x8, x9, x10, x11
<1> DEFINE p1 == r1
           p2 == p1 \o r2
           p3 == p2 \o r3
           p4 == p3 \o r4
           p5 == p4 \o r5
           p6 == p5 \o r6
           p7 == p6 \o r7
           p8 == p7 \o r8
           p9 == p8 \o r9
           p10 == p9 \o r10
           p11 == p10 \o r11
           y1 == x1
           y2 == y1 \cup x2
           y3 == y2 \cup x3
           y4 == y3 \cup x4
           y5 == y4 \cup x5
           y6 == y5 \cup x6
           y7 == y6 \cup x7
           y8 == y7 \cup x8
           y9 == y8 \cup x9
           y10 == y9 \cup x10
           y11 == y10 \cup x11
<1> HIDE DEF p1, p2, p3, p4, p5, p6, p7, p8, p9, p10, p11, y1, y2, y3, y4, y5, y6, y7, y8,
             y9, y10, y11, N1, N2, N3, N4, N5, N6, N7, N8, N9, N10, N11
<1>7. Asks(p1, N1, y1)
  BY <1>4, <1>5 DEF p1, y1, N1
<1>8. Asks(p2, N2, y2)
  BY <1>2, <1>4, <1>5, <1>7, AsksJoins DEF p2, y2, N2
<1>9. Asks(p3, N3, y3)
  BY <1>2, <1>4, <1>5, <1>8, AsksJoins DEF p3, y3, N3
<1>10. Asks(p4, N4, y4)
  BY <1>2, <1>4, <1>5, <1>9, AsksJoins DEF p4, y4, N4
<1>11. Asks(p5, N5, y5)
  BY <1>2, <1>4, <1>5, <1>10, AsksJoins DEF p5, y5, N5
<1>12. Asks(p6, N6, y6)
  BY <1>2, <1>4, <1>5, <1>11, AsksJoins DEF p6, y6, N6
<1>13. Asks(p7, N7, y7)
  BY <1>2, <1>4, <1>5, <1>12, AsksJoins DEF p7, y7, N7
<1>14. Asks(p8, N8, y8)
  BY <1>2, <1>4, <1>5, <1>13, AsksJoins DEF p8, y8, N8
<1>15. Asks(p9, N9, y9)
  BY <1>2, <1>4, <1>5, <1>14, AsksJoins DEF p9, y9, N9
<1>16. Asks(p10, N10, y10)
  BY <1>2, <1>4, <1>5, <1>15, AsksJoins DEF p10, y10, N10
<1>17. Asks(p11, N11, y11)
  BY <1>2, <1>4, <1>5, <1>16, AsksJoins DEF p11, y11, N11
<1>18. y11 = IInq1Shown
  BY DEF x1, x2, x3, x4, x5, x6, x7, x8, x9, x10, x11, y1, y2, y3, y4, y5, y6, y7, y8, y9,
         y10, y11, IInq1Shown
<1>19. IInq1 = p11
  BY <1>6 DEF p1, p2, p3, p4, p5, p6, p7, p8, p9, p10, p11
<1> QED
  BY <1>3, <1>17, <1>18, <1>19

IInq2Names ==
  {"ZSOI", "DZSOI", "WATSAT", "SUCSAT", "BSW", "HKSAT", "ZLAKE", "DZLAKE"}
IInq2Shown ==
  {<<"ZSOI", 1, "double", UL \cup Filled>>, <<"DZSOI", 1, "double", UL \cup Filled>>,
   <<"WATSAT", 1, "double", UL \cup Filled>>, <<"SUCSAT", 1, "double", UL \cup Filled>>,
   <<"BSW", 1, "double", UL \cup Filled>>, <<"HKSAT", 1, "double", UL \cup Filled>>,
   <<"ZLAKE", 2, "double", UL \cup Filled>>, <<"DZLAKE", 2, "double", UL \cup Filled>>}
LEMMA IInq2Is == Asks(IInq2, IInq2Names, IInq2Shown)
<1> DEFINE n1 == IInq2!1!1
           n2 == IInq2!2!1
           r1 == IInq2!1
           r2 == IInq2!2
           e1 == Each(n1, 1, "double", UL \cup Filled)
           e2 == Each(n2, 2, "double", UL \cup Filled)
           x1 == {<<"ZSOI", 1, "double", UL \cup Filled>>, <<"DZSOI", 1, "double", UL \cup Filled>>,
       <<"WATSAT", 1, "double", UL \cup Filled>>, <<"SUCSAT", 1, "double", UL \cup Filled>>,
       <<"BSW", 1, "double", UL \cup Filled>>, <<"HKSAT", 1, "double", UL \cup Filled>>}
           x2 == {<<"ZLAKE", 2, "double", UL \cup Filled>>, <<"DZLAKE", 2, "double", UL \cup Filled>>}
           N1 == Ran(n1)
           N2 == N1 \cup Ran(n2)
<1>1. /\ IsNames(n1)
      /\ IsNames(n2)
  <2>1. IsNames(n1)
    BY DEF IsNames, IsList
  <2>2. IsNames(n2)
    BY DEF IsNames, IsList
  <2> QED
    BY <2>1, <2>2
<1>2. N1 \cap Ran(n2) = {}
  BY DEF Ran
<1>3. N2 = IInq2Names
  BY DEF Ran, IInq2Names
<1>4. /\ Asks(r1, Ran(n1), e1)
      /\ Asks(r2, Ran(n2), e2)
  <2>1. Asks(r1, Ran(n1), e1)
    BY <1>1, RunAsks
  <2>2. Asks(r2, Ran(n2), e2)
    BY <1>1, RunAsks
  <2> QED
    BY <2>1, <2>2
<1>5. /\ e1 = x1
      /\ e2 = x2
  <2>1. e1 = x1
    BY DEF Each, Ran
  <2>2. e2 = x2
    BY DEF Each, Ran
  <2> QED
    BY <2>1, <2>2
<1>6. IInq2 = r1 \o r2
  BY DEF IInq2
<1> HIDE DEF r1, r2, n1, n2, e1, e2, x1, x2
<1> DEFINE p1 == r1
           p2 == p1 \o r2
           y1 == x1
           y2 == y1 \cup x2
<1> HIDE DEF p1, p2, y1, y2, N1, N2
<1>7. Asks(p1, N1, y1)
  BY <1>4, <1>5 DEF p1, y1, N1
<1>8. Asks(p2, N2, y2)
  BY <1>2, <1>4, <1>5, <1>7, AsksJoins DEF p2, y2, N2
<1>9. y2 = IInq2Shown
  BY DEF x1, x2, y1, y2, IInq2Shown
<1>10. IInq2 = p2
  BY <1>6 DEF p1, p2
<1> QED
  BY <1>3, <1>8, <1>9, <1>10

INames4 ==
  {"ACTUAL_IMMOB", "ACTUAL_IMMOB_P", "ADSORBTION_P", "AGNPP", "AGWDNPP", "ALT", "ALTMAX",
   "ALTMAX_LASTYEAR", "AR", "AVAILC", "AVAIL_RETRANSP", "BAF_CROP", "BAF_PEATF"}

\* The parts of header_def_I_case.cpp and header_inq_I_case.cpp that follow
\* name the same variables.
LEMMA IList4 == Alike(IDef4, IInq3, INames4, IShapes)
<1> DEFINE n == IDef4!1
<1>1. IsNames(n) /\ Ran(n) = INames4
  <2>1. IsNames(n)
    BY DEF IsNames, IsList
  <2>2. Ran(n) = INames4
    BY DEF Ran, INames4
  <2> QED
    BY <2>1, <2>2
<1>2. Alike(IDef4, IInq3, Ran(n), IShapes)
  BY <1>1, GridAlike DEF IDef4, IInq3
<1> QED
  BY <1>1, <1>2

INames5 ==
  {"BCDEP", "BGNPP", "BIOCHEM_PMIN", "BIOCHEM_PMIN_TO_PLANT", "BTRAN", "BUILDHEAT",
   "CH4PROD", "CH4_SURF_AERE_SAT", "CH4_SURF_AERE_UNSAT", "CH4_SURF_DIFF_SAT",
   "CH4_SURF_DIFF_UNSAT", "CH4_SURF_EBUL_SAT", "CH4_SURF_EBUL_UNSAT"}
LEMMA IList5 == Alike(IDef5, IInq4, INames5, IShapes)
<1> DEFINE n == IDef5!1
<1>1. IsNames(n) /\ Ran(n) = INames5
  <2>1. IsNames(n)
    BY DEF IsNames, IsList
  <2>2. Ran(n) = INames5
    BY DEF Ran, INames5
  <2> QED
    BY <2>1, <2>2
<1>2. Alike(IDef5, IInq4, Ran(n), IShapes)
  BY <1>1, GridAlike DEF IDef5, IInq4
<1> QED
  BY <1>1, <1>2

INames6 ==
  {"COL_PTRUNC", "CONC_CH4_SAT", "CONC_CH4_UNSAT", "CONC_O2_SAT", "CONC_O2_UNSAT", "CPOOL",
   "CWDC", "CWDC_HR", "CWDC_LOSS", "CWDC_TO_LITR2C", "CWDC_TO_LITR3C", "CWDC_vr", "CWDN"}
LEMMA IList6 == Alike(IDef6, IInq5, INames6, IShapes)
<1> DEFINE n1 == IDef6!1!1!1!1!1
           n2 == IDef6!1!1!1!2!2
           n3 == IDef6!1!1!2!1
           n4 == IDef6!1!2!2
           n5 == IDef6!2!1
           s1 == IDef6!1!1!1!1   u1 == IInq5!1!1!1!1
           s2 == IDef6!1!1!1!2   u2 == IInq5!1!1!1!2
           s3 == IDef6!1!1!2   u3 == IInq5!1!1!2
           s4 == IDef6!1!2   u4 == IInq5!1!2
           s5 == IDef6!2   u5 == IInq5!2
           N1 == Ran(n1)
           N2 == N1 \cup Ran(n2)
           N3 == N2 \cup Ran(n3)
           N4 == N3 \cup Ran(n4)
           N5 == N4 \cup Ran(n5)
<1>1. /\ IsNames(n1)
      /\ IsNames(n2)
      /\ IsNames(n3)
      /\ IsNames(n4)
      /\ IsNames(n5)
  BY DEF IsNames, IsList
<1>2. /\ N1 \cap Ran(n2) = {}
      /\ N2 \cap Ran(n3) = {}
      /\ N3 \cap Ran(n4) = {}
      /\ N4 \cap Ran(n5) = {}
  BY DEF Ran
<1>3. N5 = INames6
  BY DEF Ran, INames6
<1>4. /\ Alike(s1, u1, Ran(n1), IShapes)
      /\ Alike(s2, u2, Ran(n2), IShapes)
      /\ Alike(s3, u3, Ran(n3), IShapes)
      /\ Alike(s4, u4, Ran(n4), IShapes)
      /\ Alike(s5, u5, Ran(n5), IShapes)
  BY <1>1, GridAlike, LevelsAlike
<1>5. /\ IDef6 = s1 \o s2 \o s3 \o s4 \o s5
      /\ IInq5 = u1 \o u2 \o u3 \o u4 \o u5
  BY DEF IDef6, IInq5
<1> HIDE DEF s1, s2, s3, s4, s5, u1, u2, u3, u4, u5, n1, n2, n3, n4, n5
<1> QED
  BY <1>2, <1>3, <1>4, <1>5, AlikeJoins

INames7 ==
  {"CWDN_TO_LITR2N", "CWDN_TO_LITR3N", "CWDN_vr", "CWDP", "CWDP_TO_LITR2P",
   "CWDP_TO_LITR3P", "CWDP_vr", "DEADCROOTC", "DEADCROOTN", "DEADCROOTP", "DEADSTEMC",
   "DEADSTEMN", "DEADSTEMP"}
LEMMA IList7 == Alike(IDef7, IInq6, INames7, IShapes)
<1> DEFINE n1 == IDef7!1!1!1!1!1
           n2 == IDef7!1!1!1!2!2
           n3 == IDef7!1!1!2!1
           n4 == IDef7!1!2!2
           n5 == IDef7!2!1
           s1 == IDef7!1!1!1!1   u1 == IInq6!1!1!1!1
           s2 == IDef7!1!1!1!2   u2 == IInq6!1!1!1!2
           s3 == IDef7!1!1!2   u3 == IInq6!1!1!2
           s4 == IDef7!1!2   u4 == IInq6!1!2
           s5 == IDef7!2   u5 == IInq6!2
           N1 == Ran(n1)
           N2 == N1 \cup Ran(n2)
           N3 == N2 \cup Ran(n3)
           N4 == N3 \cup Ran(n4)
           N5 == N4 \cup Ran(n5)
<1>1. /\ IsNames(n1)
      /\ IsNames(n2)
      /\ IsNames(n3)
      /\ IsNames(n4)
      /\ IsNames(n5)
  BY DEF IsNames, IsList
<1>2. /\ N1 \cap Ran(n2) = {}
      /\ N2 \cap Ran(n3) = {}
      /\ N3 \cap Ran(n4) = {}
      /\ N4 \cap Ran(n5) = {}
  BY DEF Ran
<1>3. N5 = INames7
  BY DEF Ran, INames7
<1>4. /\ Alike(s1, u1, Ran(n1), IShapes)
      /\ Alike(s2, u2, Ran(n2), IShapes)
      /\ Alike(s3, u3, Ran(n3), IShapes)
      /\ Alike(s4, u4, Ran(n4), IShapes)
      /\ Alike(s5, u5, Ran(n5), IShapes)
  BY <1>1, GridAlike, LevelsAlike
<1>5. /\ IDef7 = s1 \o s2 \o s3 \o s4 \o s5
      /\ IInq6 = u1 \o u2 \o u3 \o u4 \o u5
  BY DEF IDef7, IInq6
<1> HIDE DEF s1, s2, s3, s4, s5, u1, u2, u3, u4, u5, n1, n2, n3, n4, n5
<1> QED
  BY <1>2, <1>3, <1>4, <1>5, AlikeJoins

INames8 ==
  {"DEFICIT", "DENIT", "DESORPTION_P", "DISPVEGC", "DISPVEGN", "DISPVEGP", "DSTDEP",
   "DSTFLXT", "DWB", "DWT_CONV_CFLUX_DRIBBLED", "DWT_CONV_CFLUX_GRC", "DWT_CONV_NFLUX_GRC",
   "DWT_CONV_PFLUX_GRC"}
LEMMA IList8 == Alike(IDef8, IInq7, INames8, IShapes)
<1> DEFINE n == IDef8!1
<1>1. IsNames(n) /\ Ran(n) = INames8
  <2>1. IsNames(n)
    BY DEF IsNames, IsList
  <2>2. Ran(n) = INames8
    BY DEF Ran, INames8
  <2> QED
    BY <2>1, <2>2
<1>2. Alike(IDef8, IInq7, Ran(n), IShapes)
  BY <1>1, GridAlike DEF IDef8, IInq7
<1> QED
  BY <1>1, <1>2

INames9 ==
  {"DWT_SLASH_CFLUX", "DWT_SLASH_NFLUX", "DWT_SLASH_PFLUX", "EFLX_DYNBAL", "EFLX_GRND_LAKE",
   "EFLX_LH_TOT", "EFLX_LH_TOT_R", "EFLX_LH_TOT_U", "ELAI", "ER", "ERRH2O", "ERRH2OSNO",
   "ERRSEB"}
LEMMA IList9 == Alike(IDef9, IInq8, INames9, IShapes)
<1> DEFINE n == IDef9!1
<1>1. IsNames(n) /\ Ran(n) = INames9
  <2>1. IsNames(n)
    BY DEF IsNames, IsList
  <2>2. Ran(n) = INames9
    BY DEF Ran, INames9
  <2> QED
    BY <2>1, <2>2
<1>2. Alike(IDef9, IInq8, Ran(n), IShapes)
  BY <1>1, GridAlike DEF IDef9, IInq8
<1> QED
  BY <1>1, <1>2

INames10 ==
  {"ERRSOI", "ERRSOL", "ESAI", "FAREA_BURNED", "FCEV", "FCH4", "FCH4TOCO2", "FCH4_DFSAT",
   "FCOV", "FCTR", "FGEV", "FGR", "FGR12"}
LEMMA IList10 == Alike(IDef10, IInq9, INames10, IShapes)
<1> DEFINE n == IDef10!1
<1>1. IsNames(n) /\ Ran(n) = INames10
  <2>1. IsNames(n)
    BY DEF IsNames, IsList
  <2>2. Ran(n) = INames10
    BY DEF Ran, INames10
  <2> QED
    BY <2>1, <2>2
<1>2. Alike(IDef10, IInq9, Ran(n), IShapes)
  BY <1>1, GridAlike DEF IDef10, IInq9
<1> QED
  BY <1>1, <1>2

INames11 ==
  {"FGR_R", "FGR_U", "FH2OSFC", "FINUNDATED", "FINUNDATED_LAG", "FIRA", "FIRA_R", "FIRA_U",
   "FIRE", "FIRE_R", "FIRE_U", "FLDS", "FPG"}
LEMMA IList11 == Alike(IDef11, IInq10, INames11, IShapes)
<1> DEFINE n == IDef11!1
<1>1. IsNames(n) /\ Ran(n) = INames11
  <2>1. IsNames(n)
    BY DEF IsNames, IsList
  <2>2. Ran(n) = INames11
    BY DEF Ran, INames11
  <2> QED
    BY <2>1, <2>2
<1>2. Alike(IDef11, IInq10, Ran(n), IShapes)
  BY <1>1, GridAlike DEF IDef11, IInq10
<1> QED
  BY <1>1, <1>2

INames12 ==
  {"FPG_P", "FPI", "FPI_P", "FPI_P_vr", "FPI_vr", "FPSN", "FPSN_WC", "FPSN_WJ", "FPSN_WP",
   "FROOTC", "FROOTC_ALLOC", "FROOTC_LOSS", "FROOTN"}
LEMMA IList12 == Alike(IDef12, IInq11, INames12, IShapes)
<1> DEFINE n1 == IDef12!1!1!1
           n2 == IDef12!1!2!2
           n3 == IDef12!2!1
           s1 == IDef12!1!1   u1 == IInq11!1!1
           s2 == IDef12!1!2   u2 == IInq11!1!2
           s3 == IDef12!2   u3 == IInq11!2
           N1 == Ran(n1)
           N2 == N1 \cup Ran(n2)
           N3 == N2 \cup Ran(n3)
<1>1. /\ IsNames(n1)
      /\ IsNames(n2)
      /\ IsNames(n3)
  <2>1. IsNames(n3)
    BY DEF IsNames, IsList
  <2>2. /\ IsNames(n1)
        /\ IsNames(n2)
    BY DEF IsNames, IsList
  <2> QED
    BY <2>1, <2>2
<1>2. /\ N1 \cap Ran(n2) = {}
      /\ N2 \cap Ran(n3) = {}
  BY DEF Ran
<1>3. N3 = INames12
  BY DEF Ran, INames12
<1>4. /\ Alike(s1, u1, Ran(n1), IShapes)
      /\ Alike(s2, u2, Ran(n2), IShapes)
      /\ Alike(s3, u3, Ran(n3), IShapes)
  BY <1>1, GridAlike, LevelsAlike
<1>5. /\ IDef12 = s1 \o s2 \o s3
      /\ IInq11 = u1 \o u2 \o u3
  BY DEF IDef12, IInq11
<1> HIDE DEF s1, s2, s3, u1, u2, u3, n1, n2, n3
<1> QED
  BY <1>2, <1>3, <1>4, <1>5, AlikeJoins

INames13 ==
  {"FROOTP", "FROST_TABLE", "FSA", "FSAT", "FSA_R", "FSA_U", "FSDS", "FSDSND", "FSDSNDLN",
   "FSDSNI", "FSDSVD", "FSDSVDLN", "FSDSVI"}
LEMMA IList13 == Alike(IDef13, IInq12, INames13, IShapes)
<1> DEFINE n == IDef13!1
<1>1. IsNames(n) /\ Ran(n) = INames13
  <2>1. IsNames(n)
    BY DEF IsNames, IsList
  <2>2. Ran(n) = INames13
    BY DEF Ran, INames13
  <2> QED
    BY <2>1, <2>2
<1>2. Alike(IDef13, IInq12, Ran(n), IShapes)
  BY <1>1, GridAlike DEF IDef13, IInq12
<1> QED
  BY <1>1, <1>2

INames14 ==
  {"FSDSVILN", "FSH", "FSH_G", "FSH_NODYNLNDUSE", "FSH_R", "FSH_U", "FSH_V", "FSM", "FSM_R",
   "FSM_U", "FSNO", "FSNO_EFF", "FSR"}
LEMMA IList14 == Alike(IDef14, IInq13, INames14, IShapes)
<1> DEFINE n == IDef14!1
<1>1. IsNames(n) /\ Ran(n) = INames14
  <2>1. IsNames(n)
    BY DEF IsNames, IsList
  <2>2. Ran(n) = INames14
    BY DEF Ran, INames14
  <2> QED
    BY <2>1, <2>2
<1>2. Alike(IDef14, IInq13, Ran(n), IShapes)
  BY <1>1, GridAlike DEF IDef14, IInq13
<1> QED
  BY <1>1, <1>2

INames15 ==
  {"FSRND", "FSRNDLN", "FSRNI", "FSRVD", "FSRVDLN", "FSRVI", "F_CO2_SOIL", "F_CO2_SOIL_vr",
   "F_DENIT", "F_DENIT_vr", "F_N2O_DENIT", "F_N2O_NIT", "F_NIT"}
LEMMA IList15 == Alike(IDef15, IInq14, INames15, IShapes)
<1> DEFINE n1 == IDef15!1!1!1!1!1
           n2 == IDef15!1!1!1!2!2
           n3 == IDef15!1!1!2!1
           n4 == IDef15!1!2!2
           n5 == IDef15!2!1
           s1 == IDef15!1!1!1!1   u1 == IInq14!1!1!1!1
           s2 == IDef15!1!1!1!2   u2 == IInq14!1!1!1!2
           s3 == IDef15!1!1!2   u3 == IInq14!1!1!2
           s4 == IDef15!1!2   u4 == IInq14!1!2
           s5 == IDef15!2   u5 == IInq14!2
           N1 == Ran(n1)
           N2 == N1 \cup Ran(n2)
           N3 == N2 \cup Ran(n3)
           N4 == N3 \cup Ran(n4)
           N5 == N4 \cup Ran(n5)
<1>1. /\ IsNames(n1)
      /\ IsNames(n2)
      /\ IsNames(n3)
      /\ IsNames(n4)
      /\ IsNames(n5)
  <2>1. IsNames(n1)
    BY DEF IsNames, IsList
  <2>2. /\ IsNames(n2)
        /\ IsNames(n3)
        /\ IsNames(n4)
        /\ IsNames(n5)
    BY DEF IsNames, IsList
  <2> QED
    BY <2>1, <2>2
<1>2. /\ N1 \cap Ran(n2) = {}
      /\ N2 \cap Ran(n3) = {}
      /\ N3 \cap Ran(n4) = {}
      /\ N4 \cap Ran(n5) = {}
  BY DEF Ran
<1>3. N5 = INames15
  BY DEF Ran, INames15
<1>4. /\ Alike(s1, u1, Ran(n1), IShapes)
      /\ Alike(s2, u2, Ran(n2), IShapes)
      /\ Alike(s3, u3, Ran(n3), IShapes)
      /\ Alike(s4, u4, Ran(n4), IShapes)
      /\ Alike(s5, u5, Ran(n5), IShapes)
  BY <1>1, GridAlike, LevelsAlike
<1>5. /\ IDef15 = s1 \o s2 \o s3 \o s4 \o s5
      /\ IInq14 = u1 \o u2 \o u3 \o u4 \o u5
  BY DEF IDef15, IInq14
<1> HIDE DEF s1, s2, s3, s4, s5, u1, u2, u3, u4, u5, n1, n2, n3, n4, n5
<1> QED
  BY <1>2, <1>3, <1>4, <1>5, AlikeJoins

INames16 ==
  {"F_NIT_vr", "GC_HEAT1", "GC_ICE1", "GC_LIQ1", "GPP", "GR", "GROSS_NMIN", "GROSS_PMIN",
   "H2OCAN", "H2OSFC", "H2OSNO", "H2OSNO_TOP", "H2OSOI"}
LEMMA IList16 == Alike(IDef16, IInq15, INames16, IShapes)
<1> DEFINE n1 == IDef16!1!1!2
           n2 == IDef16!1!2!1
           n3 == IDef16!2!2
           s1 == IDef16!1!1   u1 == IInq15!1!1
           s2 == IDef16!1!2   u2 == IInq15!1!2
           s3 == IDef16!2   u3 == IInq15!2
           N1 == Ran(n1)
           N2 == N1 \cup Ran(n2)
           N3 == N2 \cup Ran(n3)
<1>1. /\ IsNames(n1)
      /\ IsNames(n2)
      /\ IsNames(n3)
  <2>1. IsNames(n2)
    BY DEF IsNames, IsList
  <2>2. /\ IsNames(n1)
        /\ IsNames(n3)
    BY DEF IsNames, IsList
  <2> QED
    BY <2>1, <2>2
<1>2. /\ N1 \cap Ran(n2) = {}
      /\ N2 \cap Ran(n3) = {}
  BY DEF Ran
<1>3. N3 = INames16
  BY DEF Ran, INames16
<1>4. /\ Alike(s1, u1, Ran(n1), IShapes)
      /\ Alike(s2, u2, Ran(n2), IShapes)
      /\ Alike(s3, u3, Ran(n3), IShapes)
  BY <1>1, GridAlike, LevelsAlike
<1>5. /\ IDef16 = s1 \o s2 \o s3
      /\ IInq15 = u1 \o u2 \o u3
  BY DEF IDef16, IInq15
<1> HIDE DEF s1, s2, s3, u1, u2, u3, n1, n2, n3
<1> QED
  BY <1>2, <1>3, <1>4, <1>5, AlikeJoins

INames17 ==
  {"HC", "HCSOI", "HEAT_FROM_AC", "HR", "HR_vr", "HTOP", "INT_SNOW", "LABILEP",
   "LABILEP_TO_SECONDP", "LABILEP_vr", "LAISHA", "LAISUN", "LAKEICEFRAC"}
LEMMA IList17 == Alike(IDef17, IInq16, INames17, IShapes)
<1> DEFINE n1 == IDef17!1!1!1!1!1!1
           n2 == IDef17!1!1!1!1!2!2
           n3 == IDef17!1!1!1!2!1
           n4 == IDef17!1!1!2!2
           n5 == IDef17!1!2!1
           n6 == IDef17!2!1
           s1 == IDef17!1!1!1!1!1   u1 == IInq16!1!1!1!1!1
           s2 == IDef17!1!1!1!1!2   u2 == IInq16!1!1!1!1!2
           s3 == IDef17!1!1!1!2   u3 == IInq16!1!1!1!2
           s4 == IDef17!1!1!2   u4 == IInq16!1!1!2
           s5 == IDef17!1!2   u5 == IInq16!1!2
           s6 == IDef17!2   u6 == IInq16!2
           N1 == Ran(n1)
           N2 == N1 \cup Ran(n2)
           N3 == N2 \cup Ran(n3)
           N4 == N3 \cup Ran(n4)
           N5 == N4 \cup Ran(n5)
           N6 == N5 \cup Ran(n6)
<1>1. /\ IsNames(n1)
      /\ IsNames(n2)
      /\ IsNames(n3)
      /\ IsNames(n4)
      /\ IsNames(n5)
      /\ IsNames(n6)
  BY DEF IsNames, IsList
<1>2. /\ N1 \cap Ran(n2) = {}
      /\ N2 \cap Ran(n3) = {}
      /\ N3 \cap Ran(n4) = {}
      /\ N4 \cap Ran(n5) = {}
      /\ N5 \cap Ran(n6) = {}
  BY DEF Ran
<1>3. N6 = INames17
  BY DEF Ran, INames17
<1>4. /\ Alike(s1, u1, Ran(n1), IShapes)
      /\ Alike(s2, u2, Ran(n2), IShapes)
      /\ Alike(s3, u3, Ran(n3), IShapes)
      /\ Alike(s4, u4, Ran(n4), IShapes)
      /\ Alike(s5, u5, Ran(n5), IShapes)
      /\ Alike(s6, u6, Ran(n6), IShapes)
  BY <1>1, GridAlike, LevelsAlike, MoreAlike
<1>5. /\ IDef17 = s1 \o s2 \o s3 \o s4 \o s5 \o s6
      /\ IInq16 = u1 \o u2 \o u3 \o u4 \o u5 \o u6
  BY DEF IDef17, IInq16
<1> HIDE DEF s1, s2, s3, s4, s5, s6, u1, u2, u3, u4, u5, u6, n1, n2, n3, n4, n5, n6
<1> QED
  BY <1>2, <1>3, <1>4, <1>5, AlikeJoins

INames18 ==
  {"LAKEICETHICK", "LAND_UPTAKE", "LAND_USE_FLUX", "LEAFC", "LEAFC_ALLOC", "LEAFC_LOSS",
   "LEAFC_TO_LITTER", "LEAFN", "LEAFP", "LEAF_MR", "LFC2", "LITFALL", "LITHR"}
LEMMA IList18 == Alike(IDef18, IInq17, INames18, IShapes)
<1> DEFINE n == IDef18!1
<1>1. IsNames(n) /\ Ran(n) = INames18
  <2>1. IsNames(n)
    BY DEF IsNames, IsList
  <2>2. Ran(n) = INames18
    BY DEF Ran, INames18
  <2> QED
    BY <2>1, <2>2
<1>2. Alike(IDef18, IInq17, Ran(n), IShapes)
  BY <1>1, GridAlike DEF IDef18, IInq17
<1> QED
  BY <1>1, <1>2

INames19 ==
  {"LITR1C", "LITR1C_TO_SOIL1C", "LITR1C_vr", "LITR1N", "LITR1N_TNDNCY_VERT_TRANS",
   "LITR1N_TO_SOIL1N", "LITR1N_vr", "LITR1P", "LITR1P_TNDNCY_VERT_TRANS",
   "LITR1P_TO_SOIL1P", "LITR1P_vr", "LITR1_HR", "LITR2C"}
LEMMA IList19 == Alike(IDef19, IInq18, INames19, IShapes)
<1> DEFINE n1 == IDef19!1!1!1!1!1!1!1!1!1!1!1
           n2 == IDef19!1!1!1!1!1!1!1!1!1!2!2
           n3 == IDef19!1!1!1!1!1!1!1!1!2!1
           n4 == IDef19!1!1!1!1!1!1!1!2!2
           n5 == IDef19!1!1!1!1!1!1!2!1
           n6 == IDef19!1!1!1!1!1!2!2
           n7 == IDef19!1!1!1!1!2!1
           n8 == IDef19!1!1!1!2!2
           n9 == IDef19!1!1!2!1
           n10 == IDef19!1!2!2
           n11 == IDef19!2!1
           s1 == IDef19!1!1!1!1!1!1!1!1!1!1   u1 == IInq18!1!1!1!1!1!1!1!1!1!1
           s2 == IDef19!1!1!1!1!1!1!1!1!1!2   u2 == IInq18!1!1!1!1!1!1!1!1!1!2
           s3 == IDef19!1!1!1!1!1!1!1!1!2   u3 == IInq18!1!1!1!1!1!1!1!1!2
           s4 == IDef19!1!1!1!1!1!1!1!2   u4 == IInq18!1!1!1!1!1!1!1!2
           s5 == IDef19!1!1!1!1!1!1!2   u5 == IInq18!1!1!1!1!1!1!2
           s6 == IDef19!1!1!1!1!1!2   u6 == IInq18!1!1!1!1!1!2
           s7 == IDef19!1!1!1!1!2   u7 == IInq18!1!1!1!1!2
           s8 == IDef19!1!1!1!2   u8 == IInq18!1!1!1!2
           s9 == IDef19!1!1!2   u9 == IInq18!1!1!2
           s10 == IDef19!1!2   u10 == IInq18!1!2
           s11 == IDef19!2   u11 == IInq18!2
           N1 == Ran(n1)
           N2 == N1 \cup Ran(n2)
           N3 == N2 \cup Ran(n3)
           N4 == N3 \cup Ran(n4)
           N5 == N4 \cup Ran(n5)
           N6 == N5 \cup Ran(n6)
           N7 == N6 \cup Ran(n7)
           N8 == N7 \cup Ran(n8)
           N9 == N8 \cup Ran(n9)
           N10 == N9 \cup Ran(n10)
           N11 == N10 \cup Ran(n11)
<1>1. /\ IsNames(n1)
      /\ IsNames(n2)
      /\ IsNames(n3)
      /\ IsNames(n4)
      /\ IsNames(n5)
      /\ IsNames(n6)
      /\ IsNames(n7)
      /\ IsNames(n8)
      /\ IsNames(n9)
      /\ IsNames(n10)
      /\ IsNames(n11)
  BY DEF IsNames, IsList
<1>2. /\ N1 \cap Ran(n2) = {}
      /\ N2 \cap Ran(n3) = {}
      /\ N3 \cap Ran(n4) = {}
      /\ N4 \cap Ran(n5) = {}
      /\ N5 \cap Ran(n6) = {}
      /\ N6 \cap Ran(n7) = {}
      /\ N7 \cap Ran(n8) = {}
      /\ N8 \cap Ran(n9) = {}
      /\ N9 \cap Ran(n10) = {}
      /\ N10 \cap Ran(n11) = {}
  BY DEF Ran
<1>3. N11 = INames19
  BY DEF Ran, INames19
<1>4. /\ Alike(s1, u1, Ran(n1), IShapes)
      /\ Alike(s2, u2, Ran(n2), IShapes)
      /\ Alike(s3, u3, Ran(n3), IShapes)
      /\ Alike(s4, u4, Ran(n4), IShapes)
      /\ Alike(s5, u5, Ran(n5), IShapes)
      /\ Alike(s6, u6, Ran(n6), IShapes)
      /\ Alike(s7, u7, Ran(n7), IShapes)
      /\ Alike(s8, u8, Ran(n8), IShapes)
      /\ Alike(s9, u9, Ran(n9), IShapes)
      /\ Alike(s10, u10, Ran(n10), IShapes)
      /\ Alike(s11, u11, Ran(n11), IShapes)
  BY <1>1, GridAlike, LevelsAlike
<1>5. /\ IDef19 = s1 \o s2 \o s3 \o s4 \o s5 \o s6 \o s7 \o s8 \o s9 \o s10 \o s11
      /\ IInq18 = u1 \o u2 \o u3 \o u4 \o u5 \o u6 \o u7 \o u8 \o u9 \o u10 \o u11
  BY DEF IDef19, IInq18
<1> HIDE DEF s1, s2, s3, s4, s5, s6, s7, s8, s9, s10, s11, u1, u2, u3, u4, u5, u6, u7, u8,
             u9, u10, u11, n1, n2, n3, n4, n5, n6, n7, n8, n9, n10, n11
<1>6. Alike(s1 \o s2 \o s3 \o s4, u1 \o u2 \o u3 \o u4, N4, IShapes)
  BY <1>2, <1>4, AlikeJoins
<1>7. Alike(s1 \o s2 \o s3 \o s4 \o s5 \o s6 \o s7 \o s8, u1 \o u2 \o u3 \o u4 \o u5 \o u6
        \o u7 \o u8, N8, IShapes)
  BY <1>2, <1>4, <1>6, AlikeJoins
<1> QED
  BY <1>2, <1>3, <1>4, <1>5, <1>7, AlikeJoins

INames20 ==
  {"LITR2C_TO_SOIL2C", "LITR2C_vr", "LITR2N", "LITR2N_TNDNCY_VERT_TRANS",
   "LITR2N_TO_SOIL2N", "LITR2N_vr", "LITR2P", "LITR2P_TNDNCY_VERT_TRANS",
   "LITR2P_TO_SOIL2P", "LITR2P_vr", "LITR2_HR", "LITR3C", "LITR3C_TO_SOIL3C"}
LEMMA IList20 == Alike(IDef20, IInq19, INames20, IShapes)
<1> DEFINE n1 == IDef20!1!1!1!1!1!1!1!1!1!1!1
           n2 == IDef20!1!1!1!1!1!1!1!1!1!2!2
           n3 == IDef20!1!1!1!1!1!1!1!1!2!1
           n4 == IDef20!1!1!1!1!1!1!1!2!2
           n5 == IDef20!1!1!1!1!1!1!2!1
           n6 == IDef20!1!1!1!1!1!2!2
           n7 == IDef20!1!1!1!1!2!1
           n8 == IDef20!1!1!1!2!2
           n9 == IDef20!1!1!2!1
           n10 == IDef20!1!2!2
           n11 == IDef20!2!1
           s1 == IDef20!1!1!1!1!1!1!1!1!1!1   u1 == IInq19!1!1!1!1!1!1!1!1!1!1
           s2 == IDef20!1!1!1!1!1!1!1!1!1!2   u2 == IInq19!1!1!1!1!1!1!1!1!1!2
           s3 == IDef20!1!1!1!1!1!1!1!1!2   u3 == IInq19!1!1!1!1!1!1!1!1!2
           s4 == IDef20!1!1!1!1!1!1!1!2   u4 == IInq19!1!1!1!1!1!1!1!2
           s5 == IDef20!1!1!1!1!1!1!2   u5 == IInq19!1!1!1!1!1!1!2
           s6 == IDef20!1!1!1!1!1!2   u6 == IInq19!1!1!1!1!1!2
           s7 == IDef20!1!1!1!1!2   u7 == IInq19!1!1!1!1!2
           s8 == IDef20!1!1!1!2   u8 == IInq19!1!1!1!2
           s9 == IDef20!1!1!2   u9 == IInq19!1!1!2
           s10 == IDef20!1!2   u10 == IInq19!1!2
           s11 == IDef20!2   u11 == IInq19!2
           N1 == Ran(n1)
           N2 == N1 \cup Ran(n2)
           N3 == N2 \cup Ran(n3)
           N4 == N3 \cup Ran(n4)
           N5 == N4 \cup Ran(n5)
           N6 == N5 \cup Ran(n6)
           N7 == N6 \cup Ran(n7)
           N8 == N7 \cup Ran(n8)
           N9 == N8 \cup Ran(n9)
           N10 == N9 \cup Ran(n10)
           N11 == N10 \cup Ran(n11)
<1>1. /\ IsNames(n1)
      /\ IsNames(n2)
      /\ IsNames(n3)
      /\ IsNames(n4)
      /\ IsNames(n5)
      /\ IsNames(n6)
      /\ IsNames(n7)
      /\ IsNames(n8)
      /\ IsNames(n9)
      /\ IsNames(n10)
      /\ IsNames(n11)
  BY DEF IsNames, IsList
<1>2. /\ N1 \cap Ran(n2) = {}
      /\ N2 \cap Ran(n3) = {}
      /\ N3 \cap Ran(n4) = {}
      /\ N4 \cap Ran(n5) = {}
      /\ N5 \cap Ran(n6) = {}
      /\ N6 \cap Ran(n7) = {}
      /\ N7 \cap Ran(n8) = {}
      /\ N8 \cap Ran(n9) = {}
      /\ N9 \cap Ran(n10) = {}
      /\ N10 \cap Ran(n11) = {}
  BY DEF Ran
<1>3. N11 = INames20
  BY DEF Ran, INames20
<1>4. /\ Alike(s1, u1, Ran(n1), IShapes)
      /\ Alike(s2, u2, Ran(n2), IShapes)
      /\ Alike(s3, u3, Ran(n3), IShapes)
      /\ Alike(s4, u4, Ran(n4), IShapes)
      /\ Alike(s5, u5, Ran(n5), IShapes)
      /\ Alike(s6, u6, Ran(n6), IShapes)
      /\ Alike(s7, u7, Ran(n7), IShapes)
      /\ Alike(s8, u8, Ran(n8), IShapes)
      /\ Alike(s9, u9, Ran(n9), IShapes)
      /\ Alike(s10, u10, Ran(n10), IShapes)
      /\ Alike(s11, u11, Ran(n11), IShapes)
  BY <1>1, GridAlike, LevelsAlike
<1>5. /\ IDef20 = s1 \o s2 \o s3 \o s4 \o s5 \o s6 \o s7 \o s8 \o s9 \o s10 \o s11
      /\ IInq19 = u1 \o u2 \o u3 \o u4 \o u5 \o u6 \o u7 \o u8 \o u9 \o u10 \o u11
  BY DEF IDef20, IInq19
<1> HIDE DEF s1, s2, s3, s4, s5, s6, s7, s8, s9, s10, s11, u1, u2, u3, u4, u5, u6, u7, u8,
             u9, u10, u11, n1, n2, n3, n4, n5, n6, n7, n8, n9, n10, n11
<1>6. Alike(s1 \o s2 \o s3 \o s4, u1 \o u2 \o u3 \o u4, N4, IShapes)
  BY <1>2, <1>4, AlikeJoins
<1>7. Alike(s1 \o s2 \o s3 \o s4 \o s5 \o s6 \o s7 \o s8, u1 \o u2 \o u3 \o u4 \o u5 \o u6
        \o u7 \o u8, N8, IShapes)
  BY <1>2, <1>4, <1>6, AlikeJoins
<1> QED
  BY <1>2, <1>3, <1>4, <1>5, <1>7, AlikeJoins

INames21 ==
  {"LITR3C_vr", "LITR3N", "LITR3N_TNDNCY_VERT_TRANS", "LITR3N_TO_SOIL3N", "LITR3N_vr",
   "LITR3P", "LITR3P_TNDNCY_VERT_TRANS", "LITR3P_TO_SOIL3P", "LITR3P_vr", "LITR3_HR",
   "LITTERC", "LITTERC_HR", "LITTERC_LOSS"}
LEMMA IList21 == Alike(IDef21, IInq20, INames21, IShapes)
<1> DEFINE n1 == IDef21!1!1!1!1!1!1!1!1!1!2
           n2 == IDef21!1!1!1!1!1!1!1!1!2!1
           n3 == IDef21!1!1!1!1!1!1!1!2!2
           n4 == IDef21!1!1!1!1!1!1!2!1
           n5 == IDef21!1!1!1!1!1!2!2
           n6 == IDef21!1!1!1!1!2!1
           n7 == IDef21!1!1!1!2!2
           n8 == IDef21!1!1!2!1
           n9 == IDef21!1!2!2
           n10 == IDef21!2!1
           s1 == IDef21!1!1!1!1!1!1!1!1!1   u1 == IInq20!1!1!1!1!1!1!1!1!1
           s2 == IDef21!1!1!1!1!1!1!1!1!2   u2 == IInq20!1!1!1!1!1!1!1!1!2
           s3 == IDef21!1!1!1!1!1!1!1!2   u3 == IInq20!1!1!1!1!1!1!1!2
           s4 == IDef21!1!1!1!1!1!1!2   u4 == IInq20!1!1!1!1!1!1!2
           s5 == IDef21!1!1!1!1!1!2   u5 == IInq20!1!1!1!1!1!2
           s6 == IDef21!1!1!1!1!2   u6 == IInq20!1!1!1!1!2
           s7 == IDef21!1!1!1!2   u7 == IInq20!1!1!1!2
           s8 == IDef21!1!1!2   u8 == IInq20!1!1!2
           s9 == IDef21!1!2   u9 == IInq20!1!2
           s10 == IDef21!2   u10 == IInq20!2
           N1 == Ran(n1)
           N2 == N1 \cup Ran(n2)
           N3 == N2 \cup Ran(n3)
           N4 == N3 \cup Ran(n4)
           N5 == N4 \cup Ran(n5)
           N6 == N5 \cup Ran(n6)
           N7 == N6 \cup Ran(n7)
           N8 == N7 \cup Ran(n8)
           N9 == N8 \cup Ran(n9)
           N10 == N9 \cup Ran(n10)
<1>1. /\ IsNames(n1)
      /\ IsNames(n2)
      /\ IsNames(n3)
      /\ IsNames(n4)
      /\ IsNames(n5)
      /\ IsNames(n6)
      /\ IsNames(n7)
      /\ IsNames(n8)
      /\ IsNames(n9)
      /\ IsNames(n10)
  BY DEF IsNames, IsList
<1>2. /\ N1 \cap Ran(n2) = {}
      /\ N2 \cap Ran(n3) = {}
      /\ N3 \cap Ran(n4) = {}
      /\ N4 \cap Ran(n5) = {}
      /\ N5 \cap Ran(n6) = {}
      /\ N6 \cap Ran(n7) = {}
      /\ N7 \cap Ran(n8) = {}
      /\ N8 \cap Ran(n9) = {}
      /\ N9 \cap Ran(n10) = {}
  BY DEF Ran
<1>3. N10 = INames21
  BY DEF Ran, INames21
<1>4. /\ Alike(s1, u1, Ran(n1), IShapes)
      /\ Alike(s2, u2, Ran(n2), IShapes)
      /\ Alike(s3, u3, Ran(n3), IShapes)
      /\ Alike(s4, u4, Ran(n4), IShapes)
      /\ Alike(s5, u5, Ran(n5), IShapes)
      /\ Alike(s6, u6, Ran(n6), IShapes)
      /\ Alike(s7, u7, Ran(n7), IShapes)
      /\ Alike(s8, u8, Ran(n8), IShapes)
      /\ Alike(s9, u9, Ran(n9), IShapes)
      /\ Alike(s10, u10, Ran(n10), IShapes)
  BY <1>1, GridAlike, LevelsAlike
<1>5. /\ IDef21 = s1 \o s2 \o s3 \o s4 \o s5 \o s6 \o s7 \o s8 \o s9 \o s10
      /\ IInq20 = u1 \o u2 \o u3 \o u4 \o u5 \o u6 \o u7 \o u8 \o u9 \o u10
  BY DEF IDef21, IInq20
<1> HIDE DEF s1, s2, s3, s4, s5, s6, s7, s8, s9, s10, u1, u2, u3, u4, u5, u6, u7, u8, u9,
             u10, n1, n2, n3, n4, n5, n6, n7, n8, n9, n10
<1>6. Alike(s1 \o s2 \o s3 \o s4, u1 \o u2 \o u3 \o u4, N4, IShapes)
  BY <1>2, <1>4, AlikeJoins
<1>7. Alike(s1 \o s2 \o s3 \o s4 \o s5 \o s6 \o s7 \o s8, u1 \o u2 \o u3 \o u4 \o u5 \o u6
        \o u7 \o u8, N8, IShapes)
  BY <1>2, <1>4, <1>6, AlikeJoins
<1> QED
  BY <1>2, <1>3, <1>4, <1>5, <1>7, AlikeJoins

INames22 ==
  {"LIVECROOTC", "LIVECROOTN", "LIVECROOTP", "LIVESTEMC", "LIVESTEMN", "LIVESTEMP", "MR",
   "M_LITR1C_TO_LEACHING", "M_LITR2C_TO_LEACHING", "M_LITR3C_TO_LEACHING",
   "M_SOIL1C_TO_LEACHING", "M_SOIL2C_TO_LEACHING", "M_SOIL3C_TO_LEACHING"}
LEMMA IList22 == Alike(IDef22, IInq21, INames22, IShapes)
<1> DEFINE n == IDef22!1
<1>1. IsNames(n) /\ Ran(n) = INames22
  <2>1. IsNames(n)
    BY DEF IsNames, IsList
  <2>2. Ran(n) = INames22
    BY DEF Ran, INames22
  <2> QED
    BY <2>1, <2>2
<1>2. Alike(IDef22, IInq21, Ran(n), IShapes)
  BY <1>1, GridAlike DEF IDef22, IInq21
<1> QED
  BY <1>1, <1>2

INames23 ==
  {"M_SOIL4C_TO_LEACHING", "NBP", "NDEPLOY", "NDEP_TO_SMINN", "NEE", "NEM", "NEP",
   "NET_NMIN", "NET_PMIN", "NFIRE", "NFIX_TO_SMINN", "NPP", "OCCLP"}
LEMMA IList23 == Alike(IDef23, IInq22, INames23, IShapes)
<1> DEFINE n == IDef23!1
<1>1. IsNames(n) /\ Ran(n) = INames23
  <2>1. IsNames(n)
    BY DEF IsNames, IsList
  <2>2. Ran(n) = INames23
    BY DEF Ran, INames23
  <2> QED
    BY <2>1, <2>2
<1>2. Alike(IDef23, IInq22, Ran(n), IShapes)
  BY <1>1, GridAlike DEF IDef23, IInq22
<1> QED
  BY <1>1, <1>2

INames24 ==
  {"OCCLP_vr", "OCDEP", "O_SCALAR", "PARVEGLN", "PBOT", "PCH4", "PCO2", "PCT_LANDUNIT",
   "PCT_NAT_PFT", "PDEPLOY", "PDEP_TO_SMINP", "PFT_FIRE_CLOSS", "PFT_FIRE_NLOSS"}
LEMMA IList24 == Alike(IDef24, IInq23, INames24, IShapes)
<1> DEFINE n1 == IDef24!1!1!1!1!1!1!2
           n2 == IDef24!1!1!1!1!1!2!1
           n3 == IDef24!1!1!1!1!2!2
           n4 == IDef24!1!1!1!2!1
           n5 == IDef24!1!1!2!1
           n6 == IDef24!1!2!1
           n7 == IDef24!2!1
           s1 == IDef24!1!1!1!1!1!1   u1 == IInq23!1!1!1!1!1!1
           s2 == IDef24!1!1!1!1!1!2   u2 == IInq23!1!1!1!1!1!2
           s3 == IDef24!1!1!1!1!2   u3 == IInq23!1!1!1!1!2
           s4 == IDef24!1!1!1!2   u4 == IInq23!1!1!1!2
           s5 == IDef24!1!1!2   u5 == IInq23!1!1!2
           s6 == IDef24!1!2   u6 == IInq23!1!2
           s7 == IDef24!2   u7 == IInq23!2
           N1 == Ran(n1)
           N2 == N1 \cup Ran(n2)
           N3 == N2 \cup Ran(n3)
           N4 == N3 \cup Ran(n4)
           N5 == N4 \cup Ran(n5)
           N6 == N5 \cup Ran(n6)
           N7 == N6 \cup Ran(n7)
<1>1. /\ IsNames(n1)
      /\ IsNames(n2)
      /\ IsNames(n3)
      /\ IsNames(n4)
      /\ IsNames(n5)
      /\ IsNames(n6)
      /\ IsNames(n7)
  BY DEF IsNames, IsList
<1>2. /\ N1 \cap Ran(n2) = {}
      /\ N2 \cap Ran(n3) = {}
      /\ N3 \cap Ran(n4) = {}
      /\ N4 \cap Ran(n5) = {}
      /\ N5 \cap Ran(n6) = {}
      /\ N6 \cap Ran(n7) = {}
  BY DEF Ran
<1>3. N7 = INames24
  BY DEF Ran, INames24
<1>4. /\ Alike(s1, u1, Ran(n1), IShapes)
      /\ Alike(s2, u2, Ran(n2), IShapes)
      /\ Alike(s3, u3, Ran(n3), IShapes)
      /\ Alike(s4, u4, Ran(n4), IShapes)
      /\ Alike(s5, u5, Ran(n5), IShapes)
      /\ Alike(s6, u6, Ran(n6), IShapes)
      /\ Alike(s7, u7, Ran(n7), IShapes)
  BY <1>1, GridAlike, LevelsAlike, MoreAlike
<1>5. /\ IDef24 = s1 \o s2 \o s3 \o s4 \o s5 \o s6 \o s7
      /\ IInq23 = u1 \o u2 \o u3 \o u4 \o u5 \o u6 \o u7
  BY DEF IDef24, IInq23
<1> HIDE DEF s1, s2, s3, s4, s5, s6, s7, u1, u2, u3, u4, u5, u6, u7, n1, n2, n3, n4, n5, n6,
             n7
<1>6. Alike(s1 \o s2 \o s3 \o s4, u1 \o u2 \o u3 \o u4, N4, IShapes)
  BY <1>2, <1>4, AlikeJoins
<1> QED
  BY <1>2, <1>3, <1>4, <1>5, <1>6, AlikeJoins

INames25 ==
  {"PLANT_CALLOC", "PLANT_NDEMAND", "PLANT_NDEMAND_COL", "PLANT_PALLOC", "PLANT_PDEMAND",
   "PLANT_PDEMAND_COL", "POTENTIAL_IMMOB", "POTENTIAL_IMMOB_P", "POT_F_DENIT", "POT_F_NIT",
   "PRIMP", "PRIMP_TO_LABILEP", "PRIMP_vr"}
LEMMA IList25 == Alike(IDef25, IInq24, INames25, IShapes)
<1> DEFINE n1 == IDef25!1!1
           n2 == IDef25!2!2
           s1 == IDef25!1   u1 == IInq24!1
           s2 == IDef25!2   u2 == IInq24!2
           N1 == Ran(n1)
           N2 == N1 \cup Ran(n2)
<1>1. /\ IsNames(n1)
      /\ IsNames(n2)
  BY DEF IsNames, IsList
<1>2. N1 \cap Ran(n2) = {}
  BY DEF Ran
<1>3. N2 = INames25
  BY DEF Ran, INames25
<1>4. /\ Alike(s1, u1, Ran(n1), IShapes)
      /\ Alike(s2, u2, Ran(n2), IShapes)
  BY <1>1, GridAlike, LevelsAlike
<1>5. /\ IDef25 = s1 \o s2
      /\ IInq24 = u1 \o u2
  BY DEF IDef25, IInq24
<1> HIDE DEF s1, s2, u1, u2, n1, n2
<1> QED
  BY <1>2, <1>3, <1>4, <1>5, AlikeJoins

INames26 ==
  {"PROD1P_LOSS", "PSNSHA", "PSNSHADE_TO_CPOOL", "PSNSUN", "PSNSUN_TO_CPOOL", "Q2M", "QBOT",
   "QCHARGE", "QDRAI", "QDRAI_PERCH", "QDRAI_XS", "QDRIP", "QFLOOD"}
LEMMA IList26 == Alike(IDef26, IInq25, INames26, IShapes)
<1> DEFINE n == IDef26!1
<1>1. IsNames(n) /\ Ran(n) = INames26
  <2>1. IsNames(n)
    BY DEF IsNames, IsList
  <2>2. Ran(n) = INames26
    BY DEF Ran, INames26
  <2> QED
    BY <2>1, <2>2
<1>2. Alike(IDef26, IInq25, Ran(n), IShapes)
  BY <1>1, GridAlike DEF IDef26, IInq25
<1> QED
  BY <1>1, <1>2

INames27 ==
  {"QFLX_ICE_DYNBAL", "QFLX_LIQ_DYNBAL", "QH2OSFC", "QINFL", "QINTR", "QIRRIG_GRND",
   "QIRRIG_ORIG", "QIRRIG_REAL", "QIRRIG_SURF", "QIRRIG_WM", "QOVER", "QOVER_LAG", "QRGWL"}
LEMMA IList27 == Alike(IDef27, IInq26, INames27, IShapes)
<1> DEFINE n == IDef27!1
<1>1. IsNames(n) /\ Ran(n) = INames27
  <2>1. IsNames(n)
    BY DEF IsNames, IsList
  <2>2. Ran(n) = INames27
    BY DEF Ran, INames27
  <2> QED
    BY <2>1, <2>2
<1>2. Alike(IDef27, IInq26, Ran(n), IShapes)
  BY <1>1, GridAlike DEF IDef27, IInq26
<1> QED
  BY <1>1, <1>2

INames28 ==
  {"QRUNOFF", "QRUNOFF_NODYNLNDUSE", "QRUNOFF_R", "QRUNOFF_U", "QSNOMELT", "QSNWCPICE",
   "QSNWCPICE_NODYNLNDUSE", "QSOIL", "QVEGE", "QVEGT", "RAIN", "RETRANSN",
   "RETRANSN_TO_NPOOL"}
LEMMA IList28 == Alike(IDef28, IInq27, INames28, IShapes)
<1> DEFINE n == IDef28!1
<1>1. IsNames(n) /\ Ran(n) = INames28
  <2>1. IsNames(n)
    BY DEF IsNames, IsList
  <2>2. Ran(n) = INames28
    BY DEF Ran, INames28
  <2> QED
    BY <2>1, <2>2
<1>2. Alike(IDef28, IInq27, Ran(n), IShapes)
  BY <1>1, GridAlike DEF IDef28, IInq27
<1> QED
  BY <1>1, <1>2

INames29 ==
  {"RETRANSP", "RETRANSP_TO_PPOOL", "RH2M", "RH2M_R", "RH2M_U", "RR", "SABG", "SABG_PEN",
   "SABV", "SCALARAVG_vr", "SECONDP", "SECONDP_TO_LABILEP", "SECONDP_TO_OCCLP"}
LEMMA IList29 == Alike(IDef29, IInq28, INames29, IShapes)
<1> DEFINE n1 == IDef29!1!1!1
           n2 == IDef29!1!2!2
           n3 == IDef29!2!1
           s1 == IDef29!1!1   u1 == IInq28!1!1
           s2 == IDef29!1!2   u2 == IInq28!1!2
           s3 == IDef29!2   u3 == IInq28!2
           N1 == Ran(n1)
           N2 == N1 \cup Ran(n2)
           N3 == N2 \cup Ran(n3)
<1>1. /\ IsNames(n1)
      /\ IsNames(n2)
      /\ IsNames(n3)
  <2>1. IsNames(n1)
    BY DEF IsNames, IsList
  <2>2. /\ IsNames(n2)
        /\ IsNames(n3)
    BY DEF IsNames, IsList
  <2> QED
    BY <2>1, <2>2
<1>2. /\ N1 \cap Ran(n2) = {}
      /\ N2 \cap Ran(n3) = {}
  BY DEF Ran
<1>3. N3 = INames29
  BY DEF Ran, INames29
<1>4. /\ Alike(s1, u1, Ran(n1), IShapes)
      /\ Alike(s2, u2, Ran(n2), IShapes)
      /\ Alike(s3, u3, Ran(n3), IShapes)
  BY <1>1, GridAlike, LevelsAlike
<1>5. /\ IDef29 = s1 \o s2 \o s3
      /\ IInq28 = u1 \o u2 \o u3
  BY DEF IDef29, IInq28
<1> HIDE DEF s1, s2, s3, u1, u2, u3, n1, n2, n3
<1> QED
  BY <1>2, <1>3, <1>4, <1>5, AlikeJoins

INames30 ==
  {"SECONDP_vr", "SEEDC_GRC", "SMINN", "SMINN_TO_NPOOL", "SMINN_TO_PLANT",
   "SMINN_TO_SOIL1N_L1", "SMINN_TO_SOIL2N_L2", "SMINN_TO_SOIL2N_S1", "SMINN_TO_SOIL3N_L3",
   "SMINN_TO_SOIL3N_S2", "SMINN_TO_SOIL4N_S3", "SMINP", "SMINP_LEACHED"}
LEMMA IList30 == Alike(IDef30, IInq29, INames30, IShapes)
<1> DEFINE n1 == IDef30!1!2
           n2 == IDef30!2!1
           s1 == IDef30!1   u1 == IInq29!1
           s2 == IDef30!2   u2 == IInq29!2
           N1 == Ran(n1)
           N2 == N1 \cup Ran(n2)
<1>1. /\ IsNames(n1)
      /\ IsNames(n2)
  BY DEF IsNames, IsList
<1>2. N1 \cap Ran(n2) = {}
  BY DEF Ran
<1>3. N2 = INames30
  BY DEF Ran, INames30
<1>4. /\ Alike(s1, u1, Ran(n1), IShapes)
      /\ Alike(s2, u2, Ran(n2), IShapes)
  BY <1>1, GridAlike, LevelsAlike
<1>5. /\ IDef30 = s1 \o s2
      /\ IInq29 = u1 \o u2
  BY DEF IDef30, IInq29
<1> HIDE DEF s1, s2, u1, u2, n1, n2
<1> QED
  BY <1>2, <1>3, <1>4, <1>5, AlikeJoins

INames31 ==
  {"SMINP_TO_PLANT", "SMINP_TO_PPOOL", "SMINP_TO_SOIL1P_L1", "SMINP_TO_SOIL2P_L2",
   "SMINP_TO_SOIL2P_S1", "SMINP_TO_SOIL3P_L3", "SMINP_TO_SOIL3P_S2", "SMINP_TO_SOIL4P_S3",
   "SMINP_vr", "SMIN_NH4", "SMIN_NH4_vr", "SMIN_NO3", "SMIN_NO3_LEACHED"}
LEMMA IList31 == Alike(IDef31, IInq30, INames31, IShapes)
<1> DEFINE n1 == IDef31!1!1!1!1!1
           n2 == IDef31!1!1!1!2!2
           n3 == IDef31!1!1!2!1
           n4 == IDef31!1!2!2
           n5 == IDef31!2!1
           s1 == IDef31!1!1!1!1   u1 == IInq30!1!1!1!1
           s2 == IDef31!1!1!1!2   u2 == IInq30!1!1!1!2
           s3 == IDef31!1!1!2   u3 == IInq30!1!1!2
           s4 == IDef31!1!2   u4 == IInq30!1!2
           s5 == IDef31!2   u5 == IInq30!2
           N1 == Ran(n1)
           N2 == N1 \cup Ran(n2)
           N3 == N2 \cup Ran(n3)
           N4 == N3 \cup Ran(n4)
           N5 == N4 \cup Ran(n5)
<1>1. /\ IsNames(n1)
      /\ IsNames(n2)
      /\ IsNames(n3)
      /\ IsNames(n4)
      /\ IsNames(n5)
  <2>1. IsNames(n1)
    BY DEF IsNames, IsList
  <2>2. /\ IsNames(n2)
        /\ IsNames(n3)
        /\ IsNames(n4)
        /\ IsNames(n5)
    BY DEF IsNames, IsList
  <2> QED
    BY <2>1, <2>2
<1>2. /\ N1 \cap Ran(n2) = {}
      /\ N2 \cap Ran(n3) = {}
      /\ N3 \cap Ran(n4) = {}
      /\ N4 \cap Ran(n5) = {}
  BY DEF Ran
<1>3. N5 = INames31
  BY DEF Ran, INames31
<1>4. /\ Alike(s1, u1, Ran(n1), IShapes)
      /\ Alike(s2, u2, Ran(n2), IShapes)
      /\ Alike(s3, u3, Ran(n3), IShapes)
      /\ Alike(s4, u4, Ran(n4), IShapes)
      /\ Alike(s5, u5, Ran(n5), IShapes)
  BY <1>1, GridAlike, LevelsAlike
<1>5. /\ IDef31 = s1 \o s2 \o s3 \o s4 \o s5
      /\ IInq30 = u1 \o u2 \o u3 \o u4 \o u5
  BY DEF IDef31, IInq30
<1> HIDE DEF s1, s2, s3, s4, s5, u1, u2, u3, u4, u5, n1, n2, n3, n4, n5
<1> QED
  BY <1>2, <1>3, <1>4, <1>5, AlikeJoins

INames32 ==
  {"SMIN_NO3_RUNOFF", "SMIN_NO3_vr", "SNOBCMCL", "SNOBCMSL", "SNODSTMCL", "SNODSTMSL",
   "SNOINTABS", "SNOOCMCL", "SNOOCMSL", "SNOW", "SNOWDP", "SNOWICE", "SNOWLIQ"}
LEMMA IList32 == Alike(IDef32, IInq31, INames32, IShapes)
<1> DEFINE n1 == IDef32!1!1!1
           n2 == IDef32!1!2!2
           n3 == IDef32!2!1
           s1 == IDef32!1!1   u1 == IInq31!1!1
           s2 == IDef32!1!2   u2 == IInq31!1!2
           s3 == IDef32!2   u3 == IInq31!2
           N1 == Ran(n1)
           N2 == N1 \cup Ran(n2)
           N3 == N2 \cup Ran(n3)
<1>1. /\ IsNames(n1)
      /\ IsNames(n2)
      /\ IsNames(n3)
  <2>1. IsNames(n3)
    BY DEF IsNames, IsList
  <2>2. /\ IsNames(n1)
        /\ IsNames(n2)
    BY DEF IsNames, IsList
  <2> QED
    BY <2>1, <2>2
<1>2. /\ N1 \cap Ran(n2) = {}
      /\ N2 \cap Ran(n3) = {}
  BY DEF Ran
<1>3. N3 = INames32
  BY DEF Ran, INames32
<1>4. /\ Alike(s1, u1, Ran(n1), IShapes)
      /\ Alike(s2, u2, Ran(n2), IShapes)
      /\ Alike(s3, u3, Ran(n3), IShapes)
  BY <1>1, GridAlike, LevelsAlike
<1>5. /\ IDef32 = s1 \o s2 \o s3
      /\ IInq31 = u1 \o u2 \o u3
  BY DEF IDef32, IInq31
<1> HIDE DEF s1, s2, s3, u1, u2, u3, n1, n2, n3
<1> QED
  BY <1>2, <1>3, <1>4, <1>5, AlikeJoins

INames33 ==
  {"SNOW_DEPTH", "SNOW_SINKS", "SNOW_SOURCES", "SOIL1C", "SOIL1C_TO_SOIL2C", "SOIL1C_vr",
   "SOIL1N", "SOIL1N_TNDNCY_VERT_TRANS", "SOIL1N_TO_SOIL2N", "SOIL1N_vr", "SOIL1P",
   "SOIL1P_TNDNCY_VERT_TRANS", "SOIL1P_TO_SOIL2P"}
LEMMA IList33 == Alike(IDef33, IInq32, INames33, IShapes)
<1> DEFINE n1 == IDef33!1!1!1!1!1!1!1!1!1
           n2 == IDef33!1!1!1!1!1!1!1!2!2
           n3 == IDef33!1!1!1!1!1!1!2!1
           n4 == IDef33!1!1!1!1!1!2!2
           n5 == IDef33!1!1!1!1!2!1
           n6 == IDef33!1!1!1!2!2
           n7 == IDef33!1!1!2!1
           n8 == IDef33!1!2!2
           n9 == IDef33!2!1
           s1 == IDef33!1!1!1!1!1!1!1!1   u1 == IInq32!1!1!1!1!1!1!1!1
           s2 == IDef33!1!1!1!1!1!1!1!2   u2 == IInq32!1!1!1!1!1!1!1!2
           s3 == IDef33!1!1!1!1!1!1!2   u3 == IInq32!1!1!1!1!1!1!2
           s4 == IDef33!1!1!1!1!1!2   u4 == IInq32!1!1!1!1!1!2
           s5 == IDef33!1!1!1!1!2   u5 == IInq32!1!1!1!1!2
           s6 == IDef33!1!1!1!2   u6 == IInq32!1!1!1!2
           s7 == IDef33!1!1!2   u7 == IInq32!1!1!2
           s8 == IDef33!1!2   u8 == IInq32!1!2
           s9 == IDef33!2   u9 == IInq32!2
           N1 == Ran(n1)
           N2 == N1 \cup Ran(n2)
           N3 == N2 \cup Ran(n3)
           N4 == N3 \cup Ran(n4)
           N5 == N4 \cup Ran(n5)
           N6 == N5 \cup Ran(n6)
           N7 == N6 \cup Ran(n7)
           N8 == N7 \cup Ran(n8)
           N9 == N8 \cup Ran(n9)
<1>1. /\ IsNames(n1)
      /\ IsNames(n2)
      /\ IsNames(n3)
      /\ IsNames(n4)
      /\ IsNames(n5)
      /\ IsNames(n6)
      /\ IsNames(n7)
      /\ IsNames(n8)
      /\ IsNames(n9)
  BY DEF IsNames, IsList
<1>2. /\ N1 \cap Ran(n2) = {}
      /\ N2 \cap Ran(n3) = {}
      /\ N3 \cap Ran(n4) = {}
      /\ N4 \cap Ran(n5) = {}
      /\ N5 \cap Ran(n6) = {}
      /\ N6 \cap Ran(n7) = {}
      /\ N7 \cap Ran(n8) = {}
      /\ N8 \cap Ran(n9) = {}
  BY DEF Ran
<1>3. N9 = INames33
  BY DEF Ran, INames33
<1>4. /\ Alike(s1, u1, Ran(n1), IShapes)
      /\ Alike(s2, u2, Ran(n2), IShapes)
      /\ Alike(s3, u3, Ran(n3), IShapes)
      /\ Alike(s4, u4, Ran(n4), IShapes)
      /\ Alike(s5, u5, Ran(n5), IShapes)
      /\ Alike(s6, u6, Ran(n6), IShapes)
      /\ Alike(s7, u7, Ran(n7), IShapes)
      /\ Alike(s8, u8, Ran(n8), IShapes)
      /\ Alike(s9, u9, Ran(n9), IShapes)
  BY <1>1, GridAlike, LevelsAlike
<1>5. /\ IDef33 = s1 \o s2 \o s3 \o s4 \o s5 \o s6 \o s7 \o s8 \o s9
      /\ IInq32 = u1 \o u2 \o u3 \o u4 \o u5 \o u6 \o u7 \o u8 \o u9
  BY DEF IDef33, IInq32
<1> HIDE DEF s1, s2, s3, s4, s5, s6, s7, s8, s9, u1, u2, u3, u4, u5, u6, u7, u8, u9, n1, n2,
             n3, n4, n5, n6, n7, n8, n9
<1>6. Alike(s1 \o s2 \o s3 \o s4, u1 \o u2 \o u3 \o u4, N4, IShapes)
  BY <1>2, <1>4, AlikeJoins
<1> QED
  BY <1>2, <1>3, <1>4, <1>5, <1>6, AlikeJoins

INames34 ==
  {"SOIL1P_vr", "SOIL1_HR", "SOIL2C", "SOIL2C_TO_SOIL3C", "SOIL2C_vr", "SOIL2N",
   "SOIL2N_TNDNCY_VERT_TRANS", "SOIL2N_TO_SOIL3N", "SOIL2N_vr", "SOIL2P",
   "SOIL2P_TNDNCY_VERT_TRANS", "SOIL2P_TO_SOIL3P", "SOIL2P_vr"}
LEMMA IList34 == Alike(IDef34, IInq33, INames34, IShapes)
<1> DEFINE n1 == IDef34!1!1!1!1!1!1!1!1!1!1!2
           n2 == IDef34!1!1!1!1!1!1!1!1!1!2!1
           n3 == IDef34!1!1!1!1!1!1!1!1!2!2
           n4 == IDef34!1!1!1!1!1!1!1!2!1
           n5 == IDef34!1!1!1!1!1!1!2!2
           n6 == IDef34!1!1!1!1!1!2!1
           n7 == IDef34!1!1!1!1!2!2
           n8 == IDef34!1!1!1!2!1
           n9 == IDef34!1!1!2!2
           n10 == IDef34!1!2!1
           n11 == IDef34!2!2
           s1 == IDef34!1!1!1!1!1!1!1!1!1!1   u1 == IInq33!1!1!1!1!1!1!1!1!1!1
           s2 == IDef34!1!1!1!1!1!1!1!1!1!2   u2 == IInq33!1!1!1!1!1!1!1!1!1!2
           s3 == IDef34!1!1!1!1!1!1!1!1!2   u3 == IInq33!1!1!1!1!1!1!1!1!2
           s4 == IDef34!1!1!1!1!1!1!1!2   u4 == IInq33!1!1!1!1!1!1!1!2
           s5 == IDef34!1!1!1!1!1!1!2   u5 == IInq33!1!1!1!1!1!1!2
           s6 == IDef34!1!1!1!1!1!2   u6 == IInq33!1!1!1!1!1!2
           s7 == IDef34!1!1!1!1!2   u7 == IInq33!1!1!1!1!2
           s8 == IDef34!1!1!1!2   u8 == IInq33!1!1!1!2
           s9 == IDef34!1!1!2   u9 == IInq33!1!1!2
           s10 == IDef34!1!2   u10 == IInq33!1!2
           s11 == IDef34!2   u11 == IInq33!2
           N1 == Ran(n1)
           N2 == N1 \cup Ran(n2)
           N3 == N2 \cup Ran(n3)
           N4 == N3 \cup Ran(n4)
           N5 == N4 \cup Ran(n5)
           N6 == N5 \cup Ran(n6)
           N7 == N6 \cup Ran(n7)
           N8 == N7 \cup Ran(n8)
           N9 == N8 \cup Ran(n9)
           N10 == N9 \cup Ran(n10)
           N11 == N10 \cup Ran(n11)
<1>1. /\ IsNames(n1)
      /\ IsNames(n2)
      /\ IsNames(n3)
      /\ IsNames(n4)
      /\ IsNames(n5)
      /\ IsNames(n6)
      /\ IsNames(n7)
      /\ IsNames(n8)
      /\ IsNames(n9)
      /\ IsNames(n10)
      /\ IsNames(n11)
  BY DEF IsNames, IsList
<1>2. /\ N1 \cap Ran(n2) = {}
      /\ N2 \cap Ran(n3) = {}
      /\ N3 \cap Ran(n4) = {}
      /\ N4 \cap Ran(n5) = {}
      /\ N5 \cap Ran(n6) = {}
      /\ N6 \cap Ran(n7) = {}
      /\ N7 \cap Ran(n8) = {}
      /\ N8 \cap Ran(n9) = {}
      /\ N9 \cap Ran(n10) = {}
      /\ N10 \cap Ran(n11) = {}
  BY DEF Ran
<1>3. N11 = INames34
  BY DEF Ran, INames34
<1>4. /\ Alike(s1, u1, Ran(n1), IShapes)
      /\ Alike(s2, u2, Ran(n2), IShapes)
      /\ Alike(s3, u3, Ran(n3), IShapes)
      /\ Alike(s4, u4, Ran(n4), IShapes)
      /\ Alike(s5, u5, Ran(n5), IShapes)
      /\ Alike(s6, u6, Ran(n6), IShapes)
      /\ Alike(s7, u7, Ran(n7), IShapes)
      /\ Alike(s8, u8, Ran(n8), IShapes)
      /\ Alike(s9, u9, Ran(n9), IShapes)
      /\ Alike(s10, u10, Ran(n10), IShapes)
      /\ Alike(s11, u11, Ran(n11), IShapes)
  BY <1>1, GridAlike, LevelsAlike
<1>5. /\ IDef34 = s1 \o s2 \o s3 \o s4 \o s5 \o s6 \o s7 \o s8 \o s9 \o s10 \o s11
      /\ IInq33 = u1 \o u2 \o u3 \o u4 \o u5 \o u6 \o u7 \o u8 \o u9 \o u10 \o u11
  BY DEF IDef34, IInq33
<1> HIDE DEF s1, s2, s3, s4, s5, s6, s7, s8, s9, s10, s11, u1, u2, u3, u4, u5, u6, u7, u8,
             u9, u10, u11, n1, n2, n3, n4, n5, n6, n7, n8, n9, n10, n11
<1>6. Alike(s1 \o s2 \o s3 \o s4, u1 \o u2 \o u3 \o u4, N4, IShapes)
  BY <1>2, <1>4, AlikeJoins
<1>7. Alike(s1 \o s2 \o s3 \o s4 \o s5 \o s6 \o s7 \o s8, u1 \o u2 \o u3 \o u4 \o u5 \o u6
        \o u7 \o u8, N8, IShapes)
  BY <1>2, <1>4, <1>6, AlikeJoins
<1> QED
  BY <1>2, <1>3, <1>4, <1>5, <1>7, AlikeJoins

INames35 ==
  {"SOIL2_HR", "SOIL3C", "SOIL3C_TO_SOIL4C", "SOIL3C_vr", "SOIL3N",
   "SOIL3N_TNDNCY_VERT_TRANS", "SOIL3N_TO_SOIL4N", "SOIL3N_vr", "SOIL3P",
   "SOIL3P_TNDNCY_VERT_TRANS", "SOIL3P_TO_SOIL4P", "SOIL3P_vr", "SOIL3_HR"}
LEMMA IList35 == Alike(IDef35, IInq34, INames35, IShapes)
<1> DEFINE n1 == IDef35!1!1!1!1!1!1!1!1!1!1!1
           n2 == IDef35!1!1!1!1!1!1!1!1!1!2!2
           n3 == IDef35!1!1!1!1!1!1!1!1!2!1
           n4 == IDef35!1!1!1!1!1!1!1!2!2
           n5 == IDef35!1!1!1!1!1!1!2!1
           n6 == IDef35!1!1!1!1!1!2!2
           n7 == IDef35!1!1!1!1!2!1
           n8 == IDef35!1!1!1!2!2
           n9 == IDef35!1!1!2!1
           n10 == IDef35!1!2!2
           n11 == IDef35!2!1
           s1 == IDef35!1!1!1!1!1!1!1!1!1!1   u1 == IInq34!1!1!1!1!1!1!1!1!1!1
           s2 == IDef35!1!1!1!1!1!1!1!1!1!2   u2 == IInq34!1!1!1!1!1!1!1!1!1!2
           s3 == IDef35!1!1!1!1!1!1!1!1!2   u3 == IInq34!1!1!1!1!1!1!1!1!2
           s4 == IDef35!1!1!1!1!1!1!1!2   u4 == IInq34!1!1!1!1!1!1!1!2
           s5 == IDef35!1!1!1!1!1!1!2   u5 == IInq34!1!1!1!1!1!1!2
           s6 == IDef35!1!1!1!1!1!2   u6 == IInq34!1!1!1!1!1!2
           s7 == IDef35!1!1!1!1!2   u7 == IInq34!1!1!1!1!2
           s8 == IDef35!1!1!1!2   u8 == IInq34!1!1!1!2
           s9 == IDef35!1!1!2   u9 == IInq34!1!1!2
           s10 == IDef35!1!2   u10 == IInq34!1!2
           s11 == IDef35!2   u11 == IInq34!2
           N1 == Ran(n1)
           N2 == N1 \cup Ran(n2)
           N3 == N2 \cup Ran(n3)
           N4 == N3 \cup Ran(n4)
           N5 == N4 \cup Ran(n5)
           N6 == N5 \cup Ran(n6)
           N7 == N6 \cup Ran(n7)
           N8 == N7 \cup Ran(n8)
           N9 == N8 \cup Ran(n9)
           N10 == N9 \cup Ran(n10)
           N11 == N10 \cup Ran(n11)
<1>1. /\ IsNames(n1)
      /\ IsNames(n2)
      /\ IsNames(n3)
      /\ IsNames(n4)
      /\ IsNames(n5)
      /\ IsNames(n6)
      /\ IsNames(n7)
      /\ IsNames(n8)
      /\ IsNames(n9)
      /\ IsNames(n10)
      /\ IsNames(n11)
  BY DEF IsNames, IsList
<1>2. /\ N1 \cap Ran(n2) = {}
      /\ N2 \cap Ran(n3) = {}
      /\ N3 \cap Ran(n4) = {}
      /\ N4 \cap Ran(n5) = {}
      /\ N5 \cap Ran(n6) = {}
      /\ N6 \cap Ran(n7) = {}
      /\ N7 \cap Ran(n8) = {}
      /\ N8 \cap Ran(n9) = {}
      /\ N9 \cap Ran(n10) = {}
      /\ N10 \cap Ran(n11) = {}
  BY DEF Ran
<1>3. N11 = INames35
  BY DEF Ran, INames35
<1>4. /\ Alike(s1, u1, Ran(n1), IShapes)
      /\ Alike(s2, u2, Ran(n2), IShapes)
      /\ Alike(s3, u3, Ran(n3), IShapes)
      /\ Alike(s4, u4, Ran(n4), IShapes)
      /\ Alike(s5, u5, Ran(n5), IShapes)
      /\ Alike(s6, u6, Ran(n6), IShapes)
      /\ Alike(s7, u7, Ran(n7), IShapes)
      /\ Alike(s8, u8, Ran(n8), IShapes)
      /\ Alike(s9, u9, Ran(n9), IShapes)
      /\ Alike(s10, u10, Ran(n10), IShapes)
      /\ Alike(s11, u11, Ran(n11), IShapes)
  BY <1>1, GridAlike, LevelsAlike
<1>5. /\ IDef35 = s1 \o s2 \o s3 \o s4 \o s5 \o s6 \o s7 \o s8 \o s9 \o s10 \o s11
      /\ IInq34 = u1 \o u2 \o u3 \o u4 \o u5 \o u6 \o u7 \o u8 \o u9 \o u10 \o u11
  BY DEF IDef35, IInq34
<1> HIDE DEF s1, s2, s3, s4, s5, s6, s7, s8, s9, s10, s11, u1, u2, u3, u4, u5, u6, u7, u8,
             u9, u10, u11, n1, n2, n3, n4, n5, n6, n7, n8, n9, n10, n11
<1>6. Alike(s1 \o s2 \o s3 \o s4, u1 \o u2 \o u3 \o u4, N4, IShapes)
  BY <1>2, <1>4, AlikeJoins
<1>7. Alike(s1 \o s2 \o s3 \o s4 \o s5 \o s6 \o s7 \o s8, u1 \o u2 \o u3 \o u4 \o u5 \o u6
        \o u7 \o u8, N8, IShapes)
  BY <1>2, <1>4, <1>6, AlikeJoins
<1> QED
  BY <1>2, <1>3, <1>4, <1>5, <1>7, AlikeJoins

INames36 ==
  {"SOIL4C", "SOIL4C_vr", "SOIL4N", "SOIL4N_TNDNCY_VERT_TRANS", "SOIL4N_TO_SMINN",
   "SOIL4N_vr", "SOIL4P", "SOIL4P_TNDNCY_VERT_TRANS", "SOIL4P_TO_SMINP", "SOIL4P_vr",
   "SOIL4_HR", "SOILC", "SOILC_HR"}
LEMMA IList36 == Alike(IDef36, IInq35, INames36, IShapes)
<1> DEFINE n1 == IDef36!1!1!1!1!1!1!1!1!1!1!1
           n2 == IDef36!1!1!1!1!1!1!1!1!1!2!2
           n3 == IDef36!1!1!1!1!1!1!1!1!2!1
           n4 == IDef36!1!1!1!1!1!1!1!2!2
           n5 == IDef36!1!1!1!1!1!1!2!1
           n6 == IDef36!1!1!1!1!1!2!2
           n7 == IDef36!1!1!1!1!2!1
           n8 == IDef36!1!1!1!2!2
           n9 == IDef36!1!1!2!1
           n10 == IDef36!1!2!2
           n11 == IDef36!2!1
           s1 == IDef36!1!1!1!1!1!1!1!1!1!1   u1 == IInq35!1!1!1!1!1!1!1!1!1!1
           s2 == IDef36!1!1!1!1!1!1!1!1!1!2   u2 == IInq35!1!1!1!1!1!1!1!1!1!2
           s3 == IDef36!1!1!1!1!1!1!1!1!2   u3 == IInq35!1!1!1!1!1!1!1!1!2
           s4 == IDef36!1!1!1!1!1!1!1!2   u4 == IInq35!1!1!1!1!1!1!1!2
           s5 == IDef36!1!1!1!1!1!1!2   u5 == IInq35!1!1!1!1!1!1!2
           s6 == IDef36!1!1!1!1!1!2   u6 == IInq35!1!1!1!1!1!2
           s7 == IDef36!1!1!1!1!2   u7 == IInq35!1!1!1!1!2
           s8 == IDef36!1!1!1!2   u8 == IInq35!1!1!1!2
           s9 == IDef36!1!1!2   u9 == IInq35!1!1!2
           s10 == IDef36!1!2   u10 == IInq35!1!2
           s11 == IDef36!2   u11 == IInq35!2
           N1 == Ran(n1)
           N2 == N1 \cup Ran(n2)
           N3 == N2 \cup Ran(n3)
           N4 == N3 \cup Ran(n4)
           N5 == N4 \cup Ran(n5)
           N6 == N5 \cup Ran(n6)
           N7 == N6 \cup Ran(n7)
           N8 == N7 \cup Ran(n8)
           N9 == N8 \cup Ran(n9)
           N10 == N9 \cup Ran(n10)
           N11 == N10 \cup Ran(n11)
<1>1. /\ IsNames(n1)
      /\ IsNames(n2)
      /\ IsNames(n3)
      /\ IsNames(n4)
      /\ IsNames(n5)
      /\ IsNames(n6)
      /\ IsNames(n7)
      /\ IsNames(n8)
      /\ IsNames(n9)
      /\ IsNames(n10)
      /\ IsNames(n11)
  BY DEF IsNames, IsList
<1>2. /\ N1 \cap Ran(n2) = {}
      /\ N2 \cap Ran(n3) = {}
      /\ N3 \cap Ran(n4) = {}
      /\ N4 \cap Ran(n5) = {}
      /\ N5 \cap Ran(n6) = {}
      /\ N6 \cap Ran(n7) = {}
      /\ N7 \cap Ran(n8) = {}
      /\ N8 \cap Ran(n9) = {}
      /\ N9 \cap Ran(n10) = {}
      /\ N10 \cap Ran(n11) = {}
  BY DEF Ran
<1>3. N11 = INames36
  BY DEF Ran, INames36
<1>4. /\ Alike(s1, u1, Ran(n1), IShapes)
      /\ Alike(s2, u2, Ran(n2), IShapes)
      /\ Alike(s3, u3, Ran(n3), IShapes)
      /\ Alike(s4, u4, Ran(n4), IShapes)
      /\ Alike(s5, u5, Ran(n5), IShapes)
      /\ Alike(s6, u6, Ran(n6), IShapes)
      /\ Alike(s7, u7, Ran(n7), IShapes)
      /\ Alike(s8, u8, Ran(n8), IShapes)
      /\ Alike(s9, u9, Ran(n9), IShapes)
      /\ Alike(s10, u10, Ran(n10), IShapes)
      /\ Alike(s11, u11, Ran(n11), IShapes)
  BY <1>1, GridAlike, LevelsAlike
<1>5. /\ IDef36 = s1 \o s2 \o s3 \o s4 \o s5 \o s6 \o s7 \o s8 \o s9 \o s10 \o s11
      /\ IInq35 = u1 \o u2 \o u3 \o u4 \o u5 \o u6 \o u7 \o u8 \o u9 \o u10 \o u11
  BY DEF IDef36, IInq35
<1> HIDE DEF s1, s2, s3, s4, s5, s6, s7, s8, s9, s10, s11, u1, u2, u3, u4, u5, u6, u7, u8,
             u9, u10, u11, n1, n2, n3, n4, n5, n6, n7, n8, n9, n10, n11
<1>6. Alike(s1 \o s2 \o s3 \o s4, u1 \o u2 \o u3 \o u4, N4, IShapes)
  BY <1>2, <1>4, AlikeJoins
<1>7. Alike(s1 \o s2 \o s3 \o s4 \o s5 \o s6 \o s7 \o s8, u1 \o u2 \o u3 \o u4 \o u5 \o u6
        \o u7 \o u8, N8, IShapes)
  BY <1>2, <1>4, <1>6, AlikeJoins
<1> QED
  BY <1>2, <1>3, <1>4, <1>5, <1>7, AlikeJoins

INames37 ==
  {"SOILC_LOSS", "SOILICE", "SOILICE_ICE", "SOILLIQ", "SOILLIQ_ICE", "SOILPSI",
   "SOILWATER_10CM", "SOLUTIONP", "SOLUTIONP_vr", "SOMHR", "SOM_C_LEACHED", "SR", "STORVEGC"}
LEMMA IList37 == Alike(IDef37, IInq36, INames37, IShapes)
<1> DEFINE n1 == IDef37!1!1!1!1!1!1
           n2 == IDef37!1!1!1!1!2!2
           n3 == IDef37!1!1!1!2!1
           n4 == IDef37!1!1!2!1
           n5 == IDef37!1!2!2
           n6 == IDef37!2!1
           s1 == IDef37!1!1!1!1!1   u1 == IInq36!1!1!1!1!1
           s2 == IDef37!1!1!1!1!2   u2 == IInq36!1!1!1!1!2
           s3 == IDef37!1!1!1!2   u3 == IInq36!1!1!1!2
           s4 == IDef37!1!1!2   u4 == IInq36!1!1!2
           s5 == IDef37!1!2   u5 == IInq36!1!2
           s6 == IDef37!2   u6 == IInq36!2
           N1 == Ran(n1)
           N2 == N1 \cup Ran(n2)
           N3 == N2 \cup Ran(n3)
           N4 == N3 \cup Ran(n4)
           N5 == N4 \cup Ran(n5)
           N6 == N5 \cup Ran(n6)
<1>1. /\ IsNames(n1)
      /\ IsNames(n2)
      /\ IsNames(n3)
      /\ IsNames(n4)
      /\ IsNames(n5)
      /\ IsNames(n6)
  BY DEF IsNames, IsList
<1>2. /\ N1 \cap Ran(n2) = {}
      /\ N2 \cap Ran(n3) = {}
      /\ N3 \cap Ran(n4) = {}
      /\ N4 \cap Ran(n5) = {}
      /\ N5 \cap Ran(n6) = {}
  BY DEF Ran
<1>3. N6 = INames37
  BY DEF Ran, INames37
<1>4. /\ Alike(s1, u1, Ran(n1), IShapes)
      /\ Alike(s2, u2, Ran(n2), IShapes)
      /\ Alike(s3, u3, Ran(n3), IShapes)
      /\ Alike(s4, u4, Ran(n4), IShapes)
      /\ Alike(s5, u5, Ran(n5), IShapes)
      /\ Alike(s6, u6, Ran(n6), IShapes)
  BY <1>1, GridAlike, LevelsAlike, MoreAlike
<1>5. /\ IDef37 = s1 \o s2 \o s3 \o s4 \o s5 \o s6
      /\ IInq36 = u1 \o u2 \o u3 \o u4 \o u5 \o u6
  BY DEF IDef37, IInq36
<1> HIDE DEF s1, s2, s3, s4, s5, s6, u1, u2, u3, u4, u5, u6, n1, n2, n3, n4, n5, n6
<1> QED
  BY <1>2, <1>3, <1>4, <1>5, AlikeJoins

INames38 ==
  {"STORVEGN", "STORVEGP", "SUPPLEMENT_TO_SMINN", "SUPPLEMENT_TO_SMINP", "SUPPLY",
   "SoilAlpha", "SoilAlpha_U", "TAUX", "TAUY", "TBOT", "TBUILD", "TCS_MONTH_BEGIN",
   "TCS_MONTH_END"}
LEMMA IList38 == Alike(IDef38, IInq37, INames38, IShapes)
<1> DEFINE n == IDef38!1
<1>1. IsNames(n) /\ Ran(n) = INames38
  <2>1. IsNames(n)
    BY DEF IsNames, IsList
  <2>2. Ran(n) = INames38
    BY DEF Ran, INames38
  <2> QED
    BY <2>1, <2>2
<1>2. Alike(IDef38, IInq37, Ran(n), IShapes)
  BY <1>1, GridAlike DEF IDef38, IInq37
<1> QED
  BY <1>1, <1>2

INames39 ==
  {"TG", "TG_R", "TG_U", "TH2OSFC", "THBOT", "TKE1", "TLAI", "TLAKE", "TOTCOLC",
   "TOTCOLCH4", "TOTCOLN", "TOTCOLP", "TOTECOSYSC"}
LEMMA IList39 == Alike(IDef39, IInq38, INames39, IShapes)
<1> DEFINE n1 == IDef39!1!1!1
           n2 == IDef39!1!2!1
           n3 == IDef39!2!1
           s1 == IDef39!1!1   u1 == IInq38!1!1
           s2 == IDef39!1!2   u2 == IInq38!1!2
           s3 == IDef39!2   u3 == IInq38!2
           N1 == Ran(n1)
           N2 == N1 \cup Ran(n2)
           N3 == N2 \cup Ran(n3)
<1>1. /\ IsNames(n1)
      /\ IsNames(n2)
      /\ IsNames(n3)
  <2>1. IsNames(n1)
    BY DEF IsNames, IsList
  <2>2. /\ IsNames(n2)
        /\ IsNames(n3)
    BY DEF IsNames, IsList
  <2> QED
    BY <2>1, <2>2
<1>2. /\ N1 \cap Ran(n2) = {}
      /\ N2 \cap Ran(n3) = {}
  BY DEF Ran
<1>3. N3 = INames39
  BY DEF Ran, INames39
<1>4. /\ Alike(s1, u1, Ran(n1), IShapes)
      /\ Alike(s2, u2, Ran(n2), IShapes)
      /\ Alike(s3, u3, Ran(n3), IShapes)
  BY <1>1, GridAlike, MoreAlike
<1>5. /\ IDef39 = s1 \o s2 \o s3
      /\ IInq38 = u1 \o u2 \o u3
  BY DEF IDef39, IInq38
<1> HIDE DEF s1, s2, s3, u1, u2, u3, n1, n2, n3
<1> QED
  BY <1>2, <1>3, <1>4, <1>5, AlikeJoins

INames40 ==
  {"TOTECOSYSN", "TOTECOSYSP", "TOTLITC", "TOTLITC_1m", "TOTLITN", "TOTLITP", "TOTLITP_1m",
   "TOTPFTC", "TOTPFTN", "TOTPFTP", "TOTSOMC", "TOTSOMC_1m", "TOTSOMN"}
LEMMA IList40 == Alike(IDef40, IInq39, INames40, IShapes)
<1> DEFINE n == IDef40!1
<1>1. IsNames(n) /\ Ran(n) = INames40
  <2>1. IsNames(n)
    BY DEF IsNames, IsList
  <2>2. Ran(n) = INames40
    BY DEF Ran, INames40
  <2> QED
    BY <2>1, <2>2
<1>2. Alike(IDef40, IInq39, Ran(n), IShapes)
  BY <1>1, GridAlike DEF IDef40, IInq39
<1> QED
  BY <1>1, <1>2

INames41 ==
  {"TOTSOMP", "TOTSOMP_1m", "TOTVEGC", "TOTVEGC_ABG", "TOTVEGN", "TOTVEGP", "TREFMNAV",
   "TREFMNAV_R", "TREFMNAV_U", "TREFMXAV", "TREFMXAV_R", "TREFMXAV_U", "TSA"}
LEMMA IList41 == Alike(IDef41, IInq40, INames41, IShapes)
<1> DEFINE n == IDef41!1
<1>1. IsNames(n) /\ Ran(n) = INames41
  <2>1. IsNames(n)
    BY DEF IsNames, IsList
  <2>2. Ran(n) = INames41
    BY DEF Ran, INames41
  <2> QED
    BY <2>1, <2>2
<1>2. Alike(IDef41, IInq40, Ran(n), IShapes)
  BY <1>1, GridAlike DEF IDef41, IInq40
<1> QED
  BY <1>1, <1>2

INames42 ==
  {"TSAI", "TSA_R", "TSA_U", "TSOI", "TSOI_10CM", "TSOI_ICE", "TV", "TWS",
   "TWS_MONTH_BEGIN", "TWS_MONTH_END", "T_SCALAR", "U10", "URBAN_AC"}
LEMMA IList42 == Alike(IDef42, IInq41, INames42, IShapes)
<1> DEFINE n1 == IDef42!1!1!1!1!1!1!1
           n2 == IDef42!1!1!1!1!1!2!1
           n3 == IDef42!1!1!1!1!2!1
           n4 == IDef42!1!1!1!2!2
           n5 == IDef42!1!1!2!1
           n6 == IDef42!1!2!2
           n7 == IDef42!2!1
           s1 == IDef42!1!1!1!1!1!1   u1 == IInq41!1!1!1!1!1!1
           s2 == IDef42!1!1!1!1!1!2   u2 == IInq41!1!1!1!1!1!2
           s3 == IDef42!1!1!1!1!2   u3 == IInq41!1!1!1!1!2
           s4 == IDef42!1!1!1!2   u4 == IInq41!1!1!1!2
           s5 == IDef42!1!1!2   u5 == IInq41!1!1!2
           s6 == IDef42!1!2   u6 == IInq41!1!2
           s7 == IDef42!2   u7 == IInq41!2
           N1 == Ran(n1)
           N2 == N1 \cup Ran(n2)
           N3 == N2 \cup Ran(n3)
           N4 == N3 \cup Ran(n4)
           N5 == N4 \cup Ran(n5)
           N6 == N5 \cup Ran(n6)
           N7 == N6 \cup Ran(n7)
<1>1. /\ IsNames(n1)
      /\ IsNames(n2)
      /\ IsNames(n3)
      /\ IsNames(n4)
      /\ IsNames(n5)
      /\ IsNames(n6)
      /\ IsNames(n7)
  BY DEF IsNames, IsList
<1>2. /\ N1 \cap Ran(n2) = {}
      /\ N2 \cap Ran(n3) = {}
      /\ N3 \cap Ran(n4) = {}
      /\ N4 \cap Ran(n5) = {}
      /\ N5 \cap Ran(n6) = {}
      /\ N6 \cap Ran(n7) = {}
  BY DEF Ran
<1>3. N7 = INames42
  BY DEF Ran, INames42
<1>4. /\ Alike(s1, u1, Ran(n1), IShapes)
      /\ Alike(s2, u2, Ran(n2), IShapes)
      /\ Alike(s3, u3, Ran(n3), IShapes)
      /\ Alike(s4, u4, Ran(n4), IShapes)
      /\ Alike(s5, u5, Ran(n5), IShapes)
      /\ Alike(s6, u6, Ran(n6), IShapes)
      /\ Alike(s7, u7, Ran(n7), IShapes)
  BY <1>1, GridAlike, LevelsAlike, MoreAlike
<1>5. /\ IDef42 = s1 \o s2 \o s3 \o s4 \o s5 \o s6 \o s7
      /\ IInq41 = u1 \o u2 \o u3 \o u4 \o u5 \o u6 \o u7
  BY DEF IDef42, IInq41
<1> HIDE DEF s1, s2, s3, s4, s5, s6, s7, u1, u2, u3, u4, u5, u6, u7, n1, n2, n3, n4, n5, n6,
             n7
<1>6. Alike(s1 \o s2 \o s3 \o s4, u1 \o u2 \o u3 \o u4, N4, IShapes)
  BY <1>2, <1>4, AlikeJoins
<1> QED
  BY <1>2, <1>3, <1>4, <1>5, <1>6, AlikeJoins

INames43 ==
  {"URBAN_HEAT", "VOLR", "VOLRMCH", "WA", "WASTEHEAT", "WF", "WIND", "WOODC", "WOODC_ALLOC",
   "WOODC_LOSS", "WOOD_HARVESTC", "WOOD_HARVESTN", "WTGQ"}
LEMMA IList43 == Alike(IDef43, IInq42, INames43, IShapes)
<1> DEFINE n == IDef43!1
<1>1. IsNames(n) /\ Ran(n) = INames43
  <2>1. IsNames(n)
    BY DEF IsNames, IsList
  <2>2. Ran(n) = INames43
    BY DEF Ran, INames43
  <2> QED
    BY <2>1, <2>2
<1>2. Alike(IDef43, IInq42, Ran(n), IShapes)
  BY <1>1, GridAlike DEF IDef43, IInq42
<1> QED
  BY <1>1, <1>2

INames44 ==
  {"W_SCALAR", "XR", "XSMRPOOL", "ZBOT", "ZWT", "ZWT_CH4_UNSAT", "ZWT_PERCH", "cn_scalar",
   "cp_scalar", "leaf_npimbalance", "nlim_m", "o2_decomp_depth_unsat", "plim_m"}
LEMMA IList44 == Alike(IDef44, IInq43, INames44, IShapes)
<1> DEFINE n1 == IDef44!1!1!1!2
           n2 == IDef44!1!1!2!1
           n3 == IDef44!1!2!2
           n4 == IDef44!2!1
           s1 == IDef44!1!1!1   u1 == IInq43!1!1!1
           s2 == IDef44!1!1!2   u2 == IInq43!1!1!2
           s3 == IDef44!1!2   u3 == IInq43!1!2
           s4 == IDef44!2   u4 == IInq43!2
           N1 == Ran(n1)
           N2 == N1 \cup Ran(n2)
           N3 == N2 \cup Ran(n3)
           N4 == N3 \cup Ran(n4)
<1>1. /\ IsNames(n1)
      /\ IsNames(n2)
      /\ IsNames(n3)
      /\ IsNames(n4)
  <2>1. IsNames(n2)
    BY DEF IsNames, IsList
  <2>2. /\ IsNames(n1)
        /\ IsNames(n3)
        /\ IsNames(n4)
    BY DEF IsNames, IsList
  <2> QED
    BY <2>1, <2>2
<1>2. /\ N1 \cap Ran(n2) = {}
      /\ N2 \cap Ran(n3) = {}
      /\ N3 \cap Ran(n4) = {}
  BY DEF Ran
<1>3. N4 = INames44
  BY DEF Ran, INames44
<1>4. /\ Alike(s1, u1, Ran(n1), IShapes)
      /\ Alike(s2, u2, Ran(n2), IShapes)
      /\ Alike(s3, u3, Ran(n3), IShapes)
      /\ Alike(s4, u4, Ran(n4), IShapes)
  BY <1>1, GridAlike, LevelsAlike
<1>5. /\ IDef44 = s1 \o s2 \o s3 \o s4
      /\ IInq43 = u1 \o u2 \o u3 \o u4
  BY DEF IDef44, IInq43
<1> HIDE DEF s1, s2, s3, s4, u1, u2, u3, u4, n1, n2, n3, n4
<1> QED
  BY <1>2, <1>3, <1>4, <1>5, AlikeJoins

\* The parts that are in different orders.
LEMMA IFront ==
  \A hist :
    Pair(IDef1 \o Only("h0", hist, IDef2) \o IDef3, IInq1 \o Only("h0", hist, IInq2),
         IDef1Names \cup IDef2Names \cup IDef3Names, IShapes, 1, 7)
<1> TAKE hist
<1> DEFINE s == Only("h0", hist, IDef2)
           u == Only("h0", hist, IInq2)
           x == IF hist = "h0" THEN IDef2Shown ELSE {}
<1>1. /\ Block(IDef1, IDef1Names, IShapes, 2, 3) /\ Table(IDef1, IDef1Names)
      /\ Shown(IDef1) = IDef1Shown
      /\ Block(IDef2, IDef2Names, IShapes, 3, 3) /\ Shown(IDef2) = IDef2Shown
      /\ Block(IDef3, IDef3Names, IShapes, 5, 7) /\ Table(IDef3, IDef3Names)
      /\ Shown(IDef3) = IDef3Shown
      /\ Table(IInq1, IInq1Names) /\ Shown(IInq1) = IInq1Shown
      /\ Table(IInq2, IInq2Names) /\ Shown(IInq2) = IInq2Shown
  BY IDef1Is, IDef2Is, IDef3Is, IInq1Is, IInq2Is DEF Says, Asks, Block
<1>2. /\ IInq1Names = IDef1Names \cup IDef3Names
      /\ IInq2Names = IDef2Names
      /\ IDef1Names \cap IDef2Names = {}
      /\ (IDef1Names \cup IDef2Names) \cap IDef3Names = {}
      /\ IInq1Names \cap IInq2Names = {}
  BY DEF IInq1Names, IInq2Names, IDef1Names, IDef2Names, IDef3Names
<1>3. IInq1Shown = IDef1Shown \cup IDef3Shown
  BY DEF IInq1Shown, IDef1Shown, IDef3Shown
<1>4. IInq2Shown = IDef2Shown
  BY DEF IInq2Shown, IDef2Shown
<1>5. /\ Block(<<>>, IDef2Names, IShapes, 3, 3) /\ Table(<<>>, IDef2Names)
      /\ Shown(<<>>) = {}
  <2>1. Pair(<<>>, <<>>, IDef2Names, IShapes, 3, 3)
    BY NothingIs
  <2>2. Ran(<<>>) = {}
    BY DEF Ran
  <2> QED
    BY <2>1, <2>2 DEF Pair, Shown
<1>6. /\ Block(s, IDef2Names, IShapes, 3, 3) /\ Table(s, IDef2Names) /\ Shown(s) = x
      /\ Table(u, IInq2Names) /\ Shown(u) = x
  BY <1>1, <1>2, <1>4, <1>5 DEF Only, Block
<1> HIDE DEF s, u, x
<1>7. Block(IDef1 \o s, IDef1Names \cup IDef2Names, IShapes, 2, 3)
  BY <1>1, <1>2, <1>6, BlockJoins
<1>8. Block((IDef1 \o s) \o IDef3, IDef1Names \cup IDef2Names \cup IDef3Names, IShapes, 2, 7)
  BY <1>1, <1>2, <1>7, BlockJoins
<1>9. Block((IDef1 \o s) \o IDef3, IDef1Names \cup IDef2Names \cup IDef3Names, IShapes, 1, 7)
  BY <1>8, BlockWidens
<1>10. Shown((IDef1 \o s) \o IDef3) = IDef1Shown \cup x \cup IDef3Shown
  <2>1. Shown(IDef1 \o s) = IDef1Shown \cup x
    BY <1>1, <1>6, ShownJoins
  <2>2. Table(IDef1 \o s, IDef1Names \cup IDef2Names)
    BY <1>7 DEF Block
  <2> QED
    BY <1>1, <2>1, <2>2, ShownJoins
<1>11. Table(IInq1 \o u, IInq1Names \cup IInq2Names)
  BY <1>1, <1>2, <1>6, TableJoins
<1>12. Shown(IInq1 \o u) = IInq1Shown \cup x
  BY <1>1, <1>6, ShownJoins
<1>13. Pair((IDef1 \o s) \o IDef3, IInq1 \o u,
            IDef1Names \cup IDef2Names \cup IDef3Names, IShapes, 1, 7)
  <2>1. IInq1Names \cup IInq2Names = IDef1Names \cup IDef2Names \cup IDef3Names
    BY <1>2
  <2>2. Shown(IInq1 \o u) = Shown((IDef1 \o s) \o IDef3)
    BY <1>3, <1>10, <1>12
  <2> QED
    BY <1>9, <1>11, <2>1, <2>2 DEF Pair
<1> QED
  BY <1>13 DEF s, u

\* ... and all.
LEMMA IPair ==
  ASSUME NEW hist
  PROVE  \E N : Pair(IDefined(hist), IInquired(hist), N, IShapes, 1, 7)
<1> DEFINE N0 == IDef1Names \cup IDef2Names \cup IDef3Names
           N1 == N0 \cup INames4
           N2 == N1 \cup INames5
           N3 == N2 \cup INames6
           N4 == N3 \cup INames7
           N5 == N4 \cup INames8
           N6 == N5 \cup INames9
           N7 == N6 \cup INames10
           N8 == N7 \cup INames11
           N9 == N8 \cup INames12
           N10 == N9 \cup INames13
           N11 == N10 \cup INames14
           N12 == N11 \cup INames15
           N13 == N12 \cup INames16
           N14 == N13 \cup INames17
           N15 == N14 \cup INames18
           N16 == N15 \cup INames19
           N17 == N16 \cup INames20
           N18 == N17 \cup INames21
           N19 == N18 \cup INames22
           N20 == N19 \cup INames23
           N21 == N20 \cup INames24
           N22 == N21 \cup INames25
           N23 == N22 \cup INames26
           N24 == N23 \cup INames27
           N25 == N24 \cup INames28
           N26 == N25 \cup INames29
           N27 == N26 \cup INames30
           N28 == N27 \cup INames31
           N29 == N28 \cup INames32
           N30 == N29 \cup INames33
           N31 == N30 \cup INames34
           N32 == N31 \cup INames35
           N33 == N32 \cup INames36
           N34 == N33 \cup INames37
           N35 == N34 \cup INames38
           N36 == N35 \cup INames39
           N37 == N36 \cup INames40
           N38 == N37 \cup INames41
           N39 == N38 \cup INames42
           N40 == N39 \cup INames43
           N41 == N40 \cup INames44
<1>1. N0 \cap INames4 = {}
  BY DEF IDef1Names, IDef2Names, IDef3Names, INames4
<1>2. N1 \cap INames5 = {}
  BY DEF IDef1Names, IDef2Names, IDef3Names, INames4, INames5
<1>3. N2 \cap INames6 = {}
  BY DEF IDef1Names, IDef2Names, IDef3Names, INames4, INames5, INames6
<1>4. N3 \cap INames7 = {}
  BY DEF IDef1Names, IDef2Names, IDef3Names, INames4, INames5, INames6, INames7
<1>5. N4 \cap INames8 = {}
  BY DEF IDef1Names, IDef2Names, IDef3Names, INames4, INames5, INames6, INames7, INames8
<1>6. N5 \cap INames9 = {}
  BY DEF IDef1Names, IDef2Names, IDef3Names, INames4, INames5, INames6, INames7, INames8,
         INames9
<1>7. N6 \cap INames10 = {}
  BY DEF IDef1Names, IDef2Names, IDef3Names, INames4, INames5, INames6, INames7, INames8,
         INames9, INames10
<1>8. N7 \cap INames11 = {}
  BY DEF IDef1Names, IDef2Names, IDef3Names, INames4, INames5, INames6, INames7, INames8,
         INames9, INames10, INames11
<1>9. N8 \cap INames12 = {}
  BY DEF IDef1Names, IDef2Names, IDef3Names, INames4, INames5, INames6, INames7, INames8,
         INames9, INames10, INames11, INames12
<1>10. N9 \cap INames13 = {}
  BY DEF IDef1Names, IDef2Names, IDef3Names, INames4, INames5, INames6, INames7, INames8,
         INames9, INames10, INames11, INames12, INames13
<1>11. N10 \cap INames14 = {}
  BY DEF IDef1Names, IDef2Names, IDef3Names, INames4, INames5, INames6, INames7, INames8,
         INames9, INames10, INames11, INames12, INames13, INames14
<1>12. N11 \cap INames15 = {}
  BY DEF IDef1Names, IDef2Names, IDef3Names, INames4, INames5, INames6, INames7, INames8,
         INames9, INames10, INames11, INames12, INames13, INames14, INames15
<1>13. N12 \cap INames16 = {}
  BY DEF IDef1Names, IDef2Names, IDef3Names, INames4, INames5, INames6, INames7, INames8,
         INames9, INames10, INames11, INames12, INames13, INames14, INames15, INames16
<1>14. N13 \cap INames17 = {}
  BY DEF IDef1Names, IDef2Names, IDef3Names, INames4, INames5, INames6, INames7, INames8,
         INames9, INames10, INames11, INames12, INames13, INames14, INames15, INames16,
         INames17
<1>15. N14 \cap INames18 = {}
  BY DEF IDef1Names, IDef2Names, IDef3Names, INames4, INames5, INames6, INames7, INames8,
         INames9, INames10, INames11, INames12, INames13, INames14, INames15, INames16,
         INames17, INames18
<1>16. N15 \cap INames19 = {}
  BY DEF IDef1Names, IDef2Names, IDef3Names, INames4, INames5, INames6, INames7, INames8,
         INames9, INames10, INames11, INames12, INames13, INames14, INames15, INames16,
         INames17, INames18, INames19
<1>17. N16 \cap INames20 = {}
  BY DEF IDef1Names, IDef2Names, IDef3Names, INames4, INames5, INames6, INames7, INames8,
         INames9, INames10, INames11, INames12, INames13, INames14, INames15, INames16,
         INames17, INames18, INames19, INames20
<1>18. N17 \cap INames21 = {}
  BY DEF IDef1Names, IDef2Names, IDef3Names, INames4, INames5, INames6, INames7, INames8,
         INames9, INames10, INames11, INames12, INames13, INames14, INames15, INames16,
         INames17, INames18, INames19, INames20, INames21
<1>19. N18 \cap INames22 = {}
  BY DEF IDef1Names, IDef2Names, IDef3Names, INames4, INames5, INames6, INames7, INames8,
         INames9, INames10, INames11, INames12, INames13, INames14, INames15, INames16,
         INames17, INames18, INames19, INames20, INames21, INames22
<1>20. N19 \cap INames23 = {}
  BY DEF IDef1Names, IDef2Names, IDef3Names, INames4, INames5, INames6, INames7, INames8,
         INames9, INames10, INames11, INames12, INames13, INames14, INames15, INames16,
         INames17, INames18, INames19, INames20, INames21, INames22, INames23
<1>21. N20 \cap INames24 = {}
  BY DEF IDef1Names, IDef2Names, IDef3Names, INames4, INames5, INames6, INames7, INames8,
         INames9, INames10, INames11, INames12, INames13, INames14, INames15, INames16,
         INames17, INames18, INames19, INames20, INames21, INames22, INames23, INames24
<1>22. N21 \cap INames25 = {}
  BY DEF IDef1Names, IDef2Names, IDef3Names, INames4, INames5, INames6, INames7, INames8,
         INames9, INames10, INames11, INames12, INames13, INames14, INames15, INames16,
         INames17, INames18, INames19, INames20, INames21, INames22, INames23, INames24,
         INames25
<1>23. N22 \cap INames26 = {}
  BY DEF IDef1Names, IDef2Names, IDef3Names, INames4, INames5, INames6, INames7, INames8,
         INames9, INames10, INames11, INames12, INames13, INames14, INames15, INames16,
         INames17, INames18, INames19, INames20, INames21, INames22, INames23, INames24,
         INames25, INames26
<1>24. N23 \cap INames27 = {}
  BY DEF IDef1Names, IDef2Names, IDef3Names, INames4, INames5, INames6, INames7, INames8,
         INames9, INames10, INames11, INames12, INames13, INames14, INames15, INames16,
         INames17, INames18, INames19, INames20, INames21, INames22, INames23, INames24,
         INames25, INames26, INames27
<1>25. N24 \cap INames28 = {}
  BY DEF IDef1Names, IDef2Names, IDef3Names, INames4, INames5, INames6, INames7, INames8,
         INames9, INames10, INames11, INames12, INames13, INames14, INames15, INames16,
         INames17, INames18, INames19, INames20, INames21, INames22, INames23, INames24,
         INames25, INames26, INames27, INames28
<1>26. N25 \cap INames29 = {}
  BY DEF IDef1Names, IDef2Names, IDef3Names, INames4, INames5, INames6, INames7, INames8,
         INames9, INames10, INames11, INames12, INames13, INames14, INames15, INames16,
         INames17, INames18, INames19, INames20, INames21, INames22, INames23, INames24,
         INames25, INames26, INames27, INames28, INames29
<1>27. N26 \cap INames30 = {}
  BY DEF IDef1Names, IDef2Names, IDef3Names, INames4, INames5, INames6, INames7, INames8,
         INames9, INames10, INames11, INames12, INames13, INames14, INames15, INames16,
         INames17, INames18, INames19, INames20, INames21, INames22, INames23, INames24,
         INames25, INames26, INames27, INames28, INames29, INames30
<1>28. N27 \cap INames31 = {}
  BY DEF IDef1Names, IDef2Names, IDef3Names, INames4, INames5, INames6, INames7, INames8,
         INames9, INames10, INames11, INames12, INames13, INames14, INames15, INames16,
         INames17, INames18, INames19, INames20, INames21, INames22, INames23, INames24,
         INames25, INames26, INames27, INames28, INames29, INames30, INames31
<1>29. N28 \cap INames32 = {}
  BY DEF IDef1Names, IDef2Names, IDef3Names, INames4, INames5, INames6, INames7, INames8,
         INames9, INames10, INames11, INames12, INames13, INames14, INames15, INames16,
         INames17, INames18, INames19, INames20, INames21, INames22, INames23, INames24,
         INames25, INames26, INames27, INames28, INames29, INames30, INames31, INames32
<1>30. N29 \cap INames33 = {}
  BY DEF IDef1Names, IDef2Names, IDef3Names, INames4, INames5, INames6, INames7, INames8,
         INames9, INames10, INames11, INames12, INames13, INames14, INames15, INames16,
         INames17, INames18, INames19, INames20, INames21, INames22, INames23, INames24,
         INames25, INames26, INames27, INames28, INames29, INames30, INames31, INames32,
         INames33
<1>31. N30 \cap INames34 = {}
  BY DEF IDef1Names, IDef2Names, IDef3Names, INames4, INames5, INames6, INames7, INames8,
         INames9, INames10, INames11, INames12, INames13, INames14, INames15, INames16,
         INames17, INames18, INames19, INames20, INames21, INames22, INames23, INames24,
         INames25, INames26, INames27, INames28, INames29, INames30, INames31, INames32,
         INames33, INames34
<1>32. N31 \cap INames35 = {}
  BY DEF IDef1Names, IDef2Names, IDef3Names, INames4, INames5, INames6, INames7, INames8,
         INames9, INames10, INames11, INames12, INames13, INames14, INames15, INames16,
         INames17, INames18, INames19, INames20, INames21, INames22, INames23, INames24,
         INames25, INames26, INames27, INames28, INames29, INames30, INames31, INames32,
         INames33, INames34, INames35
<1>33. N32 \cap INames36 = {}
  BY DEF IDef1Names, IDef2Names, IDef3Names, INames4, INames5, INames6, INames7, INames8,
         INames9, INames10, INames11, INames12, INames13, INames14, INames15, INames16,
         INames17, INames18, INames19, INames20, INames21, INames22, INames23, INames24,
         INames25, INames26, INames27, INames28, INames29, INames30, INames31, INames32,
         INames33, INames34, INames35, INames36
<1>34. N33 \cap INames37 = {}
  BY DEF IDef1Names, IDef2Names, IDef3Names, INames4, INames5, INames6, INames7, INames8,
         INames9, INames10, INames11, INames12, INames13, INames14, INames15, INames16,
         INames17, INames18, INames19, INames20, INames21, INames22, INames23, INames24,
         INames25, INames26, INames27, INames28, INames29, INames30, INames31, INames32,
         INames33, INames34, INames35, INames36, INames37
<1>35. N34 \cap INames38 = {}
  BY DEF IDef1Names, IDef2Names, IDef3Names, INames4, INames5, INames6, INames7, INames8,
         INames9, INames10, INames11, INames12, INames13, INames14, INames15, INames16,
         INames17, INames18, INames19, INames20, INames21, INames22, INames23, INames24,
         INames25, INames26, INames27, INames28, INames29, INames30, INames31, INames32,
         INames33, INames34, INames35, INames36, INames37, INames38
<1>36. N35 \cap INames39 = {}
  BY DEF IDef1Names, IDef2Names, IDef3Names, INames4, INames5, INames6, INames7, INames8,
         INames9, INames10, INames11, INames12, INames13, INames14, INames15, INames16,
         INames17, INames18, INames19, INames20, INames21, INames22, INames23, INames24,
         INames25, INames26, INames27, INames28, INames29, INames30, INames31, INames32,
         INames33, INames34, INames35, INames36, INames37, INames38, INames39
<1>37. N36 \cap INames40 = {}
  BY DEF IDef1Names, IDef2Names, IDef3Names, INames4, INames5, INames6, INames7, INames8,
         INames9, INames10, INames11, INames12, INames13, INames14, INames15, INames16,
         INames17, INames18, INames19, INames20, INames21, INames22, INames23, INames24,
         INames25, INames26, INames27, INames28, INames29, INames30, INames31, INames32,
         INames33, INames34, INames35, INames36, INames37, INames38, INames39, INames40
<1>38. N37 \cap INames41 = {}
  BY DEF IDef1Names, IDef2Names, IDef3Names, INames4, INames5, INames6, INames7, INames8,
         INames9, INames10, INames11, INames12, INames13, INames14, INames15, INames16,
         INames17, INames18, INames19, INames20, INames21, INames22, INames23, INames24,
         INames25, INames26, INames27, INames28, INames29, INames30, INames31, INames32,
         INames33, INames34, INames35, INames36, INames37, INames38, INames39, INames40,
         INames41
<1>39. N38 \cap INames42 = {}
  BY DEF IDef1Names, IDef2Names, IDef3Names, INames4, INames5, INames6, INames7, INames8,
         INames9, INames10, INames11, INames12, INames13, INames14, INames15, INames16,
         INames17, INames18, INames19, INames20, INames21, INames22, INames23, INames24,
         INames25, INames26, INames27, INames28, INames29, INames30, INames31, INames32,
         INames33, INames34, INames35, INames36, INames37, INames38, INames39, INames40,
         INames41, INames42
<1>40. N39 \cap INames43 = {}
  BY DEF IDef1Names, IDef2Names, IDef3Names, INames4, INames5, INames6, INames7, INames8,
         INames9, INames10, INames11, INames12, INames13, INames14, INames15, INames16,
         INames17, INames18, INames19, INames20, INames21, INames22, INames23, INames24,
         INames25, INames26, INames27, INames28, INames29, INames30, INames31, INames32,
         INames33, INames34, INames35, INames36, INames37, INames38, INames39, INames40,
         INames41, INames42, INames43
<1>41. N40 \cap INames44 = {}
  BY DEF IDef1Names, IDef2Names, IDef3Names, INames4, INames5, INames6, INames7, INames8,
         INames9, INames10, INames11, INames12, INames13, INames14, INames15, INames16,
         INames17, INames18, INames19, INames20, INames21, INames22, INames23, INames24,
         INames25, INames26, INames27, INames28, INames29, INames30, INames31, INames32,
         INames33, INames34, INames35, INames36, INames37, INames38, INames39, INames40,
         INames41, INames42, INames43, INames44
<1> HIDE DEF N0, N1, N2, N3, N4, N5, N6, N7, N8, N9, N10, N11, N12, N13, N14, N15, N16, N17,
             N18, N19, N20, N21, N22, N23, N24, N25, N26, N27, N28, N29, N30, N31, N32, N33,
             N34, N35, N36, N37, N38, N39, N40, N41
<1> DEFINE s0 == IDef1 \o Only("h0", hist, IDef2) \o IDef3
           s1 == s0 \o IDef4
           s2 == s1 \o IDef5
           s3 == s2 \o IDef6
           s4 == s3 \o IDef7
           s5 == s4 \o IDef8
           s6 == s5 \o IDef9
           s7 == s6 \o IDef10
           s8 == s7 \o IDef11
           s9 == s8 \o IDef12
           s10 == s9 \o IDef13
           s11 == s10 \o IDef14
           s12 == s11 \o IDef15
           s13 == s12 \o IDef16
           s14 == s13 \o IDef17
           s15 == s14 \o IDef18
           s16 == s15 \o IDef19
           s17 == s16 \o IDef20
           s18 == s17 \o IDef21
           s19 == s18 \o IDef22
           s20 == s19 \o IDef23
           s21 == s20 \o IDef24
           s22 == s21 \o IDef25
           s23 == s22 \o IDef26
           s24 == s23 \o IDef27
           s25 == s24 \o IDef28
           s26 == s25 \o IDef29
           s27 == s26 \o IDef30
           s28 == s27 \o IDef31
           s29 == s28 \o IDef32
           s30 == s29 \o IDef33
           s31 == s30 \o IDef34
           s32 == s31 \o IDef35
           s33 == s32 \o IDef36
           s34 == s33 \o IDef37
           s35 == s34 \o IDef38
           s36 == s35 \o IDef39
           s37 == s36 \o IDef40
           s38 == s37 \o IDef41
           s39 == s38 \o IDef42
           s40 == s39 \o IDef43
           s41 == s40 \o IDef44
           u0 == IInq1 \o Only("h0", hist, IInq2)
           u1 == u0 \o IInq3
           u2 == u1 \o IInq4
           u3 == u2 \o IInq5
           u4 == u3 \o IInq6
           u5 == u4 \o IInq7
           u6 == u5 \o IInq8
           u7 == u6 \o IInq9
           u8 == u7 \o IInq10
           u9 == u8 \o IInq11
           u10 == u9 \o IInq12
           u11 == u10 \o IInq13
           u12 == u11 \o IInq14
           u13 == u12 \o IInq15
           u14 == u13 \o IInq16
           u15 == u14 \o IInq17
           u16 == u15 \o IInq18
           u17 == u16 \o IInq19
           u18 == u17 \o IInq20
           u19 == u18 \o IInq21
           u20 == u19 \o IInq22
           u21 == u20 \o IInq23
           u22 == u21 \o IInq24
           u23 == u22 \o IInq25
           u24 == u23 \o IInq26
           u25 == u24 \o IInq27
           u26 == u25 \o IInq28
           u27 == u26 \o IInq29
           u28 == u27 \o IInq30
           u29 == u28 \o IInq31
           u30 == u29 \o IInq32
           u31 == u30 \o IInq33
           u32 == u31 \o IInq34
           u33 == u32 \o IInq35
           u34 == u33 \o IInq36
           u35 == u34 \o IInq37
           u36 == u35 \o IInq38
           u37 == u36 \o IInq39
           u38 == u37 \o IInq40
           u39 == u38 \o IInq41
           u40 == u39 \o IInq42
           u41 == u40 \o IInq43
<1>42. IDefined(hist) = s41 /\ IInquired(hist) = u41
  BY DEF IDefined, IInquired
<1> HIDE DEF s0, s1, s2, s3, s4, s5, s6, s7, s8, s9, s10, s11, s12, s13, s14, s15, s16, s17,
             s18, s19, s20, s21, s22, s23, s24, s25, s26, s27, s28, s29, s30, s31, s32, s33,
             s34, s35, s36, s37, s38, s39, s40, s41, u0, u1, u2, u3, u4, u5, u6, u7, u8, u9,
             u10, u11, u12, u13, u14, u15, u16, u17, u18, u19, u20, u21, u22, u23, u24, u25,
             u26, u27, u28, u29, u30, u31, u32, u33, u34, u35, u36, u37, u38, u39, u40, u41
<1>43. Pair(s0, u0, N0, IShapes, 1, 7)
  BY IFront DEF s0, u0, N0
<1>44. Pair(s1, u1, N1, IShapes, 1, 7)
  BY <1>1, <1>43, IList4, PairExtends DEF s1, u1, N1
<1>45. Pair(s2, u2, N2, IShapes, 1, 7)
  BY <1>2, <1>44, IList5, PairExtends DEF s2, u2, N2
<1>46. Pair(s3, u3, N3, IShapes, 1, 7)
  BY <1>3, <1>45, IList6, PairExtends DEF s3, u3, N3
<1>47. Pair(s4, u4, N4, IShapes, 1, 7)
  BY <1>4, <1>46, IList7, PairExtends DEF s4, u4, N4
<1>48. Pair(s5, u5, N5, IShapes, 1, 7)
  BY <1>5, <1>47, IList8, PairExtends DEF s5, u5, N5
<1>49. Pair(s6, u6, N6, IShapes, 1, 7)
  BY <1>6, <1>48, IList9, PairExtends DEF s6, u6, N6
<1>50. Pair(s7, u7, N7, IShapes, 1, 7)
  BY <1>7, <1>49, IList10, PairExtends DEF s7, u7, N7
<1>51. Pair(s8, u8, N8, IShapes, 1, 7)
  BY <1>8, <1>50, IList11, PairExtends DEF s8, u8, N8
<1>52. Pair(s9, u9, N9, IShapes, 1, 7)
  BY <1>9, <1>51, IList12, PairExtends DEF s9, u9, N9
<1>53. Pair(s10, u10, N10, IShapes, 1, 7)
  BY <1>10, <1>52, IList13, PairExtends DEF s10, u10, N10
<1>54. Pair(s11, u11, N11, IShapes, 1, 7)
  BY <1>11, <1>53, IList14, PairExtends DEF s11, u11, N11
<1>55. Pair(s12, u12, N12, IShapes, 1, 7)
  BY <1>12, <1>54, IList15, PairExtends DEF s12, u12, N12
<1>56. Pair(s13, u13, N13, IShapes, 1, 7)
  BY <1>13, <1>55, IList16, PairExtends DEF s13, u13, N13
<1>57. Pair(s14, u14, N14, IShapes, 1, 7)
  BY <1>14, <1>56, IList17, PairExtends DEF s14, u14, N14
<1>58. Pair(s15, u15, N15, IShapes, 1, 7)
  BY <1>15, <1>57, IList18, PairExtends DEF s15, u15, N15
<1>59. Pair(s16, u16, N16, IShapes, 1, 7)
  BY <1>16, <1>58, IList19, PairExtends DEF s16, u16, N16
<1>60. Pair(s17, u17, N17, IShapes, 1, 7)
  BY <1>17, <1>59, IList20, PairExtends DEF s17, u17, N17
<1>61. Pair(s18, u18, N18, IShapes, 1, 7)
  BY <1>18, <1>60, IList21, PairExtends DEF s18, u18, N18
<1>62. Pair(s19, u19, N19, IShapes, 1, 7)
  BY <1>19, <1>61, IList22, PairExtends DEF s19, u19, N19
<1>63. Pair(s20, u20, N20, IShapes, 1, 7)
  BY <1>20, <1>62, IList23, PairExtends DEF s20, u20, N20
<1>64. Pair(s21, u21, N21, IShapes, 1, 7)
  BY <1>21, <1>63, IList24, PairExtends DEF s21, u21, N21
<1>65. Pair(s22, u22, N22, IShapes, 1, 7)
  BY <1>22, <1>64, IList25, PairExtends DEF s22, u22, N22
<1>66. Pair(s23, u23, N23, IShapes, 1, 7)
  BY <1>23, <1>65, IList26, PairExtends DEF s23, u23, N23
<1>67. Pair(s24, u24, N24, IShapes, 1, 7)
  BY <1>24, <1>66, IList27, PairExtends DEF s24, u24, N24
<1>68. Pair(s25, u25, N25, IShapes, 1, 7)
  BY <1>25, <1>67, IList28, PairExtends DEF s25, u25, N25
<1>69. Pair(s26, u26, N26, IShapes, 1, 7)
  BY <1>26, <1>68, IList29, PairExtends DEF s26, u26, N26
<1>70. Pair(s27, u27, N27, IShapes, 1, 7)
  BY <1>27, <1>69, IList30, PairExtends DEF s27, u27, N27
<1>71. Pair(s28, u28, N28, IShapes, 1, 7)
  BY <1>28, <1>70, IList31, PairExtends DEF s28, u28, N28
<1>72. Pair(s29, u29, N29, IShapes, 1, 7)
  BY <1>29, <1>71, IList32, PairExtends DEF s29, u29, N29
<1>73. Pair(s30, u30, N30, IShapes, 1, 7)
  BY <1>30, <1>72, IList33, PairExtends DEF s30, u30, N30
<1>74. Pair(s31, u31, N31, IShapes, 1, 7)
  BY <1>31, <1>73, IList34, PairExtends DEF s31, u31, N31
<1>75. Pair(s32, u32, N32, IShapes, 1, 7)
  BY <1>32, <1>74, IList35, PairExtends DEF s32, u32, N32
<1>76. Pair(s33, u33, N33, IShapes, 1, 7)
  BY <1>33, <1>75, IList36, PairExtends DEF s33, u33, N33
<1>77. Pair(s34, u34, N34, IShapes, 1, 7)
  BY <1>34, <1>76, IList37, PairExtends DEF s34, u34, N34
<1>78. Pair(s35, u35, N35, IShapes, 1, 7)
  BY <1>35, <1>77, IList38, PairExtends DEF s35, u35, N35
<1>79. Pair(s36, u36, N36, IShapes, 1, 7)
  BY <1>36, <1>78, IList39, PairExtends DEF s36, u36, N36
<1>80. Pair(s37, u37, N37, IShapes, 1, 7)
  BY <1>37, <1>79, IList40, PairExtends DEF s37, u37, N37
<1>81. Pair(s38, u38, N38, IShapes, 1, 7)
  BY <1>38, <1>80, IList41, PairExtends DEF s38, u38, N38
<1>82. Pair(s39, u39, N39, IShapes, 1, 7)
  BY <1>39, <1>81, IList42, PairExtends DEF s39, u39, N39
<1>83. Pair(s40, u40, N40, IShapes, 1, 7)
  BY <1>40, <1>82, IList43, PairExtends DEF s40, u40, N40
<1>84. Pair(s41, u41, N41, IShapes, 1, 7)
  BY <1>41, <1>83, IList44, PairExtends DEF s41, u41, N41
<1> QED
  BY <1>42, <1>84

-----------------------------------------------------------------------------
(* The lists of all files.                                                 *)

\* What a pair of lists says is what the proofs below need.
LEMMA PairMatches ==
  ASSUME NEW f \in Files, NEW N, Pair(Written[f], LookedUp[f], N, Shapes[f[1]], 1, 7)
  PROVE  Matched(f)
<1> DEFINE s == Written[f]
           u == LookedUp[f]
<1>1. /\ Block(s, N, Shapes[f[1]], 1, 7) /\ Table(s, N) /\ Table(u, N)
      /\ Shown(u) = Shown(s)
  BY DEF Pair, Block
<1> HIDE DEF s, u
<1>2. \A t : IsList(t) => t \in Seq(Ran(t))
  <2> SUFFICES ASSUME NEW t, NEW n \in Nat, t = [j \in 1 .. n |-> t[j]]
               PROVE  t \in Seq(Ran(t))
    BY DEF IsList
  <2>1. \A j \in 1 .. n : t[j] \in Ran(t)
    BY DEF Ran
  <2> HIDE DEF Ran
  <2> QED
    BY <2>1
<1>3. s \in Seq(Ran(s)) /\ u \in Seq(Ran(u))
  BY <1>1, <1>2 DEF Table
<1>4. \A q \in Ran(u) : \E v \in Ran(s) : Same(q, v)
  <2> TAKE q \in Ran(u)
  <2>1. <<q.name, q.decomp, q.itype, q.attrs>> \in Shown(s)
    BY <1>1 DEF Shown
  <2>2. PICK v \in Ran(s) : <<v.name, v.decomp, v.itype, v.attrs>>
                              = <<q.name, q.decomp, q.itype, q.attrs>>
    BY <2>1 DEF Shown
  <2> QED
    BY <2>2 DEF Same
<1>5. \A v \in Ran(s) : \E q \in Ran(u) : Same(q, v)
  <2> TAKE v \in Ran(s)
  <2>1. <<v.name, v.decomp, v.itype, v.attrs>> \in Shown(u)
    BY <1>1 DEF Shown
  <2>2. PICK q \in Ran(u) : <<v.name, v.decomp, v.itype, v.attrs>>
                              = <<q.name, q.decomp, q.itype, q.attrs>>
    BY <2>1 DEF Shown
  <2> QED
    BY <2>2 DEF Same
<1>6. /\ Distinct(s) /\ Distinct(u)
      /\ \A v \in Ran(s) : <<v.dims, v.itype, v.decomp>> \in Shapes[f[1]]
      /\ \A j, k \in DOMAIN s :
           j <= k => Position(BufOf(s[j])) <= Position(BufOf(s[k]))
  BY <1>1 DEF Table, Block, Place
<1> QED
  BY <1>3, <1>4, <1>5, <1>6 DEF Matched, s, u

\* In each of the five files the writer's and the reader's list have the same
\* variables, each once, with the same types and decompositions, and in the
\* writer's list the buffers come in their order in memory.
LEMMA FilesMatch == \A f \in Files : Matched(f)
<1> TAKE f \in Files
<1>1. CASE f[1] = "F"
  <2>1. Written[f] = FDefined(f[2]) /\ LookedUp[f] = FInquired(f[2]) /\ Shapes[f[1]] = FShapes
    BY <1>1 DEF Written, LookedUp, Shapes
  <2>2. PICK N : Pair(FDefined(f[2]), FInquired(f[2]), N, FShapes, 1, 7)
    BY FPair
  <2> QED
    BY <2>1, <2>2, PairMatches
<1>2. CASE f[1] = "G"
  <2>1. Written[f] = GDefined(f[2]) /\ LookedUp[f] = GInquired(f[2]) /\ Shapes[f[1]] = GShapes
    BY <1>2 DEF Written, LookedUp, Shapes
  <2>2. PICK N : Pair(GDefined(f[2]), GInquired(f[2]), N, GShapes, 1, 7)
    BY GPair
  <2> QED
    BY <2>1, <2>2, PairMatches
<1>3. CASE f[1] = "I"
  <2>1. Written[f] = IDefined(f[2]) /\ LookedUp[f] = IInquired(f[2]) /\ Shapes[f[1]] = IShapes
    BY <1>3 DEF Written, LookedUp, Shapes
  <2>2. PICK N : Pair(IDefined(f[2]), IInquired(f[2]), N, IShapes, 1, 7)
    BY IPair
  <2> QED
    BY <2>1, <2>2, PairMatches
<1> QED
  BY <1>1, <1>2, <1>3 DEF Files

-----------------------------------------------------------------------------
(* What a process goes through, as functions of its parameters r: w tells a *)
(* writer from a reader.                                                    *)

List(r, w) == IF w THEN Written[r.file] ELSE LookedUp[r.file]
MetaOf(r, w, j) ==
  IF w THEN Written[r.file][j]
  ELSE LET q == LookedUp[r.file][j]
       IN  [name |-> q.name, dims |-> InFile[r.file][q.name].dims,
            itype |-> q.itype, decomp |-> q.decomp]
LengthOf(r, v) ==
  IF v.decomp >= 0 THEN (IF r.root THEN RootCount[r.file[1]] ELSE OtherCount[r.file[1]])[v.decomp + 1]
  ELSE Product(Lengths(r.file[1], v.dims))
Posts(r, v, k) ==
  /\ v.decomp >= 0 \/ r.root
  /\ IsRec(v) \/ k = 0
  /\ v.itype # "int64"

\* What the definitions add to buffer b for entry j, and the sums.
Share(r, w, b) ==
  [j \in 1 .. Len(List(r, w)) |->
     IF /\ BufOf(MetaOf(r, w, j)) = b
        /\ w => MetaOf(r, w, j).decomp >= 0 \/ r.root
     THEN LengthOf(r, MetaOf(r, w, j)) + r.gap ELSE 0]
Total(r, w, b) == Prefix(Share(r, w, b), Len(List(r, w)))

\* The requests of record k for the entries before entry m.
Requests(r, w, k, m) ==
  {Request(MetaOf(r, w, j)) : j \in {l \in 1 .. m - 1 : Posts(r, MetaOf(r, w, l), k)}}

Writing == phase \in {"def", "post"}

\* The parameters of a run.
LEMMA RunsIs ==
  ASSUME NEW r \in Runs
  PROVE  /\ r.file \in Files /\ r.file[1] \in Cases
         /\ r.root \in BOOLEAN /\ r.gap \in Nat
         /\ r.ffreq \in Nat /\ 1 <= r.ffreq /\ r.ffreq <= NRecs
         /\ r.layout \in {"canonical", "blob", "copied"}
<1>1. /\ r.file \in Files /\ r.layout \in {"canonical", "blob", "copied"}
      /\ r.root \in BOOLEAN /\ r.gap \in {0, 10} /\ r.ffreq \in Ffreqs
  BY DEF Runs, BufGap
<1>2. \A f \in Files : f[1] \in Cases
  BY DEF Files, Cases
<1>3. r.ffreq \in 1 .. NRecs /\ NRecs \in Nat
  BY <1>1, FileAssumption
<1> QED
  BY <1>1, <1>2, <1>3

\* A name in the file finds its variable.
LEMMA InFileIs ==
  ASSUME NEW f \in Files, NEW v \in Ran(Written[f])
  PROVE  v.name \in Names[f] /\ InFile[f][v.name] = v
<1>1. PICK k \in DOMAIN Written[f] : v = Written[f][k]
  BY DEF Ran
<1>2. v.name \in Names[f]
  BY <1>1 DEF Names
<1>3. \A j \in DOMAIN Written[f] : Written[f][j].name = v.name => j = k
  BY <1>1, FilesMatch DEF Matched, Distinct
<1>4. (CHOOSE j \in DOMAIN Written[f] : Written[f][j].name = v.name) = k
  BY <1>1, <1>3
<1>5. InFile[f][v.name]
        = Written[f][CHOOSE j \in DOMAIN Written[f] : Written[f][j].name = v.name]
  BY <1>2 DEF InFile
<1> QED
  BY <1>1, <1>2, <1>4, <1>5

\* The metadata of an entry is that of a variable of the file.
LEMMA MetaIs ==
  ASSUME NEW r \in Runs, NEW w \in BOOLEAN, NEW j \in 1 .. Len(List(r, w))
  PROVE  \E v \in Ran(Written[r.file]) :
           LET m == MetaOf(r, w, j)
           IN  /\ m.name = v.name /\ m.dims = v.dims /\ m.itype = v.itype /\ m.decomp = v.decomp
               /\ ~w => Same(LookedUp[r.file][j], v)
<1>1. r.file \in Files /\ Matched(r.file)
  BY RunsIs, FilesMatch
<1>2. CASE w
  <2>1. j \in DOMAIN Written[r.file]
    BY <1>1, <1>2 DEF List, Matched
  <2> QED
    BY <1>2, <2>1 DEF MetaOf, Ran
<1>3. CASE ~w
  <2>1. j \in DOMAIN LookedUp[r.file]
    BY <1>1, <1>3 DEF List, Matched
  <2>2. LookedUp[r.file][j] \in Ran(LookedUp[r.file])
    BY <2>1 DEF Ran
  <2>3. PICK v \in Ran(Written[r.file]) : Same(LookedUp[r.file][j], v)
    BY <1>1, <2>2 DEF Matched
  <2>4. InFile[r.file][LookedUp[r.file][j].name] = v
    BY <1>1, <2>3, InFileIs DEF Same
  <2> QED
    BY <1>3, <2>3, <2>4 DEF MetaOf, Same
<1> QED
  BY <1>2, <1>3

\* An entry of either list, as the loops see it.
LEMMA MetaType ==
  ASSUME NEW r \in Runs, NEW w \in BOOLEAN, NEW j \in 1 .. Len(List(r, w))
  PROVE  LET m == MetaOf(r, w, j)
         IN  /\ ShapeFits(r.file[1], m.dims, m.itype, m.decomp)
             /\ LengthOf(r, m) \in Nat
             /\ BufOf(m) \in Buf
             /\ BufOf(m)[1] = IF IsRec(m) THEN "rec" ELSE "fix"
             /\ m.itype # "int64"
<1> DEFINE m == MetaOf(r, w, j)
           case == r.file[1]
<1>1. r.file \in Files /\ case \in Cases /\ Matched(r.file)
  BY RunsIs, FilesMatch
<1>2. ShapeFits(case, m.dims, m.itype, m.decomp)
  <2>1. PICK v \in Ran(Written[r.file]) :
          m.dims = v.dims /\ m.itype = v.itype /\ m.decomp = v.decomp
    BY MetaIs
  <2>2. <<v.dims, v.itype, v.decomp>> \in Shapes[case]
    BY <1>1 DEF Matched
  <2> QED
    BY <1>1, <2>1, <2>2, ShapesFit
<1> HIDE DEF m
<1>3. LengthOf(r, m) \in Nat
  <2>1. CASE m.decomp >= 0
    <3>1. m.decomp + 1 \in DOMAIN GlobalDims[case]
      BY <1>2, <2>1 DEF ShapeFits
    <3>2. /\ RootCount[case] \in [DOMAIN GlobalDims[case] -> Nat]
          /\ OtherCount[case] \in [DOMAIN GlobalDims[case] -> Nat]
      BY <1>1, MapAssumption DEF Cases
    <3> QED
      BY <2>1, <3>1, <3>2 DEF LengthOf
  <2>2. CASE ~(m.decomp >= 0)
    <3>1. Lengths(case, m.dims) \in Seq(Nat)
      BY <1>2 DEF ShapeFits
    <3> QED
      BY <2>2, <3>1, ProductNat DEF LengthOf
  <2> QED
    BY <2>1, <2>2
<1>4. m.itype \in {"char", "int", "double"}
  BY <1>2 DEF ShapeFits
<1>5. BufOf(m) \in Buf /\ BufOf(m)[1] = IF IsRec(m) THEN "rec" ELSE "fix"
  <2>1. \A k \in {"fix", "rec"}, y \in {"char", "int", "double"} : <<k, y>> \in Buf
    <3>1. Buf = {Buffers[k] : k \in 1 .. 8}
      BY BuffersIs DEF Buf
    <3>2. /\ Buffers[1] = <<"fix", "char">> /\ Buffers[2] = <<"fix", "int">>
          /\ Buffers[3] = <<"fix", "double">>
          /\ Buffers[5] = <<"rec", "char">> /\ Buffers[6] = <<"rec", "int">>
          /\ Buffers[7] = <<"rec", "double">>
      BY DEF Buffers
    <3> QED
      BY <3>1, <3>2
  <2> QED
    BY <1>4, <2>1 DEF BufOf
<1> QED
  BY <1>2, <1>3, <1>4, <1>5 DEF m

\* The sums.
LEMMA TotalIs ==
  ASSUME NEW r \in Runs, NEW w \in BOOLEAN, NEW b \in Buf
  PROVE  /\ Len(List(r, w)) \in Nat
         /\ DOMAIN List(r, w) = 1 .. Len(List(r, w))
         /\ Total(r, w, b) \in [0 .. Len(List(r, w)) -> Nat]
         /\ Total(r, w, b)[0] = 0
         /\ \A j \in 1 .. Len(List(r, w)) :
              Total(r, w, b)[j] = Total(r, w, b)[j - 1] + Share(r, w, b)[j]
         /\ \A j, k \in 0 .. Len(List(r, w)) : j <= k => Total(r, w, b)[j] <= Total(r, w, b)[k]
<1> DEFINE n == Len(List(r, w))
<1>1. List(r, w) \in Seq(Ran(List(r, w)))
  BY RunsIs, FilesMatch DEF List, Matched
<1>2. n \in Nat /\ DOMAIN List(r, w) = 1 .. n
  BY <1>1
<1>3. Share(r, w, b) \in [1 .. n -> Nat]
  <2> SUFFICES ASSUME NEW j \in 1 .. n
               PROVE  LengthOf(r, MetaOf(r, w, j)) + r.gap \in Nat
    BY DEF Share
  <2>1. LengthOf(r, MetaOf(r, w, j)) \in Nat
    BY MetaType
  <2>2. r.gap \in Nat
    BY RunsIs
  <2> QED
    BY <2>1, <2>2
<1>4. IsPrefixSum(Total(r, w, b), Share(r, w, b), n)
  BY <1>2, <1>3, PrefixExists DEF Total
<1>5. \A j, k \in 0 .. n : j <= k => Total(r, w, b)[j] <= Total(r, w, b)[k]
  BY <1>2, <1>3, PrefixGrows DEF Total
<1> QED
  BY <1>2, <1>4, <1>5 DEF IsPrefixSum

-----------------------------------------------------------------------------
(* The inductive invariant.                                                 *)

Entry(j) == MetaOf(run, Writing, j)
Sum(b)   == Total(run, Writing, b)
Final     == Len(List(run, Writing))

TypeInv ==
  /\ run \in Runs
  /\ phase \in {"def", "post", "inq", "get", "closed", "done"}
  /\ phase \in {"def", "inq", "post", "get"} => i \in 0 .. Final + 1
  /\ phase \in {"inq", "post", "get"} => i # 0
  /\ phase \in {"closed", "done"} => i = 0 /\ buflen = NoBuf
  /\ phase \notin {"post", "get"} => rec = 0 /\ ptr = NoBuf /\ posted = {} /\ last = 0
  /\ rec \in 0 .. NRecs - 1
  /\ buflen \in [Buf -> Nat] /\ ptr \in [Buf -> Nat]
  /\ last \in Nat

\* How many records a buffer holds, and how many are in it already.
Room(r, b) == IF b[1] = "rec" /\ r.layout # "copied" THEN r.ffreq ELSE 1
Kept(r, k) == IF r.layout = "copied" THEN 0 ELSE k % r.ffreq

\* The buffers have the lengths of the variables defined so far, later of all
\* of them and of the records they hold ...
LengthInv ==
  \A b \in Buf :
    /\ phase \in {"def", "inq"} /\ i # 0 => Sum(b)[i - 1] <= buflen[b]
    /\ phase \in {"post", "get"} => Sum(b)[Final] * Room(run, b) <= buflen[b]

\* ... and what is in them are the variables posted since the last flush.
PointerInv ==
  phase \in {"post", "get"} =>
    \A b \in Buf :
      ptr[b] <= IF b[1] = "rec" THEN Kept(run, rec) * Sum(b)[Final] + Sum(b)[i - 1]
                ELSE IF rec = 0 THEN Sum(b)[i - 1] ELSE Sum(b)[Final]

PostedInv ==
  phase \in {"post", "get"} => posted = Requests(run, Writing, rec, i)

\* The last request of a record ends in a buffer that no later variable is
\* before.
LastInv ==
  phase = "post" /\ run.gap = 0 =>
    \E c \in 1 .. 8 :
      /\ last <= Offset(buflen)[c - 1] + ptr[Buffers[c]] * Size(Buffers[c])
      /\ \A j \in i .. Final : c <= Position(BufOf(Entry(j)))

IInv == TypeInv /\ LengthInv /\ PointerInv /\ PostedInv /\ LastInv

-----------------------------------------------------------------------------
(* The entry that is next. *)

\* The list that is gone through.
LEMMA EntriesAre == Entries = List(run, Writing)
  BY DEF Entries, List, Writing

\* The lengths of the variables of a buffer, added up along the list.
LEMMA SumIs ==
  ASSUME TypeInv
  PROVE  /\ Writing \in BOOLEAN /\ Final \in Nat /\ Len(Entries) = Final
         /\ DOMAIN Entries = 1 .. Final
         /\ \A b \in Buf :
              /\ Sum(b) \in [0 .. Final -> Nat] /\ Sum(b)[0] = 0
              /\ \A j \in 1 .. Final : Sum(b)[j] = Sum(b)[j - 1] + Share(run, Writing, b)[j]
              /\ \A j, k \in 0 .. Final : j <= k => Sum(b)[j] <= Sum(b)[k]
<1>1. run \in Runs /\ Writing \in BOOLEAN
  BY DEF TypeInv, Writing
<1>2. Len(List(run, Writing)) \in Nat /\ DOMAIN List(run, Writing) = 1 .. Len(List(run, Writing))
  <2>1. NoBuf \in [Buf -> Int] /\ <<"fix", "int">> \in Buf
    BY BuffersIs DEF NoBuf, Buf, Buffers
  <2> QED
    BY <1>1, <2>1, TotalIs
<1> QED
  BY <1>1, <1>2, TotalIs, EntriesAre DEF Sum, Final

\* The entry that is next, its length and its buffer.
LEMMA Here ==
  ASSUME TypeInv, i \in DOMAIN Entries
  PROVE  /\ i \in 1 .. Final /\ i - 1 \in 0 .. Final
         /\ Meta = Entry(i)
         /\ VLen(Meta) \in Nat
         /\ BufOf(Meta) \in Buf
         /\ BufOf(Meta)[1] = IF IsRec(Meta) THEN "rec" ELSE "fix"
         /\ IsPosted(Meta, rec) <=> Posts(run, Entry(i), rec)
         /\ \A b : Share(run, Writing, b)[i]
                     = IF BufOf(Meta) = b /\ (Writing => Meta.decomp >= 0 \/ run.root)
                       THEN VLen(Meta) + run.gap ELSE 0
         /\ run.gap \in Nat
<1>1. run \in Runs /\ Writing \in BOOLEAN /\ i \in 1 .. Final /\ i - 1 \in 0 .. Final
  BY SumIs DEF TypeInv
<1>2. Meta = Entry(i)
  BY EntriesAre DEF Meta, Entry, MetaOf, Entries, Inquire, Writing
<1>3. \A v : VLen(v) = LengthOf(run, v) /\ (IsPosted(v, rec) <=> Posts(run, v, rec))
  BY DEF VLen, LengthOf, Case, Count, IsPosted, Posts
<1>4. /\ LengthOf(run, Entry(i)) \in Nat /\ BufOf(Entry(i)) \in Buf
      /\ BufOf(Entry(i))[1] = IF IsRec(Entry(i)) THEN "rec" ELSE "fix"
  BY <1>1, MetaType DEF Entry, Final
<1>5. \A b : Share(run, Writing, b)[i]
               = IF BufOf(Entry(i)) = b /\ (Writing => Entry(i).decomp >= 0 \/ run.root)
                 THEN LengthOf(run, Entry(i)) + run.gap ELSE 0
  BY <1>1 DEF Share, Entry, Final
<1>6. run.gap \in Nat
  BY <1>1, RunsIs
<1> QED
  BY <1>1, <1>2, <1>3, <1>4, <1>5, <1>6

\* An entry has one of the eight buffers.
LEMMA EntryType ==
  ASSUME TypeInv, NEW j \in 1 .. Final
  PROVE  BufOf(Entry(j)) \in Buf /\ Entry(j).itype # "int64"
<1>1. run \in Runs /\ Writing \in BOOLEAN
  BY DEF TypeInv, Writing
<1> QED
  BY <1>1, MetaType DEF Entry, Final

\* A writer's variables are in the order of their buffers.
LEMMA Ascending ==
  ASSUME TypeInv, Writing, i \in 1 .. Final, NEW j \in i .. Final
  PROVE  Position(BufOf(Entry(i))) <= Position(BufOf(Entry(j)))
<1>1. run.file \in Files /\ Final \in Nat
  BY RunsIs, SumIs DEF TypeInv
<1>2. List(run, Writing) = Written[run.file] /\ \A k : Entry(k) = Written[run.file][k]
  BY DEF List, Entry, MetaOf
<1>3. i \in DOMAIN Written[run.file] /\ j \in DOMAIN Written[run.file] /\ i <= j
  BY <1>1, <1>2, SumIs, EntriesAre
<1> QED
  BY <1>1, <1>2, <1>3, FilesMatch DEF Matched

\* As long as the process does not change, its lists and sums do not.
LEMMA Frame ==
  ASSUME run' = run, Writing' = Writing
  PROVE  /\ Final' = Final
         /\ \A b : Sum(b)' = Sum(b)
         /\ \A j : Entry(j)' = Entry(j)
         /\ \A k, m : Requests(run', Writing', k, m) = Requests(run, Writing, k, m)
  BY DEF Final, Sum, Entry

\* A record buffer has room for the records kept until the next flush.
LEMMA RoomIs ==
  ASSUME NEW r \in Runs
  PROVE  /\ \A b \in Buf : Room(r, b) \in Nat /\ 1 <= Room(r, b)
         /\ \A k \in Nat : Kept(r, k) \in Nat
         /\ \A b \in Buf, k \in Nat : b[1] = "rec" => Kept(r, k) + 1 <= Room(r, b)
         /\ \A k \in Nat : Kept(r, k + 1) = IF r.layout = "copied" \/ (k + 1) % r.ffreq = 0
                                            THEN 0 ELSE Kept(r, k) + 1
<1>1. r.ffreq \in Nat /\ 1 <= r.ffreq
  BY RunsIs
<1>2. \A k \in Nat : k % r.ffreq \in Nat /\ (k % r.ffreq) + 1 <= r.ffreq
  <2>1. r.ffreq \in Positive
    BY <1>1 DEF Positive
  <2>2. \A k \in Nat : (k % r.ffreq) \in 0 .. r.ffreq - 1
    BY <2>1, DivMod
  <2> QED
    BY <1>1, <2>2
<1>3. \A k \in Nat : (k + 1) % r.ffreq # 0 => (k + 1) % r.ffreq = (k % r.ffreq) + 1
  <2> SUFFICES ASSUME NEW k \in Nat, (k + 1) % r.ffreq # 0
               PROVE  (k + 1) % r.ffreq = (k % r.ffreq) + 1
    OBVIOUS
  <2> DEFINE f == r.ffreq
             q == k \div f
             p == k % f
  <2>1. f \in Positive
    BY <1>1 DEF Positive
  <2>2. q \in Nat /\ k = f * q + p /\ p \in 0 .. f - 1
    BY <2>1, DivMod
  <2> HIDE DEF q, p
  <2>3. CASE p + 1 < f
    <3>1. p + 1 \in 0 .. f - 1 /\ k + 1 = f * q + (p + 1) /\ k + 1 \in Nat
      BY <2>1, <2>2, <2>3 DEF Positive
    <3>2. (k + 1) % f = p + 1
      BY <2>1, <2>2, <3>1, DivUnique
    <3> QED
      BY <3>2 DEF p
  <2>4. CASE p + 1 = f
    <3>1. 0 \in 0 .. f - 1 /\ k + 1 = f * (q + 1) + 0 /\ k + 1 \in Nat /\ q + 1 \in Nat
      BY <2>1, <2>2, <2>4 DEF Positive
    <3>2. (k + 1) % f = 0
      BY <2>1, <3>1, DivUnique
    <3> QED
      BY <3>2
  <2>5. p + 1 < f \/ p + 1 = f
    <3>1. p \in 0 .. f - 1
      BY <2>2
    <3> HIDE DEF f
    <3> QED
      BY ONLY <2>1, <3>1 DEF Positive
  <2> QED
    BY <2>3, <2>4, <2>5
<1>4. \A b \in Buf : Room(r, b) \in Nat /\ 1 <= Room(r, b)
  BY <1>1 DEF Room
<1>5. \A k \in Nat : Kept(r, k) \in Nat
  BY <1>2 DEF Kept
<1>6. \A b \in Buf, k \in Nat : b[1] = "rec" => Kept(r, k) + 1 <= Room(r, b)
  BY <1>1, <1>2 DEF Room, Kept
<1>7. \A k \in Nat : Kept(r, k + 1) = IF r.layout = "copied" \/ (k + 1) % r.ffreq = 0
                                      THEN 0 ELSE Kept(r, k) + 1
  BY <1>3 DEF Kept
<1> QED
  BY <1>4, <1>5, <1>6, <1>7

-----------------------------------------------------------------------------
(* The initial states and the actions. *)

\* The sums before the first entry.
LEMMA NoBufIs ==
  /\ NoBuf \in [Buf -> Nat] /\ \A b \in Buf : NoBuf[b] = 0
  BY DEF NoBuf

\* The invariant holds at first, and each action preserves it.
LEMMA InitIInv == Init => IInv
<1> SUFFICES ASSUME Init PROVE IInv
  OBVIOUS
<1>1. run \in Runs /\ phase = "def" /\ i = 0 /\ rec = 0 /\ posted = {} /\ last = 0
  BY DEF Init
<1>2. buflen = NoBuf /\ ptr = NoBuf
  BY DEF Init
<1>3. Final \in Nat /\ NRecs \in Nat \ {0}
  <2>1. Writing \in BOOLEAN /\ <<"fix", "int">> \in Buf
    BY BuffersIs DEF Writing, Buf, Buffers
  <2> QED
    BY <1>1, <2>1, TotalIs, FileAssumption DEF Final
<1>4. TypeInv
  BY <1>1, <1>2, <1>3, NoBufIs DEF TypeInv
<1> QED
  BY <1>1, <1>4 DEF IInv, LengthInv, PointerInv, PostedInv, LastInv

\* The decompositions' own variables only make the fixed-size buffers larger.
LEMMA HeaderStep ==
  ASSUME IInv, DefHeader PROVE IInv'
<1>1. /\ phase = "def" /\ i = 0 /\ i' = 1 /\ run' = run /\ phase' = "def" /\ rec' = rec
      /\ ptr' = ptr /\ posted' = posted /\ last' = last
  BY DEF DefHeader
<1>2. Writing' = Writing
  BY <1>1 DEF Writing
<1>3. TypeInv /\ Final \in Nat
  BY SumIs DEF IInv
<1>4. buflen' \in [Buf -> Nat]
  <2> DEFINE n  == Len(GlobalDims[Case])
             d4 == n * (2 * (NBlobs + run.gap) + 2 * (NBlobs * MaxNreqs + run.gap))
             d8 == n * (NBlobs + run.gap)
  <2>1. n \in Nat
    <3>1. Case \in Cases
      BY <1>3, RunsIs DEF Case, TypeInv
    <3> QED
      BY <3>1 DEF Cases, GlobalDims, FGlobalDims, GGlobalDims, IGlobalDims
  <2>2. run.gap \in Nat /\ NBlobs \in Nat /\ MaxNreqs \in Nat
    BY <1>3, RunsIs, FileAssumption DEF TypeInv
  <2>3. d4 \in Nat /\ d8 \in Nat
    <3> HIDE DEF n
    <3>1. NBlobs * MaxNreqs \in Nat
      BY <2>2
    <3>2. /\ 2 * (NBlobs + run.gap) + 2 * (NBlobs * MaxNreqs + run.gap) \in Nat
          /\ NBlobs + run.gap \in Nat
      BY <2>2, <3>1
    <3> QED
      BY <2>1, <3>2
  <2>4. buflen \in [Buf -> Nat]
    BY <1>3 DEF TypeInv
  <2>5. \/ buflen' = [buflen EXCEPT ![<<"fix", "int">>] = @ + d4, ![<<"fix", "int64">>] = @ + d8]
        \/ buflen' = buflen
    BY DEF DefHeader
  <2> HIDE DEF d4, d8
  <2> QED
    BY <2>3, <2>4, <2>5
<1>5. Final' = Final /\ \A b \in Buf : Sum(b)' = Sum(b) /\ Sum(b)[0] = 0
  BY <1>1, <1>2, <1>3, Frame, SumIs
<1>6. TypeInv'
  BY <1>1, <1>3, <1>4, <1>5 DEF TypeInv
<1>7. LengthInv'
  BY <1>1, <1>4, <1>5 DEF LengthInv
<1> QED
  BY <1>1, <1>6, <1>7 DEF IInv, PointerInv, PostedInv, LastInv

\* The buffers are extended by what an entry needs.
LEMMA EnlargedIs ==
  ASSUME TypeInv, i \in DOMAIN Entries, i # 0,
         \A b \in Buf : Sum(b)[i - 1] <= buflen[b],
         buflen' = IF ~Writing \/ Meta.decomp >= 0 \/ run.root THEN Enlarged(Meta) ELSE buflen
  PROVE  /\ buflen' \in [Buf -> Nat]
         /\ \A b \in Buf : Sum(b)[i] <= buflen'[b]
<1> DEFINE c == BufOf(Meta)
           d == VLen(Meta) + run.gap
<1>1. c \in Buf /\ d \in Nat /\ i \in 1 .. Final
  BY Here
<1>2. buflen \in [Buf -> Nat]
  BY DEF TypeInv
<1>3. buflen' = IF ~Writing \/ Meta.decomp >= 0 \/ run.root
                THEN [buflen EXCEPT ![c] = @ + d] ELSE buflen
  <2>1. Enlarged(Meta) = [buflen EXCEPT ![c] = buflen[c] + VLen(Meta) + run.gap]
    BY DEF Enlarged
  <2>2. buflen[c] + VLen(Meta) + run.gap = buflen[c] + d
    BY <1>1, <1>2, Here
  <2> QED
    BY <2>1, <2>2
<1>4. \A b \in Buf : Share(run, Writing, b)[i]
                       = IF c = b /\ (~Writing \/ Meta.decomp >= 0 \/ run.root) THEN d ELSE 0
  BY Here
<1>5. \A b \in Buf : Sum(b)[i] = Sum(b)[i - 1] + Share(run, Writing, b)[i] /\ Sum(b)[i - 1] \in Nat
  BY <1>1, Here, SumIs
<1> HIDE DEF c, d
<1>6. buflen' \in [Buf -> Nat]
  BY <1>1, <1>2, <1>3
<1>7. ASSUME NEW b \in Buf PROVE Sum(b)[i] <= buflen'[b]
  <2>1. buflen'[b] = buflen[b] + Share(run, Writing, b)[i]
    BY <1>1, <1>2, <1>3, <1>4
  <2>2. Sum(b)[i - 1] <= buflen[b] /\ buflen[b] \in Nat /\ Share(run, Writing, b)[i] \in Nat
    BY <1>1, <1>2, <1>4
  <2> QED
    BY <1>5, <2>1, <2>2
<1> QED
  BY <1>6, <1>7

\* def_var() adds a variable's length to its buffer.
LEMMA DefVarStep ==
  ASSUME IInv, DefVar PROVE IInv'
<1>1. /\ phase = "def" /\ i \in DOMAIN Entries /\ i' = i + 1 /\ run' = run /\ phase' = "def"
      /\ rec' = rec /\ ptr' = ptr /\ posted' = posted /\ last' = last
  BY DEF DefVar
<1>2. Writing /\ Writing' = Writing
  BY <1>1 DEF Writing
<1>3. TypeInv /\ LengthInv
  BY DEF IInv
<1>4. i \in 1 .. Final /\ Final \in Nat
  BY <1>1, <1>3, Here, SumIs
<1>5. buflen' \in [Buf -> Nat] /\ \A b \in Buf : Sum(b)[i] <= buflen'[b]
  <2>1. \A b \in Buf : Sum(b)[i - 1] <= buflen[b]
    BY <1>1, <1>3, <1>4 DEF LengthInv
  <2>2. buflen' = IF ~Writing \/ Meta.decomp >= 0 \/ run.root THEN Enlarged(Meta) ELSE buflen
    BY <1>2 DEF DefVar
  <2> QED
    BY <1>1, <1>3, <1>4, <2>1, <2>2, EnlargedIs
<1>6. Final' = Final /\ \A b \in Buf : Sum(b)' = Sum(b)
  BY <1>1, <1>2, Frame
<1>7. TypeInv'
  BY <1>1, <1>3, <1>4, <1>5, <1>6 DEF TypeInv
<1>8. LengthInv'
  BY <1>1, <1>4, <1>5, <1>6 DEF LengthInv
<1> QED
  BY <1>1, <1>7, <1>8 DEF IInv, PointerInv, PostedInv, LastInv

\* inq_var() adds a variable's length to its buffer.
LEMMA InqVarStep ==
  ASSUME IInv, InqVar PROVE IInv'
<1>1. /\ phase = "inq" /\ i \in DOMAIN Entries /\ i' = i + 1 /\ run' = run /\ phase' = "inq"
      /\ rec' = rec /\ ptr' = ptr /\ posted' = posted /\ last' = last
  BY DEF InqVar
<1>2. ~Writing /\ Writing' = Writing
  BY <1>1 DEF Writing
<1>3. TypeInv /\ LengthInv
  BY DEF IInv
<1>4. i \in 1 .. Final /\ Final \in Nat
  BY <1>1, <1>3, Here, SumIs
<1>5. buflen' \in [Buf -> Nat] /\ \A b \in Buf : Sum(b)[i] <= buflen'[b]
  <2>1. \A b \in Buf : Sum(b)[i - 1] <= buflen[b]
    BY <1>1, <1>3, <1>4 DEF LengthInv
  <2>2. buflen' = IF ~Writing \/ Meta.decomp >= 0 \/ run.root THEN Enlarged(Meta) ELSE buflen
    BY <1>2 DEF InqVar
  <2> QED
    BY <1>1, <1>3, <1>4, <2>1, <2>2, EnlargedIs
<1>6. Final' = Final /\ \A b \in Buf : Sum(b)' = Sum(b)
  BY <1>1, <1>2, Frame
<1>7. TypeInv'
  BY <1>1, <1>3, <1>4, <1>5, <1>6 DEF TypeInv
<1>8. LengthInv'
  BY <1>1, <1>4, <1>5, <1>6 DEF LengthInv
<1> QED
  BY <1>1, <1>7, <1>8 DEF IInv, PointerInv, PostedInv, LastInv

\* The lengths are multiplied by the flush frequency.
LEMMA EndDefStep ==
  ASSUME IInv, EndDef PROVE IInv'
<1>1. /\ phase \in {"def", "inq"} /\ i = Len(Entries) + 1 /\ i' = 1 /\ run' = run
      /\ phase' = (IF phase = "def" THEN "post" ELSE "get") /\ buflen' = Allocated(buflen)
      /\ rec' = rec /\ ptr' = ptr /\ posted' = posted /\ last' = last
  BY DEF EndDef
<1>2. Writing' = Writing
  BY <1>1 DEF Writing
<1>3. TypeInv /\ LengthInv
  BY DEF IInv
<1>4. i = Final + 1 /\ Final \in Nat /\ run \in Runs /\ buflen \in [Buf -> Nat]
  BY <1>1, <1>3, SumIs DEF TypeInv
<1>5. rec = 0 /\ ptr = NoBuf /\ posted = {} /\ last = 0
  BY <1>1, <1>3 DEF TypeInv
<1>6. \A b \in Buf : Sum(b)[Final] \in Nat /\ Sum(b)[Final] <= buflen[b] /\ Sum(b)[0] = 0
  <2>1. \A b \in Buf : Sum(b)[i - 1] <= buflen[b]
    BY <1>1, <1>3, <1>4 DEF LengthInv
  <2> QED
    BY <1>3, <1>4, <2>1, SumIs
<1>7. /\ buflen' \in [Buf -> Nat]
      /\ \A b \in Buf : buflen'[b] = buflen[b] * Room(run, b)
  <2>1. /\ buflen' = [b \in Buf |-> IF b[1] = "rec" /\ run.layout # "copied"
                                    THEN buflen[b] * run.ffreq ELSE buflen[b]]
    BY <1>1 DEF Allocated
  <2>2. run.ffreq \in Nat
    BY <1>4, RunsIs
  <2> QED
    BY <1>4, <2>1, <2>2 DEF Room
<1>8. Final' = Final /\ \A b \in Buf : Sum(b)' = Sum(b)
  BY <1>1, <1>2, Frame
<1>9. TypeInv'
  BY <1>1, <1>3, <1>4, <1>5, <1>7, <1>8 DEF TypeInv
<1>10. LengthInv'
  <2> SUFFICES ASSUME NEW b \in Buf PROVE Sum(b)[Final] * Room(run, b) <= buflen[b] * Room(run, b)
    BY <1>1, <1>7, <1>8 DEF LengthInv
  <2>1. Room(run, b) \in Nat
    BY <1>4, RoomIs
  <2> QED
    BY <1>4, <1>6, <2>1, TimesMonotone
<1>11. PointerInv'
  <2>1. Kept(run, 0) \in Nat
    BY <1>4, RoomIs
  <2>2. \A b \in Buf : Kept(run, 0) * Sum(b)[Final] \in Nat
    BY <1>6, <2>1
  <2> QED
    BY <1>1, <1>5, <1>6, <1>8, <2>2, NoBufIs DEF PointerInv
<1>12. PostedInv'
  <2>1. Requests(run, Writing, 0, 1) = {}
    BY DEF Requests
  <2> QED
    BY <1>1, <1>2, <1>5, <2>1 DEF PostedInv
<1>13. LastInv'
  <2> SUFFICES ASSUME phase' = "post"
               PROVE  /\ last' <= Offset(buflen')[1 - 1] + ptr'[Buffers[1]] * Size(Buffers[1])
                      /\ \A j \in i' .. Final' : 1 <= Position(BufOf(Entry(j)'))
    BY DEF LastInv
  <2>1. ASSUME NEW j \in 1 .. Final PROVE 1 <= Position(BufOf(Entry(j)))
    <3>1. BufOf(Entry(j)) \in Buf
      BY <1>3, EntryType
    <3> QED
      BY <3>1, BuffersIs
  <2>2. Offset(buflen')[0] = 0
    BY <1>7, OffsetIs
  <2>3. ptr'[Buffers[1]] = 0 /\ Size(Buffers[1]) \in Nat
    BY <1>1, <1>5, NoBufIs, BuffersIs
  <2>4. \A j : Entry(j)' = Entry(j)
    BY <1>1, <1>2, Frame
  <2> QED
    BY <1>1, <1>5, <1>8, <2>1, <2>2, <2>3, <2>4
<1> QED
  BY <1>9, <1>10, <1>11, <1>12, <1>13 DEF IInv

\* Everything is freed.
LEMMA CloseStep ==
  ASSUME IInv, Close PROVE IInv'
<1>1. /\ phase \in {"post", "get"} /\ run' = run
      /\ phase' = (IF phase = "post" THEN "closed" ELSE "done")
      /\ i' = 0 /\ rec' = 0 /\ buflen' = NoBuf /\ ptr' = NoBuf /\ posted' = {} /\ last' = 0
  BY DEF Close
<1>2. TypeInv
  BY DEF IInv
<1>3. TypeInv'
  BY <1>1, <1>2, NoBufIs, FileAssumption DEF TypeInv
<1> QED
  BY <1>1, <1>3 DEF IInv, LengthInv, PointerInv, PostedInv, LastInv

\* The reader begins with nothing.
LEMMA OpenStep ==
  ASSUME IInv, Open PROVE IInv'
<1>1. /\ phase = "closed" /\ phase' = "inq" /\ i' = 1 /\ run' \in Runs /\ buflen' = buflen
      /\ rec' = rec /\ ptr' = ptr /\ posted' = posted /\ last' = last
  BY DEF Open
<1>2. TypeInv
  BY DEF IInv
<1>3. buflen = NoBuf /\ rec = 0 /\ ptr = NoBuf /\ posted = {} /\ last = 0 /\ NRecs \in Nat \ {0}
  BY <1>1, <1>2, FileAssumption DEF TypeInv
<1>4. Writing' \in BOOLEAN
  BY DEF Writing
<1>5. \A b \in Buf : Final' \in Nat /\ Sum(b)'[0] = 0
  BY <1>1, <1>4, TotalIs DEF Sum, Final
<1>6. TypeInv'
  <2>1. Final' \in Nat
    <3>1. <<"fix", "int">> \in Buf
      BY BuffersIs DEF Buf, Buffers
    <3> QED
      BY <1>5, <3>1
  <2>2. i' \in 0 .. Final' + 1 /\ i' # 0 /\ rec' \in 0 .. NRecs - 1 /\ last' \in Nat
    <3>1. \A n \in Nat : 1 \in 0 .. n + 1
      OBVIOUS
    <3>2. i' \in 0 .. Final' + 1
      BY <1>1, <2>1, <3>1
    <3>3. rec' \in 0 .. NRecs - 1
      BY <1>1, <1>3
    <3> QED
      BY <1>1, <1>3, <3>2, <3>3
  <2>3. buflen' \in [Buf -> Nat] /\ ptr' \in [Buf -> Nat]
    BY <1>1, <1>3, NoBufIs
  <2> HIDE DEF Final
  <2> QED
    BY <1>1, <1>3, <2>2, <2>3 DEF TypeInv
<1>7. LengthInv'
  BY <1>1, <1>3, <1>5, NoBufIs DEF LengthInv
<1> QED
  BY <1>1, <1>6, <1>7 DEF IInv, PointerInv, PostedInv, LastInv

\* The pointers return to the front, or stay until the flush.
LEMMA RecordStep ==
  ASSUME IInv, NextRecord PROVE IInv'
<1>1. /\ phase \in {"post", "get"} /\ i = Len(Entries) + 1 /\ rec + 1 < NRecs
      /\ rec' = rec + 1 /\ i' = 1 /\ posted' = {} /\ last' = 0
      /\ ptr' = [b \in Buf |-> IF b[1] = "rec" /\ Reset(rec + 1) THEN 0 ELSE ptr[b]]
      /\ run' = run /\ phase' = phase /\ buflen' = buflen
  BY DEF NextRecord
<1>2. Writing' = Writing
  BY <1>1 DEF Writing
<1>3. TypeInv /\ LengthInv /\ PointerInv
  BY DEF IInv
<1>4. /\ i = Final + 1 /\ Final \in Nat /\ run \in Runs /\ rec \in Nat
      /\ buflen \in [Buf -> Nat] /\ ptr \in [Buf -> Nat] /\ NRecs \in Nat
  BY <1>1, <1>3, SumIs, FileAssumption DEF TypeInv
<1>5. Final' = Final /\ \A b \in Buf : Sum(b)' = Sum(b)
  BY <1>1, <1>2, Frame
<1>6. \A b \in Buf : Sum(b)[Final] \in Nat /\ Sum(b)[0] = 0
  BY <1>3, <1>4, SumIs
<1>7. ptr' \in [Buf -> Nat]
  BY <1>1, <1>4
<1>8. TypeInv'
  BY <1>1, <1>3, <1>4, <1>5, <1>7 DEF TypeInv
<1>9. LengthInv'
  BY <1>1, <1>3, <1>5 DEF LengthInv
<1>10. PointerInv'
  <2> SUFFICES ASSUME NEW b \in Buf
               PROVE  ptr'[b] <= IF b[1] = "rec" THEN Kept(run, rec + 1) * Sum(b)[Final] + Sum(b)[0]
                                 ELSE IF rec + 1 = 0 THEN Sum(b)[0] ELSE Sum(b)[Final]
    BY <1>1, <1>5 DEF PointerInv
  <2>1. ptr[b] <= IF b[1] = "rec" THEN Kept(run, rec) * Sum(b)[Final] + Sum(b)[Final]
                  ELSE Sum(b)[Final]
    <3>1. i - 1 = Final
      BY <1>4
    <3> QED
      BY <1>1, <1>3, <3>1 DEF PointerInv
  <2>2. Kept(run, rec) \in Nat /\ Kept(run, rec + 1) \in Nat
    BY <1>4, RoomIs
  <2>3. CASE b[1] = "rec" /\ Reset(rec + 1)
    <3>1. ptr'[b] = 0
      BY <1>1, <2>3
    <3>2. Kept(run, rec + 1) * Sum(b)[Final] \in Nat
      BY <1>6, <2>2
    <3> QED
      BY <1>6, <2>3, <3>1, <3>2
  <2>4. CASE b[1] = "rec" /\ ~Reset(rec + 1)
    <3>1. ptr'[b] = ptr[b]
      BY <1>1, <2>4
    <3>2. Kept(run, rec + 1) = Kept(run, rec) + 1
      BY <1>4, <2>4, RoomIs DEF Reset
    <3>3. \A k, s \in Nat : (k + 1) * s = k * s + s /\ k * s \in Nat
      OBVIOUS
    <3>4. /\ Kept(run, rec + 1) * Sum(b)[Final] = Kept(run, rec) * Sum(b)[Final] + Sum(b)[Final]
          /\ Kept(run, rec + 1) * Sum(b)[Final] \in Nat
      BY <1>6, <2>2, <3>2, <3>3
    <3> HIDE DEF Sum, Final
    <3>5. ptr[b] <= Kept(run, rec) * Sum(b)[Final] + Sum(b)[Final]
      BY <2>1, <2>4
    <3>6. ptr[b] <= Kept(run, rec + 1) * Sum(b)[Final] + Sum(b)[0]
      BY <1>4, <1>6, <3>4, <3>5
    <3> QED
      BY <2>4, <3>1, <3>6
  <2>5. CASE b[1] # "rec"
    BY <1>1, <1>4, <2>1, <2>5
  <2> QED
    BY <2>3, <2>4, <2>5
<1>11. PostedInv'
  <2>1. Requests(run, Writing, rec + 1, 1) = {}
    BY DEF Requests
  <2> QED
    BY <1>1, <1>2, <2>1 DEF PostedInv
<1>12. LastInv'
  <2> SUFFICES ASSUME phase' = "post"
               PROVE  /\ last' <= Offset(buflen')[1 - 1] + ptr'[Buffers[1]] * Size(Buffers[1])
                      /\ \A j \in i' .. Final' : 1 <= Position(BufOf(Entry(j)'))
    BY DEF LastInv
  <2>1. ASSUME NEW j \in 1 .. Final PROVE 1 <= Position(BufOf(Entry(j)))
    <3>1. BufOf(Entry(j)) \in Buf
      BY <1>3, EntryType
    <3> QED
      BY <3>1, BuffersIs
  <2>2. Offset(buflen)[0] = 0
    BY <1>4, OffsetIs
  <2>3. ptr'[Buffers[1]] \in Nat /\ Size(Buffers[1]) \in Nat
    BY <1>7, BuffersIs
  <2>4. \A j : Entry(j)' = Entry(j)
    BY <1>1, <1>2, Frame
  <2>5. ptr'[Buffers[1]] * Size(Buffers[1]) \in Nat
    BY <2>3
  <2> QED
    BY <1>1, <1>5, <2>1, <2>2, <2>4, <2>5
<1> QED
  BY <1>8, <1>9, <1>10, <1>11, <1>12 DEF IInv

\* One more variable is posted, or none.
LEMMA PostStep ==
  ASSUME IInv, Post PROVE IInv'
<1> DEFINE c == BufOf(Meta)
           d == VLen(Meta) + run.gap
<1>1. /\ phase \in {"post", "get"} /\ i \in DOMAIN Entries /\ i' = i + 1
      /\ run' = run /\ phase' = phase /\ rec' = rec /\ buflen' = buflen
  BY DEF Post
<1>2. Writing' = Writing
  BY <1>1 DEF Writing
<1>3. TypeInv /\ LengthInv /\ PointerInv /\ PostedInv /\ LastInv
  BY DEF IInv
<1>4. /\ i \in 1 .. Final /\ Final \in Nat /\ run \in Runs /\ rec \in Nat /\ last \in Nat
      /\ buflen \in [Buf -> Nat] /\ ptr \in [Buf -> Nat]
  BY <1>1, <1>3, Here, SumIs, FileAssumption DEF TypeInv
<1>5. /\ Final' = Final /\ \A b \in Buf : Sum(b)' = Sum(b)
      /\ \A j : Entry(j)' = Entry(j)
      /\ \A k, m : Requests(run', Writing', k, m) = Requests(run, Writing, k, m)
  BY <1>1, <1>2, Frame
<1>6. c \in Buf /\ d \in Nat /\ VLen(Meta) \in Nat /\ run.gap \in Nat
  BY <1>1, <1>3, Here
<1>7. CASE IsPosted(Meta, rec)
  <2>1. /\ ptr' = [ptr EXCEPT ![c] = ptr[c] + d]
        /\ posted' = posted \cup {Request(Meta)}
        /\ last' = Address(c) + VLen(Meta) * Size(c)
    <3>1. ptr[c] + VLen(Meta) + run.gap = ptr[c] + d
      BY <1>4, <1>6
    <3> QED
      BY <1>7, <3>1 DEF Post
  <2>2. ptr' \in [Buf -> Nat] /\ ptr'[c] = ptr[c] + d /\ \A b \in Buf : b # c => ptr'[b] = ptr[b]
    <3> HIDE DEF c, d
    <3> QED
      BY <1>4, <1>6, <2>1
  <2>3. /\ Size(c) \in Nat /\ Position(c) \in 1 .. 8 /\ Buffers[Position(c)] = c
        /\ \A b \in Buf : Size(b) \in Nat
    BY <1>6, BuffersIs
  <2>4. /\ Offset(buflen) \in [0 .. 8 -> Nat]
        /\ Address(c) = Offset(buflen)[Position(c) - 1] + ptr[c] * Size(c)
    BY <1>4, <1>6, OffsetIs, AddressIs
  <2>5. Offset(buflen)[Position(c) - 1] \in Nat /\ ptr[c] * Size(c) \in Nat /\ VLen(Meta) * Size(c) \in Nat
    <3>1. Position(c) - 1 \in 0 .. 8
      BY <2>3
    <3>2. ptr[c] \in Nat
      BY <1>4, <1>6
    <3>3. \A x, y \in Nat : x * y \in Nat
      OBVIOUS
    <3> QED
      BY <1>6, <2>3, <2>4, <3>1, <3>2, <3>3
  <2>6. last' \in Nat
    BY <2>1, <2>4, <2>5
  <2>7. TypeInv'
    BY <1>1, <1>3, <1>4, <1>5, <2>2, <2>6 DEF TypeInv
  <2>8. LengthInv'
    BY <1>1, <1>3, <1>5 DEF LengthInv
  <2>9. PointerInv'
    <3> SUFFICES ASSUME NEW b \in Buf
                 PROVE  ptr'[b] <= IF b[1] = "rec" THEN Kept(run, rec) * Sum(b)[Final] + Sum(b)[i]
                                   ELSE IF rec = 0 THEN Sum(b)[i] ELSE Sum(b)[Final]
      BY <1>1, <1>4, <1>5, SMTT(30) DEF PointerInv
    <3>1. /\ Sum(b)[i] = Sum(b)[i - 1] + Share(run, Writing, b)[i]
          /\ Sum(b)[i] \in Nat /\ Sum(b)[i - 1] \in Nat /\ Sum(b)[Final] \in Nat
          /\ Sum(b)[i - 1] <= Sum(b)[i]
      <4>1. /\ i \in 0 .. Final /\ i - 1 \in 0 .. Final /\ Final \in 0 .. Final
            /\ i - 1 <= i
        BY <1>4
      <4>2. /\ Sum(b) \in [0 .. Final -> Nat]
            /\ \A j \in 1 .. Final : Sum(b)[j] = Sum(b)[j - 1] + Share(run, Writing, b)[j]
            /\ \A j, k \in 0 .. Final : j <= k => Sum(b)[j] <= Sum(b)[k]
        BY <1>3, SumIs
      <4> HIDE DEF Sum, Final
      <4> QED
        BY <1>4, <4>1, <4>2
    <3>2. ptr[b] <= IF b[1] = "rec" THEN Kept(run, rec) * Sum(b)[Final] + Sum(b)[i - 1]
                    ELSE IF rec = 0 THEN Sum(b)[i - 1] ELSE Sum(b)[Final]
      BY <1>1, <1>3 DEF PointerInv
    <3>3. Kept(run, rec) * Sum(b)[Final] \in Nat
      <4>1. Kept(run, rec) \in Nat
        BY <1>4, RoomIs
      <4> QED
        BY <3>1, <4>1
    <3>4. ptr[b] \in Nat
      BY <1>4
    <3>5. CASE b = c
      <4>1. Share(run, Writing, b)[i] = d
        <5>1. Meta.decomp >= 0 \/ run.root
          BY <1>7 DEF IsPosted
        <5> QED
          BY <1>1, <1>3, <3>5, <5>1, Here
      <4>2. b[1] = "rec" \/ rec = 0
        <5>1. b[1] = IF IsRec(Meta) THEN "rec" ELSE "fix"
          BY <1>1, <1>3, <3>5, Here
        <5> QED
          BY <1>7, <5>1 DEF IsPosted
      <4>3. ptr'[b] = ptr[b] + d
        BY <2>2, <3>5
      <4> HIDE DEF d, Sum, Final
      <4> QED
        BY <1>6, <3>1, <3>2, <3>3, <3>4, <4>1, <4>2, <4>3
    <3>6. CASE b # c
      <4>1. ptr'[b] = ptr[b]
        BY <2>2, <3>6
      <4> HIDE DEF Sum, Final
      <4> QED
        BY <3>1, <3>2, <3>3, <3>4, <4>1
    <3> QED
      BY <3>5, <3>6
  <2>10. PostedInv'
    <3>1. Posts(run, Entry(i), rec) /\ Request(Meta) = Request(Entry(i))
      BY <1>1, <1>3, <1>7, Here
    <3>2. posted = Requests(run, Writing, rec, i)
      BY <1>1, <1>3 DEF PostedInv
    <3>3. Requests(run, Writing, rec, i + 1) = Requests(run, Writing, rec, i) \cup {Request(Entry(i))}
      <4>1. 1 .. (i + 1) - 1 = (1 .. i - 1) \cup {i}
        BY <1>4
      <4> QED
        BY <3>1, <4>1 DEF Requests, Entry
    <3> QED
      BY <1>1, <1>5, <2>1, <3>1, <3>2, <3>3 DEF PostedInv
  <2>11. LastInv'
    <3> SUFFICES ASSUME phase' = "post", run'.gap = 0
                 PROVE  /\ last' <= Offset(buflen')[Position(c) - 1]
                                    + ptr'[Buffers[Position(c)]] * Size(Buffers[Position(c)])
                        /\ \A j \in i' .. Final' : Position(c) <= Position(BufOf(Entry(j)'))
      BY <2>3 DEF LastInv
    <3>1. last' <= Offset(buflen)[Position(c) - 1] + ptr'[c] * Size(c)
      <4>1. ptr'[c] = ptr[c] + VLen(Meta)
        BY <1>1, <1>4, <1>6, <2>2
      <4>2. \A x, y, z \in Nat : (x + y) * z = x * z + y * z
        OBVIOUS
      <4>3. ptr[c] \in Nat
        BY <1>4, <1>6
      <4>4. ptr'[c] * Size(c) = ptr[c] * Size(c) + VLen(Meta) * Size(c)
        BY <1>6, <2>3, <4>1, <4>2, <4>3
      <4> QED
        BY <2>1, <2>4, <2>5, <4>4
    <3>2. ASSUME NEW j \in i + 1 .. Final PROVE Position(c) <= Position(BufOf(Entry(j)))
      <4>1. Meta = Entry(i)
        BY <1>1, <1>3, Here
      <4>2. Writing /\ j \in i .. Final
        BY <1>1, <1>4, <3>2 DEF Writing
      <4>3. Position(BufOf(Entry(i))) <= Position(BufOf(Entry(j)))
        BY <1>3, <1>4, <4>2, Ascending
      <4> QED
        BY <4>1, <4>3
    <3> QED
      BY <1>1, <1>5, <2>3, <3>1, <3>2
  <2> QED
    BY <2>7, <2>8, <2>9, <2>10, <2>11 DEF IInv
<1>8. CASE ~IsPosted(Meta, rec)
  <2>1. ptr' = ptr /\ posted' = posted /\ last' = last
    BY <1>8 DEF Post
  <2>2. TypeInv'
    BY <1>1, <1>3, <1>4, <1>5, <2>1 DEF TypeInv
  <2>3. LengthInv'
    BY <1>1, <1>3, <1>5 DEF LengthInv
  <2>4. PointerInv'
    <3> SUFFICES ASSUME NEW b \in Buf
                 PROVE  ptr[b] <= IF b[1] = "rec" THEN Kept(run, rec) * Sum(b)[Final] + Sum(b)[i]
                                  ELSE IF rec = 0 THEN Sum(b)[i] ELSE Sum(b)[Final]
      BY <1>1, <1>4, <1>5, <2>1 DEF PointerInv
    <3>1. /\ Sum(b)[i] \in Nat /\ Sum(b)[i - 1] \in Nat /\ Sum(b)[i - 1] <= Sum(b)[i]
          /\ Sum(b)[Final] \in Nat
      <4>1. i \in 0 .. Final /\ i - 1 \in 0 .. Final /\ Final \in 0 .. Final /\ i - 1 <= i
        BY <1>4
      <4> QED
        BY <1>3, <4>1, SumIs
    <3>2. ptr[b] <= IF b[1] = "rec" THEN Kept(run, rec) * Sum(b)[Final] + Sum(b)[i - 1]
                    ELSE IF rec = 0 THEN Sum(b)[i - 1] ELSE Sum(b)[Final]
      BY <1>1, <1>3 DEF PointerInv
    <3>3. Kept(run, rec) * Sum(b)[Final] \in Nat
      <4>1. Kept(run, rec) \in Nat
        BY <1>4, RoomIs
      <4> QED
        BY <3>1, <4>1
    <3>4. ptr[b] \in Nat
      BY <1>4
    <3> HIDE DEF Sum, Final
    <3> QED
      BY <3>1, <3>2, <3>3, <3>4
  <2>5. PostedInv'
    <3>1. ~Posts(run, Entry(i), rec)
      BY <1>1, <1>3, <1>8, Here
    <3>2. posted = Requests(run, Writing, rec, i)
      BY <1>1, <1>3 DEF PostedInv
    <3>3. Requests(run, Writing, rec, i + 1) = Requests(run, Writing, rec, i)
      <4>1. 1 .. (i + 1) - 1 = (1 .. i - 1) \cup {i}
        BY <1>4
      <4> QED
        BY <3>1, <4>1 DEF Requests, Entry
    <3> QED
      BY <1>1, <1>5, <2>1, <3>2, <3>3 DEF PostedInv
  <2>6. LastInv'
    <3>1. \A j \in i + 1 .. Final : j \in i .. Final
      BY <1>4
    <3> QED
      BY <1>1, <1>3, <1>5, <2>1, <3>1 DEF LastInv
  <2> QED
    BY <2>2, <2>3, <2>4, <2>5, <2>6 DEF IInv
<1> QED
  BY <1>7, <1>8

\* Every step preserves the invariant.
LEMMA Step == IInv /\ [Next]_vars => IInv'
<1> SUFFICES ASSUME IInv, [Next]_vars PROVE IInv'
  OBVIOUS
<1>1. CASE UNCHANGED vars
  <2>1. Writing' = Writing
    BY <1>1 DEF vars, Writing
  <2>2. /\ Final' = Final /\ \A b \in Buf : Sum(b)' = Sum(b)
        /\ \A j : Entry(j)' = Entry(j)
        /\ \A k, m : Requests(run', Writing', k, m) = Requests(run, Writing, k, m)
    BY <1>1, <2>1, Frame DEF vars
  <2> QED
    BY <1>1, <2>2 DEF vars, IInv, TypeInv, LengthInv, PointerInv, PostedInv, LastInv
<1>2. CASE Next
  BY <1>2, HeaderStep, DefVarStep, EndDefStep, PostStep, RecordStep, CloseStep, OpenStep,
     InqVarStep DEF Next
<1> QED
  BY <1>1, <1>2

\* The bookkeeping of the loops holds throughout: what the buffers' lengths
\* and pointers and the requests are at each variable.
THEOREM CaseFileInvariance == Spec => []IInv
  BY InitIInv, Step, PTL DEF Spec

-----------------------------------------------------------------------------
(* The properties. *)

\* The buffers hold all the loops post until the pointers return, whatever
\* the map, the partition, the flush frequency and the rank.
LEMMA IInvBuffers == IInv => BuffersSuffice
<1> SUFFICES ASSUME IInv, phase \in {"post", "get"}, NEW b \in Buf PROVE ptr[b] <= buflen[b]
  BY DEF BuffersSuffice
<1>1. TypeInv /\ LengthInv /\ PointerInv
  BY DEF IInv
<1>2. /\ i - 1 \in 0 .. Final /\ Final \in 0 .. Final /\ i - 1 <= Final /\ 0 \in 0 .. Final
      /\ run \in Runs /\ rec \in Nat
  BY <1>1, SumIs, FileAssumption DEF TypeInv
<1>3. /\ Sum(b)[i - 1] \in Nat /\ Sum(b)[Final] \in Nat /\ Sum(b)[i - 1] <= Sum(b)[Final]
  BY <1>1, <1>2, SumIs
<1>4. ptr[b] \in Nat /\ buflen[b] \in Nat
  BY <1>1 DEF TypeInv
<1>5. /\ Room(run, b) \in Nat /\ 1 <= Room(run, b) /\ Kept(run, rec) \in Nat
      /\ b[1] = "rec" => Kept(run, rec) + 1 <= Room(run, b)
  BY <1>2, RoomIs
<1>6. Sum(b)[Final] * Room(run, b) <= buflen[b]
  BY <1>1 DEF LengthInv
<1>7. ptr[b] <= IF b[1] = "rec" THEN Kept(run, rec) * Sum(b)[Final] + Sum(b)[i - 1]
                ELSE IF rec = 0 THEN Sum(b)[i - 1] ELSE Sum(b)[Final]
  BY <1>1 DEF PointerInv
<1> DEFINE S == Sum(b)[Final]
           K == Kept(run, rec)
           R == Room(run, b)
<1>8. S \in Nat /\ K \in Nat /\ R \in Nat /\ 1 <= R /\ S * R <= buflen[b]
  BY <1>3, <1>5, <1>6
<1>9. ptr[b] <= IF b[1] = "rec" THEN K * S + S ELSE S
  <2>1. K * S \in Nat
    <3> HIDE DEF K, S
    <3> QED
      BY <1>8
  <2> HIDE DEF Sum, Final
  <2> QED
    BY <1>3, <1>4, <1>7, <2>1
<1> HIDE DEF S, K, R
<1>10. \A x, y \in Nat : x <= y => S * x <= S * y /\ S * x \in Nat /\ S * y \in Nat
  BY <1>8, TimesMonotone
<1>11. CASE b[1] = "rec"
  <2>1. K + 1 <= R
    BY <1>5, <1>11 DEF K, R
  <2>2. S * (K + 1) <= S * R /\ S * (K + 1) \in Nat /\ S * R \in Nat
    BY <1>8, <1>10, <2>1
  <2>3. \A x, y \in Nat : x * (y + 1) = y * x + x
    OBVIOUS
  <2>4. S * (K + 1) = K * S + S
    BY <1>8, <2>3
  <2> QED
    BY <1>4, <1>8, <1>9, <1>11, <2>2, <2>4
<1>12. CASE b[1] # "rec"
  <2>1. S * 1 <= S * R /\ S * R \in Nat
    BY <1>8, <1>10
  <2> QED
    BY <1>4, <1>8, <1>9, <1>12, <2>1
<1> QED
  BY <1>11, <1>12

\* What def_var() and inq_var() make room for is what the loops of var_wr_case()
\* and var_rd_case() need: no pointer runs past the end of its buffer, for any
\* map, number of records and flush frequency.
THEOREM BuffersAreSufficient == Spec => []BuffersSuffice
  BY CaseFileInvariance, IInvBuffers, PTL

\* Whatever the map: what is looked up is in the file, with the attributes
\* that are read, by the macros they were put with.
LEMMA IInvLookups == IInv => LookupsSucceed
<1> SUFFICES ASSUME IInv, phase = "inq", i \in DOMAIN Entries
             PROVE  /\ Entries[i].name \in Names[run.file]
                    /\ Entries[i].attrs \subseteq InFile[run.file][Entries[i].name].attrs
  BY DEF LookupsSucceed
<1>1. run \in Runs /\ run.file \in Files
  BY RunsIs DEF IInv, TypeInv
<1>2. Entries[i] \in Ran(LookedUp[run.file])
  BY DEF Entries, Ran
<1>3. PICK v \in Ran(Written[run.file]) : Same(Entries[i], v)
  BY <1>1, <1>2, FilesMatch DEF Matched
<1> QED
  BY <1>1, <1>3, InFileIs DEF Same

\* Every variable inq_*_case() asks for was defined by def_*_case(), with every
\* attribute that is read, put by the macro that reads it.
THEOREM LookupsAlwaysSucceed == Spec => []LookupsSucceed
  BY CaseFileInvariance, IInvLookups, PTL

\* A rank reads what a rank in its place wrote: the requests of a record are
\* those of the file's variables, each made once.
LEMMA IInvRead == IInv => ReadAsWritten
<1> SUFFICES ASSUME IInv, phase \in {"post", "get"} PROVE ReadAsWritten
  BY DEF ReadAsWritten
<1> DEFINE f == run.file
<1>1. TypeInv /\ posted = Requests(run, Writing, rec, i)
  BY DEF IInv, PostedInv
<1>2. /\ run \in Runs /\ f \in Files /\ Writing \in BOOLEAN /\ Final \in Nat
      /\ DOMAIN Entries = 1 .. Final /\ Entries = List(run, Writing) /\ Len(Entries) = Final
      /\ Matched(f)
  BY <1>1, RunsIs, SumIs, EntriesAre, FilesMatch DEF TypeInv
<1>3. \A j \in 1 .. Final : Entry(j).name = Entries[j].name
  BY <1>2 DEF Entry, MetaOf, List
<1>4. Distinct(Entries)
  BY <1>2 DEF Matched, List
<1>5. ASSUME i \in DOMAIN Entries PROVE Request(Meta) \notin posted
  <2> SUFFICES ASSUME NEW j \in 1 .. i - 1, Request(Meta) = Request(Entry(j)) PROVE FALSE
    BY <1>1 DEF Requests, Entry
  <2>1. i \in 1 .. Final /\ Meta = Entry(i) /\ j \in 1 .. Final /\ j # i
    BY <1>1, <1>2, <1>5, Here
  <2>2. Entry(i).name = Entry(j).name
    BY <2>1 DEF Request
  <2> QED
    BY <1>2, <1>3, <1>4, <2>1, <2>2 DEF Distinct
<1>6. ASSUME phase = "get", i = Len(Entries) + 1
      PROVE  posted = {Request(v) : v \in {w \in Listed(f) : IsPosted(w, rec)}}
  <2>1. ~Writing /\ Final = Len(LookedUp[f])
    BY <1>6 DEF Writing, Final, List
  <2>2. \A v : IsPosted(v, rec) <=> Posts(run, v, rec)
    BY DEF IsPosted, Posts
  <2>3. 1 .. i - 1 = 1 .. Final
    BY <1>2, <1>6
  <2>4. Listed(f) = Ran(Written[f])
    BY DEF Listed, Ran
  <2>5. ASSUME NEW j \in 1 .. Final, NEW v \in Ran(Written[f]), Same(LookedUp[f][j], v)
        PROVE  Request(Entry(j)) = Request(v) /\ (Posts(run, Entry(j), rec) <=> Posts(run, v, rec))
    <3>1. Entry(j) = [name |-> LookedUp[f][j].name, dims |-> InFile[f][LookedUp[f][j].name].dims,
                      itype |-> LookedUp[f][j].itype, decomp |-> LookedUp[f][j].decomp]
      BY <2>1 DEF Entry, MetaOf
    <3>2. InFile[f][LookedUp[f][j].name] = v
      BY <1>2, <2>5, InFileIs DEF Same
    <3>3. /\ Entry(j).name = v.name /\ Entry(j).dims = v.dims
          /\ Entry(j).itype = v.itype /\ Entry(j).decomp = v.decomp
      BY <2>5, <3>1, <3>2 DEF Same
    <3> QED
      BY <3>3 DEF Request, Posts, IsRec
  <2>6. ASSUME NEW j \in 1 .. Final, Posts(run, Entry(j), rec)
        PROVE  \E v \in Ran(Written[f]) : IsPosted(v, rec) /\ Request(Entry(j)) = Request(v)
    <3>1. LookedUp[f][j] \in Ran(LookedUp[f])
      BY <1>2, <2>1 DEF Ran, List
    <3>2. PICK v \in Ran(Written[f]) : Same(LookedUp[f][j], v)
      BY <1>2, <3>1 DEF Matched
    <3> QED
      BY <2>2, <2>5, <2>6, <3>2
  <2>7. ASSUME NEW v \in Ran(Written[f]), IsPosted(v, rec)
        PROVE  \E j \in 1 .. Final : Posts(run, Entry(j), rec) /\ Request(Entry(j)) = Request(v)
    <3>1. PICK q \in Ran(LookedUp[f]) : Same(q, v)
      BY <1>2 DEF Matched
    <3>2. PICK j \in 1 .. Final : q = LookedUp[f][j]
      BY <1>2, <2>1, <3>1 DEF Ran, List
    <3> QED
      BY <2>2, <2>5, <2>7, <3>1, <3>2
  <2>8. posted = {Request(Entry(j)) : j \in {l \in 1 .. Final : Posts(run, Entry(l), rec)}}
    BY <1>1, <2>3 DEF Requests, Entry
  <2> HIDE DEF f
  <2> QED
    BY <2>4, <2>6, <2>7, <2>8
<1> QED
  BY <1>5, <1>6 DEF ReadAsWritten

\* A rank of rd_test() requests in each record the variables that a rank in its
\* place wrote in it, each once, whatever the order of the reader's list.
THEOREM ReadsAreAsWritten == Spec => []ReadAsWritten
  BY CaseFileInvariance, IInvRead, PTL

\* A partitioned variable has the shape of its decomposition.
LEMMA IInvFits == IInv => DecompositionFits
<1> SUFFICES ASSUME IInv, phase = "def", i \in DOMAIN Entries, Meta.decomp >= 0
             PROVE  Lengths(Case, IF IsRec(Meta) THEN Tail(Meta.dims) ELSE Meta.dims)
                      = MapDims[Case][Meta.decomp + 1]
  BY DEF DecompositionFits
<1>1. TypeInv /\ run \in Runs /\ Writing \in BOOLEAN
  BY DEF IInv, TypeInv, Writing
<1>2. i \in 1 .. Len(List(run, Writing)) /\ Meta = MetaOf(run, Writing, i)
  BY <1>1, Here DEF Final, Entry
<1>3. ShapeFits(Case, Meta.dims, Meta.itype, Meta.decomp)
  BY <1>1, <1>2, MetaType DEF Case
<1>4. Body(Meta.dims) = IF IsRec(Meta) THEN Tail(Meta.dims) ELSE Meta.dims
  BY DEF Body, IsRec
<1> QED
  BY <1>3, <1>4 DEF ShapeFits

\* def_*_case() gives a partitioned variable to a decomposition of its shape.
THEOREM DecompositionsFit == Spec => []DecompositionFits
  BY CaseFileInvariance, IInvFits, PTL

\* Without gaps the requests of a record ascend in memory.
LEMMA IInvAscend == IInv => PostsAscend
<1> SUFFICES ASSUME IInv, phase = "post", i \in DOMAIN Entries, IsPosted(Meta, rec), run.gap = 0
             PROVE  Address(BufOf(Meta)) >= last
  BY DEF PostsAscend
<1> DEFINE d == Position(BufOf(Meta))
<1>1. TypeInv /\ LastInv
  BY DEF IInv
<1>2. /\ i \in 1 .. Final /\ Final \in Nat /\ Meta = Entry(i) /\ BufOf(Meta) \in Buf
      /\ buflen \in [Buf -> Nat] /\ ptr \in [Buf -> Nat] /\ last \in Nat
  BY <1>1, Here, SumIs DEF TypeInv
<1>3. PICK c \in 1 .. 8 :
        /\ last <= Offset(buflen)[c - 1] + ptr[Buffers[c]] * Size(Buffers[c])
        /\ \A j \in i .. Final : c <= Position(BufOf(Entry(j)))
  BY <1>1 DEF LastInv
<1>4. c <= d /\ d \in 1 .. 8 /\ Buffers[d] = BufOf(Meta) /\ Buffers[c] \in Buf
      /\ Size(BufOf(Meta)) \in Nat /\ Size(Buffers[c]) \in Nat
  <2>1. i \in i .. Final
    BY <1>2
  <2> QED
    BY <1>2, <1>3, <2>1, BuffersIs
<1>5. Address(BufOf(Meta)) = Offset(buflen)[d - 1] + ptr[BufOf(Meta)] * Size(BufOf(Meta))
  BY <1>2, AddressIs
<1> HIDE DEF d
<1>6. CASE c = d
  <2>1. Offset(buflen)[d - 1] \in Nat /\ ptr[BufOf(Meta)] * Size(BufOf(Meta)) \in Nat
    <3>1. d - 1 \in 0 .. 8 /\ ptr[BufOf(Meta)] \in Nat
      BY <1>2, <1>4
    <3>2. \A x, y \in Nat : x * y \in Nat
      OBVIOUS
    <3> QED
      BY <1>2, <1>4, <3>1, <3>2, OffsetIs
  <2> QED
    BY <1>2, <1>3, <1>4, <1>5, <1>6, <2>1
<1>7. CASE c < d
  <2>1. c \in 0 .. 8 /\ c - 1 \in 0 .. 8 /\ d - 1 \in 0 .. 8 /\ c <= d - 1
    BY <1>3, <1>4, <1>7
  <2>2. /\ Offset(buflen)[c] = Offset(buflen)[c - 1] + buflen[Buffers[c]] * Size(Buffers[c])
        /\ Offset(buflen)[c] <= Offset(buflen)[d - 1]
        /\ Offset(buflen)[c] \in Nat /\ Offset(buflen)[c - 1] \in Nat /\ Offset(buflen)[d - 1] \in Nat
    BY <1>2, <1>3, <2>1, OffsetIs
  <2>3. ptr[Buffers[c]] <= buflen[Buffers[c]]
    BY <1>4, IInvBuffers DEF BuffersSuffice
  <2>4. /\ ptr[Buffers[c]] * Size(Buffers[c]) <= buflen[Buffers[c]] * Size(Buffers[c])
        /\ ptr[Buffers[c]] * Size(Buffers[c]) \in Nat /\ buflen[Buffers[c]] * Size(Buffers[c]) \in Nat
    <3>1. ptr[Buffers[c]] \in Nat /\ buflen[Buffers[c]] \in Nat
      BY <1>2, <1>4
    <3>2. \A x, y, z \in Nat : x <= y => x * z <= y * z /\ x * z \in Nat /\ y * z \in Nat
      BY TimesMonotone
    <3> QED
      BY <1>4, <2>3, <3>1, <3>2
  <2>5. ptr[BufOf(Meta)] * Size(BufOf(Meta)) \in Nat
    <3>1. ptr[BufOf(Meta)] \in Nat
      BY <1>2
    <3>2. \A x, y \in Nat : x * y \in Nat
      OBVIOUS
    <3> QED
      BY <1>4, <3>1, <3>2
  <2> QED
    BY <1>2, <1>3, <1>5, <2>2, <2>4, <2>5
<1> QED
  BY <1>3, <1>4, <1>6, <1>7

\* With no gap between the buffers, var_wr_case() makes the requests of a record
\* in the order of their addresses (header_def_F_case.cpp:322-326).
THEOREM PostsAlwaysAscend == Spec => []PostsAscend
  BY CaseFileInvariance, IInvAscend, PTL
=============================================================================
