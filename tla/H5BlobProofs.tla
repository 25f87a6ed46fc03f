----------------------------- MODULE H5BlobProofs -----------------------------
(***************************************************************************)
(* Proofs about H5Blob, for every number of ranks, variables and records,  *)
(* every length of a put and every growth step of the cache; first about   *)
(* the header that the ranks pack (CdfHeader).                             *)
(***************************************************************************)
EXTENDS H5Blob, PrefixSums, SequenceTheorems

-----------------------------------------------------------------------------
(* The two traversals of CdfHeader agree: for headers of any size, names   *)
(* of any length and every step by which the arrays grow.                  *)

Aligned(n) == n \in Nat /\ n % X_ALIGN = 0

LEMMA RndUpProperties ==
  ASSUME NEW n \in Nat
  PROVE  /\ Aligned(RndUp(n))
         /\ n + Padding(n) = RndUp(n)
         /\ Aligned(n) => RndUp(n) = n
BY DEF RndUp, Padding, Aligned, X_ALIGN

LEMMA AlignedSum ==
  ASSUME NEW m, NEW n, Aligned(m), Aligned(n)
  PROVE  Aligned(m + n)
BY DEF Aligned, X_ALIGN

LEMMA AlignedEights ==
  ASSUME NEW n \in Nat
  PROVE  Aligned(8 * n)
BY DEF Aligned, X_ALIGN

\* What Total() adds up: prefix sums exist, so the function it is defined by
\* is one.
LEMMA TotalIsSum ==
  ASSUME NEW s \in Seq(Nat)
  PROVE  \E g : IsPrefixSum(g, s, Len(s)) /\ Total(s) = g[Len(s)]
<1> DEFINE n == Len(s)
           F(g) == [k \in 0 .. n |-> IF k = 0 THEN 0 ELSE g[k - 1] + s[k]]
           partial == CHOOSE g : g = F(g)
<1>1. n \in Nat /\ s \in [1 .. n -> Nat]
  OBVIOUS
<1>2. PICK p : IsPrefixSum(p, s, n)
  BY <1>1, PrefixExists
<1>3. p = F(p)
  BY <1>1, <1>2 DEF IsPrefixSum
<1>4. partial = F(partial)
  BY <1>3
<1> HIDE DEF partial
<1>5. partial[0] = 0 /\ \A k \in 1 .. n : partial[k] = partial[k - 1] + s[k]
  <2>1. \A k \in 0 .. n : partial[k] = IF k = 0 THEN 0 ELSE partial[k - 1] + s[k]
    <3> TAKE k \in 0 .. n
    <3>1. F(partial)[k] = IF k = 0 THEN 0 ELSE partial[k - 1] + s[k]
      OBVIOUS
    <3> QED
      BY ONLY <1>4, <3>1
  <2> HIDE DEF F
  <2> QED
    BY <1>1, <2>1
<1> DEFINE D == {k \in Nat : k <= n => partial[k] \in Nat}
<1>6. \A k \in 0 .. n : partial[k] \in Nat
  <2>1. 0 \in D
    BY <1>5
  <2>2. ASSUME NEW k \in Nat, k \in D PROVE k + 1 \in D
    BY <1>1, <1>5, <2>2
  <2> HIDE DEF D
  <2>3. \A k \in Nat : k \in D
    BY <2>1, <2>2, SetInduction
  <2> QED
    BY <2>3 DEF D
<1>7. IsPrefixSum(partial, s, n)
  <2>1. partial \in [0 .. n -> Nat]
    BY <1>4, <1>6
  <2> QED
    BY <1>5, <2>1 DEF IsPrefixSum
<1>8. Total(s) = partial[n]
  BY DEF Total, partial
<1> QED
  BY <1>7, <1>8

\* A partial of multiples of four is one.
LEMMA TotalAligned ==
  ASSUME NEW s \in Seq(Nat), \A i \in 1 .. Len(s) : Aligned(s[i])
  PROVE  Aligned(Total(s))
<1> DEFINE n == Len(s)
<1>1. PICK g : IsPrefixSum(g, s, n) /\ Total(s) = g[n]
  BY TotalIsSum
<1> DEFINE D == {k \in Nat : k <= n => Aligned(g[k])}
<1>2. 0 \in D
  BY <1>1 DEF IsPrefixSum, Aligned, X_ALIGN
<1>3. ASSUME NEW k \in Nat, k \in D PROVE k + 1 \in D
  <2>1. SUFFICES ASSUME k + 1 <= n PROVE Aligned(g[k + 1])
    OBVIOUS
  <2>2. g[k + 1] = g[k] + s[k + 1] /\ Aligned(g[k]) /\ Aligned(s[k + 1])
    BY <1>1, <1>3, <2>1 DEF IsPrefixSum
  <2> QED
    BY <2>2, AlignedSum
<1>4. n \in D
  <2> HIDE DEF D
  <2>1. \A k \in Nat : k \in D
    BY <1>2, <1>3, SetInduction
  <2>2. n \in Nat
    OBVIOUS
  <2> QED
    BY <2>1, <2>2
<1> QED
  BY <1>1, <1>4

-----------------------------------------------------------------------------
(* The parts of a header. *)

\* An attribute whose space is the one its type and number ask for.
Sized(a) == a \in Attr /\ a.xsz = XLenAttrV(a.type, a.nelems)

LEMMA AttrSpace ==
  ASSUME NEW t \in XType, NEW n \in Nat
  PROVE  Aligned(XLenAttrV(t, n)) /\ n * XLen(t) \in Nat /\ n * XLen(t) <= XLenAttrV(t, n)
<1>1. CASE t \in {"byte", "char"}
  BY <1>1 DEF XLen, XLenAttrV, Aligned, RndUp, X_ALIGN
<1>2. CASE t = "short"
  BY <1>2 DEF XLen, XLenAttrV, Aligned, X_ALIGN
<1>3. CASE t \in {"int", "float"}
  BY <1>3 DEF XLen, XLenAttrV, Aligned, X_ALIGN
<1>4. CASE t \in {"double", "int64"}
  BY <1>4 DEF XLen, XLenAttrV, Aligned, X_ALIGN
<1> QED
  BY <1>1, <1>2, <1>3, <1>4 DEF XType

LEMMA NamesAgree ==
  ASSUME NEW n \in Name
  PROVE  HdrPutName(n) = HdrLenName(n) /\ Aligned(HdrLenName(n))
<1>1. NameLen[n] \in Nat
  BY HeaderAssumption
<1>2. Aligned(RndUp(NameLen[n])) /\ NameLen[n] + Padding(NameLen[n]) = RndUp(NameLen[n])
  BY <1>1, RndUpProperties
<1>3. Padding(NameLen[n]) \in Nat
  BY <1>1 DEF Padding, X_ALIGN
<1> QED
  BY <1>1, <1>2, <1>3 DEF HdrPutName, HdrLenName, Aligned, X_ALIGN

LEMMA DimsAgree ==
  ASSUME NEW d \in Dim
  PROVE  HdrPutDim(d) = HdrLenDim(d) /\ Aligned(HdrLenDim(d))
<1>1. d.name \in Name
  BY DEF Dim
<1>2. HdrPutName(d.name) = HdrLenName(d.name) /\ Aligned(HdrLenName(d.name))
  BY <1>1, NamesAgree
<1> QED
  BY <1>2 DEF HdrPutDim, HdrLenDim, Aligned, X_ALIGN

LEMMA AttrAgrees ==
  ASSUME NEW a, Sized(a)
  PROVE  HdrPutAttr(a) = HdrLenAttr(a) /\ Aligned(HdrLenAttr(a))
<1>1. a.name \in Name /\ a.type \in XType /\ a.nelems \in Nat
  BY DEF Sized, Attr
<1>2. HdrPutName(a.name) = HdrLenName(a.name) /\ Aligned(HdrLenName(a.name))
  BY <1>1, NamesAgree
<1> DEFINE sz == a.nelems * XLen(a.type)
<1>3. sz \in Nat /\ sz <= a.xsz /\ Aligned(a.xsz)
  BY <1>1, AttrSpace DEF Sized
<1>4. HdrPutAttrV(a) = sz + IF a.xsz - sz > 0 THEN a.xsz - sz ELSE 0
  BY DEF HdrPutAttrV
<1> HIDE DEF sz
<1>5. HdrPutAttrV(a) = a.xsz
  BY <1>3, <1>4 DEF Aligned
<1> QED
  BY <1>2, <1>3, <1>5 DEF HdrPutAttr, HdrLenAttr, Aligned, X_ALIGN

SizedArray(as) == as.value \in Seq(Attr) /\ \A i \in 1 .. Len(as.value) : Sized(as.value[i])

LEMMA AttrsAgree ==
  ASSUME NEW as, SizedArray(as)
  PROVE  HdrPutAttrs(as) = HdrLenAttrs(as) /\ Aligned(HdrLenAttrs(as))
<1> DEFINE n == Len(as.value)
           lens == [i \in DOMAIN as.value |-> HdrLenAttr(as.value[i])]
           puts == [i \in DOMAIN as.value |-> HdrPutAttr(as.value[i])]
<1>1. as.value \in Seq(Attr) /\ n \in Nat /\ DOMAIN as.value = 1 .. n
  <2>1. as.value \in Seq(Attr)
    BY DEF SizedArray
  <2> QED
    BY <2>1, LenProperties
<1>2. \A i \in 1 .. n : /\ HdrPutAttr(as.value[i]) = HdrLenAttr(as.value[i])
                        /\ Aligned(HdrLenAttr(as.value[i]))
  BY AttrAgrees DEF SizedArray
<1>3. puts = lens
  BY <1>1, <1>2
<1>4. Aligned(Total(lens))
  <2>1. \A i \in 1 .. n : lens[i] \in Nat /\ Aligned(lens[i])
    BY <1>1, <1>2 DEF Aligned
  <2>2. lens \in [1 .. n -> Nat]
    BY <1>1, <2>1
  <2>3. lens \in Seq(Nat) /\ Len(lens) = n
    <3> HIDE DEF lens, n
    <3> QED
      BY <1>1, <2>2
  <2> HIDE DEF lens
  <2> QED
    BY <2>1, <2>3, TotalAligned
<1>5. HdrPutAttrs(as) = 4 + 8 + Total(puts) /\ HdrLenAttrs(as) = 4 + 8 + Total(lens)
  BY DEF HdrPutAttrs, HdrLenAttrs
<1> HIDE DEF lens, puts
<1> QED
  BY <1>3, <1>4, <1>5 DEF Aligned, X_ALIGN

LEMMA VarAgrees ==
  ASSUME NEW v \in VarT, NEW as, SizedArray(as)
  PROVE  HdrPutVar(v, as) = HdrLenVar(v, as) /\ Aligned(HdrLenVar(v, as))
<1> DEFINE n == Len(v.dims)
<1>1. v.name \in Name /\ Len(v.dims) \in Nat
  BY DEF VarT
<1>2. HdrPutName(v.name) = HdrLenName(v.name) /\ Aligned(HdrLenName(v.name))
  BY <1>1, NamesAgree
<1>3. HdrPutAttrs(as) = HdrLenAttrs(as) /\ Aligned(HdrLenAttrs(as))
  BY AttrsAgree
<1>4. /\ HdrLenVar(v, as) = HdrLenName(v.name) + 8 + 8 * n + HdrLenAttrs(as) + 4 + 8 + 8
      /\ HdrPutVar(v, as) = HdrPutName(v.name) + 8 + 8 * n + HdrPutAttrs(as) + 4 + 8 + 8
  BY DEF HdrLenVar, HdrPutVar
<1>5. Aligned(8 * n)
  BY <1>1, AlignedEights
<1> DEFINE e == 8 * n
           p == HdrLenName(v.name)
           q == HdrLenAttrs(as)
<1>6. Aligned(e) /\ Aligned(p) /\ Aligned(q)
  BY <1>2, <1>3, <1>5
<1>7. HdrLenVar(v, as) = p + 8 + e + q + 4 + 8 + 8 /\ HdrPutVar(v, as) = HdrLenVar(v, as)
  BY <1>2, <1>3, <1>4
<1> HIDE DEF e, p, q
<1>8. Aligned(p + 8 + e + q + 4 + 8 + 8)
  BY <1>6 DEF Aligned, X_ALIGN
<1> QED
  BY <1>7, <1>8

-----------------------------------------------------------------------------
(* Headers as the driver makes them. *)

\* An array's allocation is a multiple of the growth step and holds it.
Allocated(a) == Len(a.value) <= a.alloc /\ a.alloc % ArrayGrowBy = 0

Made(h) ==
  /\ h \in Header
  /\ Len(h.attrs) = Len(h.vars.value) + 1
  /\ Allocated(h.dims) /\ Allocated(h.vars)
  /\ \A i \in 1 .. Len(h.attrs) : Allocated(h.attrs[i]) /\ SizedArray(h.attrs[i])

\* Packing a header moves the pointer exactly to the end of the buffer: the
\* two traversals of blob_ncmpio.c agree, and rounding the size up adds no
\* byte that nobody writes.
THEOREM TraversalsAgree ==
  ASSUME NEW h, Made(h)
  PROVE  PacksExactly(h) /\ HdrLen(h) \in Nat
<1> DEFINE nd == Len(h.dims.value)
           nv == Len(h.vars.value)
           dl == [i \in DOMAIN h.dims.value |-> HdrLenDim(h.dims.value[i])]
           dp == [i \in DOMAIN h.dims.value |-> HdrPutDim(h.dims.value[i])]
           vl == [i \in DOMAIN h.vars.value |-> HdrLenVar(h.vars.value[i], h.attrs[i + 1])]
           vp == [i \in DOMAIN h.vars.value |-> HdrPutVar(h.vars.value[i], h.attrs[i + 1])]
<1>1. /\ h.dims.value \in Seq(Dim) /\ h.vars.value \in Seq(VarT)
      /\ DOMAIN h.dims.value = 1 .. nd /\ DOMAIN h.vars.value = 1 .. nv
      /\ nd \in Nat /\ nv \in Nat
  BY DEF Made, Header
<1>2. \A i \in 1 .. nd : /\ HdrPutDim(h.dims.value[i]) = HdrLenDim(h.dims.value[i])
                         /\ Aligned(HdrLenDim(h.dims.value[i]))
  BY <1>1, DimsAgree, ElementOfSeq
<1>3. \A i \in 1 .. nv :
        /\ HdrPutVar(h.vars.value[i], h.attrs[i + 1]) = HdrLenVar(h.vars.value[i], h.attrs[i + 1])
        /\ Aligned(HdrLenVar(h.vars.value[i], h.attrs[i + 1]))
  <2> SUFFICES ASSUME NEW i \in 1 .. nv
               PROVE  /\ HdrPutVar(h.vars.value[i], h.attrs[i + 1])
                           = HdrLenVar(h.vars.value[i], h.attrs[i + 1])
                      /\ Aligned(HdrLenVar(h.vars.value[i], h.attrs[i + 1]))
    OBVIOUS
  <2>1. h.vars.value[i] \in VarT
    BY <1>1, ElementOfSeq
  <2>2. i + 1 \in 1 .. Len(h.attrs)
    BY <1>1 DEF Made
  <2>3. SizedArray(h.attrs[i + 1])
    BY <2>2 DEF Made
  <2> QED
    BY <2>1, <2>3, VarAgrees
<1>4. dp = dl /\ vp = vl
  BY <1>1, <1>2, <1>3
<1>5. Aligned(Total(dl)) /\ Aligned(Total(vl))
  <2>1. dl \in Seq(Nat) /\ Len(dl) = nd /\ \A i \in 1 .. nd : Aligned(dl[i])
    BY <1>1, <1>2 DEF Aligned
  <2>2. vl \in Seq(Nat) /\ Len(vl) = nv /\ \A i \in 1 .. nv : Aligned(vl[i])
    BY <1>1, <1>3 DEF Aligned
  <2> HIDE DEF dl, vl
  <2> QED
    BY <2>1, <2>2, TotalAligned
<1>6. HdrPutAttrs(h.attrs[1]) = HdrLenAttrs(h.attrs[1]) /\ Aligned(HdrLenAttrs(h.attrs[1]))
  <2>1. 1 \in 1 .. Len(h.attrs)
    BY <1>1 DEF Made
  <2> QED
    BY <2>1, AttrsAgree DEF Made
<1>7. /\ HdrLen(h) = 4 + 8 + (4 + 8 + Total(dl)) + HdrLenAttrs(h.attrs[1]) + (4 + 8 + Total(vl))
      /\ HdrPut(h) = 4 + 8 + (4 + 8 + Total(dp)) + HdrPutAttrs(h.attrs[1]) + (4 + 8 + Total(vp))
  BY DEF HdrLen, HdrPut
<1> HIDE DEF dl, dp, vl, vp
<1>8. HdrPut(h) = HdrLen(h) /\ Aligned(HdrLen(h))
  BY <1>4, <1>5, <1>6, <1>7 DEF Aligned, X_ALIGN
<1>9. HdrLen(h) \in Nat /\ RndUp(HdrLen(h)) = HdrLen(h)
  BY <1>8, RndUpProperties DEF Aligned
<1> QED
  BY <1>8, <1>9 DEF PacksExactly, BufLen

\* No array is written beyond its allocation.
LEMMA MadeFits ==
  ASSUME NEW h, Made(h)
  PROVE  ArraysFit(h)
<1>1. DOMAIN h.attrs = 1 .. Len(h.attrs)
  BY DEF Made, Header
<1> QED
  BY <1>1 DEF Made, Allocated, ArraysFit, WithinAlloc
-----------------------------------------------------------------------------
(* The driver's operations make such headers.                              *)

LEMMA NextMultiple ==
  ASSUME NEW g \in Nat \ {0}, NEW n \in Nat, n % g = 0
  PROVE  (n + g) % g = 0 /\ 0 % g = 0
<1>1. n = g * (n \div g) + (n % g) /\ n \div g \in Int
  OBVIOUS
<1>2. PICK q \in Int : n = g * q
  BY <1>1
<1>3. n + g = g * (q + 1)
  BY <1>2
<1>4. \A k \in Int : (g * k) % g = 0
  OBVIOUS
<1> QED
  BY <1>3, <1>4

\* Storing an element grows the array in time.
LEMMA StoredFits ==
  ASSUME NEW S, NEW a \in [value : Seq(S), alloc : Nat], Allocated(a), NEW x \in S
  PROVE  /\ Stored(a, x) \in [value : Seq(S), alloc : Nat]
         /\ Allocated(Stored(a, x))
<1> DEFINE n == Len(a.value)
           m == IF n % ArrayGrowBy = 0 THEN n + ArrayGrowBy ELSE a.alloc
<1>1. a.value \in Seq(S) /\ n \in Nat /\ a.alloc \in Nat /\ ArrayGrowBy \in Nat \ {0}
  BY HeaderAssumption
<1>2. n <= a.alloc /\ a.alloc % ArrayGrowBy = 0
  BY DEF Allocated
<1>3. Stored(a, x) = [value |-> Append(a.value, x), alloc |-> m]
  BY DEF Stored
<1>4. Append(a.value, x) \in Seq(S) /\ Len(Append(a.value, x)) = n + 1
  BY <1>1
<1> HIDE DEF n
<1>5. m \in Nat /\ n + 1 <= m /\ m % ArrayGrowBy = 0
  <2>1. CASE n % ArrayGrowBy = 0
    <3>1. (n + ArrayGrowBy) % ArrayGrowBy = 0
      BY <1>1, <2>1, NextMultiple
    <3> QED
      BY <1>1, <2>1, <3>1
  <2>2. CASE n % ArrayGrowBy # 0
    <3>1. n # a.alloc
      BY <1>2, <2>2
    <3> QED
      BY <1>1, <1>2, <2>2, <3>1
  <2> QED
    BY <2>1, <2>2
<1> HIDE DEF m
<1> QED
  BY <1>3, <1>4, <1>5 DEF Allocated

LEMMA StoredLast ==
  ASSUME NEW a, NEW x
  PROVE  Stored(a, x).value = Append(a.value, x)
BY DEF Stored

LEMMA NoArrayMade ==
  /\ NoArray.value = <<>> /\ NoArray.alloc = 0
  /\ \A S : NoArray \in [value : Seq(S), alloc : Nat]
  /\ Allocated(NoArray) /\ SizedArray(NoArray)
<1>1. 0 % ArrayGrowBy = 0
  BY NextMultiple, HeaderAssumption
<1>2. NoArray.value = <<>> /\ NoArray.alloc = 0 /\ Len(<<>>) = 0
  BY DEF NoArray
<1>3. \A S : NoArray \in [value : Seq(S), alloc : Nat]
  BY DEF NoArray
<1>4. Allocated(NoArray)
  BY <1>1, <1>2 DEF Allocated
<1> QED
  BY <1>2, <1>3, <1>4 DEF SizedArray

LEMMA NoHeaderMade == Made(NoHeader)
<1>1. NoHeader \in Header
  BY NoArrayMade DEF NoHeader, Header
<1> QED
  BY <1>1, NoArrayMade DEF NoHeader, Made

LEMMA AddDimMade ==
  ASSUME NEW h, Made(h), NEW c \in DimCall
  PROVE  Made(AddDim(h, c))
<1> DEFINE x == [name |-> c.name, size |-> c.size]
           k == AddDim(h, c)
<1>1. x \in Dim
  BY DEF DimCall, Dim
<1>2. h.dims \in [value : Seq(Dim), alloc : Nat] /\ Allocated(h.dims) /\ h \in Header
  BY DEF Made, Header
<1>3. k = [h EXCEPT !.dims = Stored(h.dims, x)]
  BY DEF AddDim
<1> HIDE DEF x
<1>4. Stored(h.dims, x) \in [value : Seq(Dim), alloc : Nat] /\ Allocated(Stored(h.dims, x))
  BY <1>1, <1>2, StoredFits
<1>5. /\ k \in Header /\ k.vars = h.vars /\ k.attrs = h.attrs
      /\ k.dims = Stored(h.dims, x)
  BY <1>2, <1>3, <1>4 DEF Header
<1> HIDE DEF k
<1>6. Made(k)
  BY <1>4, <1>5 DEF Made
<1> QED
  BY <1>6 DEF k

LEMMA AddVarMade ==
  ASSUME NEW h, Made(h), NEW c \in VarCall
  PROVE  Made(AddVar(h, c))
<1> DEFINE x == [name |-> c.name, type |-> c.type, dims |-> c.dims]
           k == AddVar(h, c)
           A == [value : Seq(Attr), alloc : Nat]
<1>1. x \in VarT
  BY DEF VarCall, VarT
<1>2. /\ h.vars \in [value : Seq(VarT), alloc : Nat] /\ Allocated(h.vars)
      /\ h.attrs \in Seq(A) /\ h \in Header
  BY DEF Made, Header
<1>3. k = [h EXCEPT !.vars = Stored(h.vars, x), !.attrs = Append(h.attrs, NoArray)]
  BY DEF AddVar
<1> HIDE DEF x
<1>4. /\ Stored(h.vars, x) \in [value : Seq(VarT), alloc : Nat] /\ Allocated(Stored(h.vars, x))
      /\ Stored(h.vars, x).value = Append(h.vars.value, x)
  BY <1>1, <1>2, StoredFits, StoredLast
<1>5. NoArray \in A
  BY NoArrayMade
<1> HIDE DEF A
<1>6. /\ Append(h.attrs, NoArray) \in Seq(A)
      /\ Len(Append(h.attrs, NoArray)) = Len(h.attrs) + 1
      /\ \A i \in 1 .. Len(h.attrs) : Append(h.attrs, NoArray)[i] = h.attrs[i]
      /\ Append(h.attrs, NoArray)[Len(h.attrs) + 1] = NoArray
      /\ Len(h.attrs) \in Nat
  BY <1>2, <1>5, AppendProperties, LenProperties
<1>7. /\ k \in Header /\ k.dims = h.dims /\ k.attrs = Append(h.attrs, NoArray)
      /\ k.vars = Stored(h.vars, x)
  BY <1>2, <1>3, <1>4, <1>6 DEF Header, A
<1> HIDE DEF k
<1>8. Len(k.attrs) = Len(k.vars.value) + 1
  <2>1. Len(h.attrs) = Len(h.vars.value) + 1 /\ h.vars.value \in Seq(VarT)
    BY <1>2 DEF Made
  <2>2. Len(Append(h.vars.value, x)) = Len(h.vars.value) + 1
    BY <1>1, <2>1, AppendProperties
  <2> QED
    BY <1>4, <1>6, <1>7, <2>1, <2>2
<1>9. \A i \in 1 .. Len(k.attrs) : Allocated(k.attrs[i]) /\ SizedArray(k.attrs[i])
  <2> SUFFICES ASSUME NEW i \in 1 .. Len(h.attrs) + 1
               PROVE  Allocated(k.attrs[i]) /\ SizedArray(k.attrs[i])
    BY <1>6, <1>7
  <2>1. CASE i = Len(h.attrs) + 1
    BY <1>6, <1>7, <2>1, NoArrayMade
  <2>2. CASE i # Len(h.attrs) + 1
    <3>1. i \in 1 .. Len(h.attrs)
      BY <1>6, <2>2
    <3>2. k.attrs[i] = h.attrs[i]
      BY <1>6, <1>7, <3>1
    <3>3. Allocated(h.attrs[i]) /\ SizedArray(h.attrs[i])
      BY <3>1 DEF Made
    <3> QED
      BY <3>2, <3>3
  <2> QED
    BY <2>1, <2>2
<1>10. Made(k)
  <2>1. Allocated(k.dims) /\ Allocated(k.vars)
    BY <1>4, <1>7 DEF Made
  <2> QED
    BY <1>7, <1>8, <1>9, <2>1 DEF Made
<1> QED
  BY <1>10 DEF k

LEMMA PutAttrMade ==
  ASSUME NEW h, Made(h), NEW c \in AttCall
  PROVE  Made(PutAttr(h, c))
<1> DEFINE x == [name |-> c.name, type |-> c.type, nelems |-> c.nelems,
                 xsz |-> XLenAttrV(c.type, c.nelems)]
           k == PutAttr(h, c)
           n == c.var + 1
           A == [value : Seq(Attr), alloc : Nat]
<1>1. x \in Attr /\ Sized(x)
  <2>1. c.name \in Name /\ c.type \in XType /\ c.nelems \in Nat
    BY DEF AttCall
  <2>2. XLenAttrV(c.type, c.nelems) \in Nat
    BY <2>1, AttrSpace DEF Aligned
  <2> QED
    BY <2>1, <2>2 DEF Attr, Sized
<1>2. h.attrs \in Seq(A) /\ h \in Header /\ DOMAIN h.attrs = 1 .. Len(h.attrs)
  BY DEF Made, Header
<1>3. k = [h EXCEPT !.attrs = [h.attrs EXCEPT ![n] = Stored(h.attrs[n], x)]]
  BY DEF PutAttr
<1> HIDE DEF x, k, n
<1>4. CASE n \notin 1 .. Len(h.attrs)
  <2>1. [h.attrs EXCEPT ![n] = Stored(h.attrs[n], x)] = h.attrs
    BY <1>2, <1>4
  <2>2. k = h
    BY <1>2, <1>3, <2>1 DEF Header
  <2> QED
    BY <2>2 DEF k
<1>5. CASE n \in 1 .. Len(h.attrs)
  <2> DEFINE b == h.attrs[n]
             t == Stored(b, x)
             as == [h.attrs EXCEPT ![n] = t]
  <2>1. b \in A /\ Allocated(b) /\ SizedArray(b)
    BY <1>2, <1>5, ElementOfSeq DEF Made
  <2>2. t \in A /\ Allocated(t) /\ t.value = Append(b.value, x)
    BY <1>1, <2>1, StoredFits, StoredLast
  <2>3. SizedArray(t)
    <3>1. b.value \in Seq(Attr) /\ \A i \in 1 .. Len(b.value) : Sized(b.value[i])
      BY <2>1 DEF SizedArray
    <3>2. /\ t.value \in Seq(Attr) /\ Len(t.value) = Len(b.value) + 1
          /\ \A i \in 1 .. Len(b.value) : t.value[i] = b.value[i]
          /\ t.value[Len(b.value) + 1] = x
          /\ Len(b.value) \in Nat
      BY <1>1, <2>2, <3>1, AppendProperties, LenProperties
    <3> HIDE DEF t
    <3>3. ASSUME NEW i \in 1 .. Len(t.value) PROVE Sized(t.value[i])
      <4>1. CASE i = Len(b.value) + 1
        BY <1>1, <3>2, <4>1
      <4>2. CASE i # Len(b.value) + 1
        <5>1. i \in 1 .. Len(b.value)
          BY <3>2, <4>2
        <5> QED
          BY <3>1, <3>2, <5>1
      <4> QED
        BY <4>1, <4>2
    <3> QED
      BY <3>2, <3>3 DEF SizedArray
  <2> HIDE DEF t, A
  <2>4. /\ as \in Seq(A) /\ Len(as) = Len(h.attrs)
        /\ as[n] = t /\ \A i \in 1 .. Len(h.attrs) : i # n => as[i] = h.attrs[i]
    BY <1>2, <1>5, <2>2, ExceptSeq
  <2>5. k = [h EXCEPT !.attrs = as]
    BY <1>3 DEF t
  <2> HIDE DEF as
  <2>6. k \in Header /\ k.dims = h.dims /\ k.vars = h.vars /\ k.attrs = as
    BY <1>2, <2>4, <2>5 DEF Header, A
  <2>7. \A i \in 1 .. Len(as) : Allocated(as[i]) /\ SizedArray(as[i])
    BY <2>2, <2>3, <2>4 DEF Made
  <2>8. Made(k)
    BY <2>4, <2>6, <2>7 DEF Made
  <2> QED
    BY <2>8 DEF k
<1> QED
  BY <1>4, <1>5

-----------------------------------------------------------------------------
(* How many flushes there are before step k, which tells where in the       *)
(* sequence of collective calls a rank is.                                 *)

Flushes(k) == Cardinality({j \in 0 .. k - 1 : FlushAfter(j)})

\* There is one more after a step that flushes, none before the record
\* variables, and most at the end.
LEMMA FlushesProperties ==
  /\ \A k \in Int : Flushes(k) \in Nat
  /\ \A k \in Nat : Flushes(k + 1) =
       IF FlushAfter(k) THEN Flushes(k) + 1 ELSE Flushes(k)
  /\ Flushes(-1) = 0 /\ Flushes(0) = 0
  /\ \A k \in Int : k <= NRecs => Flushes(k) <= Flushes(NRecs)
<1> DEFINE F == {j \in Int : FlushAfter(j)}
<1>1. \A k \in Int : Flushes(k) = CountBelow(F, k)
  <2> TAKE k \in Int
  <2>1. {j \in 0 .. k - 1 : FlushAfter(j)} = {j \in 0 .. k - 1 : j \in F}
    OBVIOUS
  <2> QED
    BY <2>1 DEF Flushes, CountBelow
<1>2. \A k \in Nat : k \in F <=> FlushAfter(k)
  OBVIOUS
<1>3. NRecs \in Nat
  BY CaseAssumption
<1> HIDE DEF F
<1> QED
  BY <1>1, <1>2, <1>3, CountBelowProperties

-----------------------------------------------------------------------------
(* The header: what the driver's operations make, and only EndExscan packs *)
(* it.                                                                     *)

HeadInv == HeaderType /\ \A r \in Rank : Made(nc[r])

Makes(r) == DefDim(r) \/ DefVar(r) \/ PutAtt(r)

LEMMA InitHead == Init => HeadInv
<1> SUFFICES ASSUME Init PROVE HeadInv
  OBVIOUS
<1>1. PICK s \in Schemas : defs = [r \in Rank |-> s]
  BY DEF Init
<1>2. s \in Seq(DefCall)
  BY SchemaAssumption
<1>3. defs \in [Rank -> Seq(DefCall)]
  BY <1>1, <1>2
<1>4. NoHeader \in Header /\ Made(NoHeader)
  BY NoHeaderMade DEF Made
<1> QED
  BY <1>3, <1>4 DEF Init, HeadInv, HeaderType

LEMMA MakesHead ==
  ASSUME HeadInv, NEW r \in Rank, Makes(r)
  PROVE  HeadInv'
<1> DEFINE c == Head(defs[r])
<1>1. /\ nc \in [Rank -> Header] /\ defs \in [Rank -> Seq(DefCall)]
      /\ headerLen \in [Rank -> Nat]
      /\ \A q \in Rank : Made(nc[q])
  BY DEF HeadInv, HeaderType
<1>2. c \in DefCall /\ Tail(defs[r]) \in Seq(DefCall)
  <2>1. defs[r] \in Seq(DefCall) /\ defs[r] # <<>>
    BY <1>1 DEF Makes, DefDim, DefVar, PutAtt, Defines
  <2> QED
    BY <2>1, HeadTailProperties
<1>3. PICK h : Defined(r, h) /\ Made(h)
  <2>1. CASE DefDim(r)
    <3>1. c.op = "dim"
      BY <2>1 DEF DefDim, Defines
    <3>2. c \in DimCall
      BY <1>2, <3>1 DEF DefCall, DimCall, VarCall, AttCall
    <3> HIDE DEF c
    <3>3. Made(AddDim(nc[r], c))
      BY <1>1, <3>2, AddDimMade
    <3> QED
      BY <2>1, <3>3 DEF DefDim, c
  <2>2. CASE DefVar(r)
    <3>1. c.op = "var"
      BY <2>2 DEF DefVar, Defines
    <3>2. c \in VarCall
      BY <1>2, <3>1 DEF DefCall, DimCall, VarCall, AttCall
    <3> HIDE DEF c
    <3>3. Made(AddVar(nc[r], c))
      BY <1>1, <3>2, AddVarMade
    <3> QED
      BY <2>2, <3>3 DEF DefVar, c
  <2>3. CASE PutAtt(r)
    <3>1. c.op = "att"
      BY <2>3 DEF PutAtt, Defines
    <3>2. c \in AttCall
      BY <1>2, <3>1 DEF DefCall, DimCall, VarCall, AttCall
    <3> HIDE DEF c
    <3>3. Made(PutAttr(nc[r], c))
      BY <1>1, <3>2, PutAttrMade
    <3> QED
      BY <2>3, <3>3 DEF PutAtt, c
  <2> QED
    BY <2>1, <2>2, <2>3 DEF Makes
<1>4. h \in Header
  BY <1>3 DEF Made
<1>5. /\ nc' = [nc EXCEPT ![r] = h] /\ defs' = [defs EXCEPT ![r] = Tail(@)]
      /\ headerLen' = headerLen
  BY <1>3 DEF Defined
<1> QED
  BY <1>1, <1>2, <1>3, <1>4, <1>5 DEF HeadInv, HeaderType

LEMMA PackHead ==
  ASSUME HeadInv, NEW r \in Rank, EndExscan(r)
  PROVE  HeadInv'
<1>1. BufLen(nc[r]) \in Nat
  <2>1. PacksExactly(nc[r]) /\ HdrLen(nc[r]) \in Nat
    BY TraversalsAgree DEF HeadInv
  <2> QED
    BY <2>1 DEF PacksExactly
<1>2. NoHeader \in Header /\ Made(NoHeader)
  BY NoHeaderMade DEF Made
<1>3. /\ nc' = [nc EXCEPT ![r] = NoHeader] /\ defs' = defs
      /\ headerLen' = [headerLen EXCEPT ![r] = BufLen(nc[r])]
  BY DEF EndExscan
<1> QED
  BY <1>1, <1>2, <1>3 DEF HeadInv, HeaderType

LEMMA NextHead == HeadInv /\ [Next]_vars => HeadInv'
<1> SUFFICES ASSUME HeadInv, [Next]_vars PROVE HeadInv'
  OBVIOUS
<1>1. CASE UNCHANGED hdrVars
  BY <1>1 DEF HeadInv, HeaderType, hdrVars
<1>2. ASSUME NEW r \in Rank, RankNext(r) PROVE HeadInv'
  <2>1. CASE Makes(r)
    BY <2>1, MakesHead
  <2>2. CASE EndExscan(r)
    BY <2>2, PackHead
  <2>3. CASE ~Makes(r) /\ ~EndExscan(r)
    <3>1. UNCHANGED hdrVars
      BY <1>2, <2>3 DEF RankNext, Makes, PutVara, EndStep, Flush, BeginClose,
         EndAllreduce, CreateDatasets, WriteBlob, WriteHeader, EndClose
    <3> QED
      BY <1>1, <3>1
  <2> QED
    BY <2>1, <2>2, <2>3
<1>3. CASE Combine \/ UNCHANGED vars
  BY <1>1, <1>3 DEF Combine, vars
<1> QED
  BY <1>2, <1>3 DEF Next, Finished

\* The definitions leave everything else alone.
LEMMA MakesKeeps ==
  ASSUME NEW r \in Rank, Makes(r)
  PROVE  UNCHANGED <<ctlVars, putVars, mpiVars, sum, start, fileVars>>
BY DEF Makes, DefDim, DefVar, PutAtt, Defined

\* Whatever a case defines, packing the header fills the buffer to its end
\* and not beyond, and no array of the header object is written beyond its
\* allocation.
THEOREM HeadersPack == Spec => []HeaderPacks
<1>1. HeadInv => HeaderPacks
  BY TraversalsAgree, MadeFits DEF HeadInv, HeaderPacks
<1> QED
  BY <1>1, InitHead, NextHead, PTL DEF Spec

-----------------------------------------------------------------------------
(* Type correctness.                                                       *)

\* A function on 1..n is a sequence of length n.
LEMMA FcnIsSeq ==
  ASSUME NEW S, NEW n \in Nat, NEW f \in [1 .. n -> S]
  PROVE  f \in Seq(S) /\ Len(f) = n
OBVIOUS

\* The cache of a variable nobody has written yet.
LEMMA NoVarBufType == IsVarBuf(NoVarBuf)
<1>1. [i \in 1 .. 0 |-> None] \in [1 .. 0 -> Nat \cup {None}]
  OBVIOUS
<1>2. QED
  BY <1>1, FcnIsSeq DEF NoVarBuf, IsVarBuf, VarBuf

\* Growing the cache of a record variable keeps its buffers and its length
\* in step.
LEMMA GrownType ==
  ASSUME NEW c, IsVarBuf(c), NEW s \in Nat
  PROVE  IsVarBuf(Grown(c, s))
<1>1. CASE s # c.nalloc
  BY <1>1 DEF Grown
<1>2. CASE s = c.nalloc
  <2> DEFINE n == c.nalloc + Grow
             f == [i \in 1 .. n |-> IF i <= c.nalloc THEN c.buf[i] ELSE None]
  <2>1. c.nalloc \in Nat /\ c.nrecs \in Nat /\ n \in Nat
    BY H5BlobAssumption DEF IsVarBuf, VarBuf
  <2>2. \A i \in 1 .. c.nalloc : c.buf[i] \in Nat \cup {None}
    BY ElementOfSeq DEF IsVarBuf, VarBuf
  <2>3. f \in [1 .. n -> Nat \cup {None}]
    BY <2>1, <2>2
  <2>4. Grown(c, s) = [nalloc |-> n, nrecs |-> c.nrecs, buf |-> f]
    BY <1>2 DEF Grown
  <2> HIDE DEF f, n
  <2>5. f \in Seq(Nat \cup {None}) /\ Len(f) = n
    BY <2>1, <2>3, FcnIsSeq
  <2>6. QED
    BY <2>1, <2>4, <2>5 DEF IsVarBuf, VarBuf
<1>3. QED
  BY <1>1, <1>2

LEMMA PutRecordType ==
  ASSUME NEW c, IsVarBuf(c), NEW s \in Nat, ~Overruns(c, s)
  PROVE  IsVarBuf(PutRecord(c, s))
<1> DEFINE g == Grown(c, s)
<1>1. IsVarBuf(g)
  BY GrownType
<1>2. s + 1 \in 1 .. Len(g.buf)
  BY <1>1 DEF Overruns, IsVarBuf, VarBuf
<1>3. /\ [g.buf EXCEPT ![s + 1] = s] \in Seq(Nat \cup {None})
      /\ Len([g.buf EXCEPT ![s + 1] = s]) = g.nalloc
  BY <1>1, <1>2, ExceptSeq DEF IsVarBuf, VarBuf
<1>4. PutRecord(c, s) = [nalloc |-> g.nalloc,
                         nrecs |-> VarRecs(g.nrecs, s),
                         buf |-> [g.buf EXCEPT ![s + 1] = s]]
  BY DEF PutRecord
<1> HIDE DEF g
<1>5. QED
  BY <1>1, <1>3, <1>4 DEF IsVarBuf, VarBuf, VarRecs

LEMMA PutFixedType ==
  ASSUME NEW c, IsVarBuf(c)
  PROVE  IsVarBuf(PutFixed(c))
<1>1. CASE c.nalloc = 0
  <2>1. [i \in 1 .. 1 |-> 0] \in [1 .. 1 -> Nat \cup {None}]
    OBVIOUS
  <2>2. QED
    BY <1>1, <2>1, FcnIsSeq DEF PutFixed, IsVarBuf, VarBuf
<1>2. CASE c.nalloc # 0
  <2>1. 1 \in 1 .. Len(c.buf)
    BY <1>2 DEF IsVarBuf, VarBuf
  <2>2. /\ [c.buf EXCEPT ![1] = 0] \in Seq(Nat \cup {None})
        /\ Len([c.buf EXCEPT ![1] = 0]) = c.nalloc
    BY <2>1, ExceptSeq DEF IsVarBuf, VarBuf
  <2>3. PutFixed(c) = [nalloc |-> c.nalloc, nrecs |-> 0,
                       buf |-> [c.buf EXCEPT ![1] = 0]]
    BY <1>2 DEF PutFixed
  <2>4. QED
    BY <2>2, <2>3 DEF IsVarBuf, VarBuf
<1>3. QED
  BY <1>1, <1>2

\* The posting loops and the calls they enter keep the types of the control
\* variables.
LEMMA EnterType ==
  ASSUME BlobType, NEW r \in Rank, NEW call \in Call, Enter(r, call)
  PROVE  calls' \in [Rank -> Seq(Call)]
BY DEF BlobType, Enter

LEMMA NextStepType ==
  ASSUME BlobType, NEW r \in Rank, NextStep(r)
  PROVE  /\ pc' \in [Rank -> PC]
         /\ rec' \in [Rank -> Step]
         /\ cur' \in [Rank -> 0 .. NVars]
         /\ calls' \in [Rank -> Seq(Call)]
<1>1. CASE rec[r] + 1 < NRecs
  <2>1. rec[r] + 1 \in Step
    BY <1>1, CaseAssumption DEF BlobType, Step
  <2>2. 0 \in 0 .. NVars /\ "post" \in PC
    BY CaseAssumption DEF PC
  <2>3. /\ pc \in [Rank -> PC] /\ rec \in [Rank -> Step]
        /\ cur \in [Rank -> 0 .. NVars] /\ calls \in [Rank -> Seq(Call)]
    BY DEF BlobType
  <2>4. /\ pc' = [pc EXCEPT ![r] = "post"]
        /\ rec' = [rec EXCEPT ![r] = rec[r] + 1]
        /\ cur' = [cur EXCEPT ![r] = 0] /\ calls' = calls
    BY <1>1 DEF NextStep
  <2> HIDE DEF PC, Step
  <2>5. QED
    BY <2>1, <2>2, <2>3, <2>4
<1>2. CASE ~(rec[r] + 1 < NRecs)
  <2>1. "barrier" \in Call
    BY DEF Call
  <2>2. QED
    BY <1>2, <2>1, EnterType DEF NextStep, BlobType, PC
<1>3. QED
  BY <1>1, <1>2

\* What one put_vara() does to the cache of its variable.
LEMMA PutVaraType ==
  ASSUME BlobType, NEW r \in Rank, PutVara(r)
  PROVE  BlobType'
<1>1. PICK v \in Var :
        /\ cur' = [cur EXCEPT ![r] = v]
        /\ totalLen' = [totalLen EXCEPT ![r] = @ + PutLen[r][v]]
        /\ \/ /\ v \notin RecVar
              /\ cache' = [cache EXCEPT ![r][v] = PutFixed(@)]
              /\ UNCHANGED <<pc, numrecs>>
           \/ /\ v \in RecVar
              /\ rec[r] >= 0
              /\ IF Throws(cache[r][v], rec[r]) \/ Overruns(cache[r][v], rec[r])
                 THEN /\ pc' = [pc EXCEPT ![r] =
                                  IF Throws(cache[r][v], rec[r])
                                  THEN "thrown" ELSE "overrun"]
                      /\ UNCHANGED <<cache, numrecs>>
                 ELSE /\ cache' = [cache EXCEPT ![r][v] = PutRecord(@, rec[r])]
                      /\ numrecs' = [numrecs EXCEPT ![r] = NumRecs(@, rec[r])]
                      /\ UNCHANGED pc
  BY DEF PutVara, IsNext, Remaining, StepVars
<1>2. UNCHANGED <<rec, calls, psum, red, sum, start, data, header, amount>>
  BY DEF PutVara, mpiVars, fileVars
<1>3. cur' \in [Rank -> 0 .. NVars] /\ totalLen' \in [Rank -> Nat]
  <2>1. PutLen[r][v] \in Nat /\ v \in 0 .. NVars
    BY H5BlobAssumption, CaseAssumption DEF Var
  <2>2. QED
    BY <1>1, <2>1 DEF BlobType
<1>4. pc' \in [Rank -> PC]
  BY <1>1 DEF BlobType, PC
<1>5. numrecs' \in [Rank -> Nat]
  <2>1. CASE rec[r] >= 0
    <3>1. rec[r] + 1 \in Nat
      BY <2>1, CaseAssumption DEF BlobType, Step
    <3>2. QED
      BY <1>1, <3>1 DEF BlobType, NumRecs
  <2>2. CASE ~(rec[r] >= 0)
    BY <1>1, <2>2 DEF BlobType
  <2>3. QED
    BY <2>1, <2>2
<1>6. /\ cache' \in [Rank -> [Var -> VarBuf]]
      /\ \A q \in Rank : \A w \in Var : IsVarBuf(cache'[q][w])
  <2>0. IsVarBuf(cache[r][v]) /\ cache[r][v] \in VarBuf
    BY DEF BlobType
  <2>1. ASSUME NEW d, IsVarBuf(d), cache' = [cache EXCEPT ![r][v] = d]
        PROVE  /\ cache' \in [Rank -> [Var -> VarBuf]]
               /\ \A q \in Rank : \A w \in Var : IsVarBuf(cache'[q][w])
    <3>1. d \in VarBuf
      BY <2>1 DEF IsVarBuf
    <3>2. QED
      BY <2>1, <3>1 DEF BlobType
  <2>2. CASE v \notin RecVar
    BY <1>1, <2>0, <2>1, <2>2, PutFixedType
  <2>3. CASE v \in RecVar
    <3>1. CASE Throws(cache[r][v], rec[r]) \/ Overruns(cache[r][v], rec[r])
      BY <1>1, <2>3, <3>1 DEF BlobType
    <3>2. CASE ~(Throws(cache[r][v], rec[r]) \/ Overruns(cache[r][v], rec[r]))
      <4>1. rec[r] \in Nat
        BY <1>1, <2>3, CaseAssumption DEF BlobType, Step
      <4>2. IsVarBuf(PutRecord(cache[r][v], rec[r]))
        BY <2>0, <3>2, <4>1, PutRecordType
      <4>3. QED
        BY <1>1, <2>1, <2>3, <3>2, <4>2
    <3>3. QED
      BY <3>1, <3>2
  <2>4. QED
    BY <2>2, <2>3
<1>7. QED
  BY <1>2, <1>3, <1>4, <1>5, <1>6 DEF BlobType

\* A step of close() touches none of the posting variables.
LEMMA CloseType ==
  ASSUME BlobType, NEW r \in Rank,
         \/ BeginClose(r) \/ EndAllreduce(r) \/ EndExscan(r)
         \/ CreateDatasets(r) \/ EndClose(r)
  PROVE  BlobType'
<1>1. psum[NProcs] \in Nat /\ Exscan(r) \in Nat
  <2>1. NProcs \in 0 .. NProcs /\ r \in 0 .. NProcs
    BY CaseAssumption DEF Rank
  <2>2. \A i \in 0 .. NProcs : psum[i] \in Nat
    BY DEF BlobType
  <2>3. QED
    BY <2>1, <2>2 DEF Exscan
<1>2. CASE BeginClose(r)
  <2>1. calls' \in [Rank -> Seq(Call)]
    BY <1>2, EnterType DEF BeginClose, Call
  <2>2. QED
    BY <1>2, <2>1 DEF BeginClose, BlobType, PC, putVars, mpiVars, fileVars
<1>3. CASE EndAllreduce(r)
  <2>1. calls' \in [Rank -> Seq(Call)]
    BY <1>3, EnterType DEF EndAllreduce, Call
  <2>2. QED
    BY <1>1, <1>3, <2>1
    DEF EndAllreduce, BlobType, PC, putVars, mpiVars, fileVars
<1>4. CASE EndExscan(r)
  <2>1. calls' \in [Rank -> Seq(Call)]
    BY <1>4, EnterType DEF EndExscan, Call
  <2>2. QED
    BY <1>1, <1>4, <2>1
    DEF EndExscan, BlobType, PC, putVars, mpiVars, fileVars
<1>5. CASE CreateDatasets(r)
  <2>1. calls' \in [Rank -> Seq(Call)]
    BY <1>5, EnterType DEF CreateDatasets, Call
  <2>2. QED
    BY <1>5, <2>1 DEF CreateDatasets, BlobType, PC, putVars, mpiVars
<1>6. CASE EndClose(r)
  BY <1>6 DEF EndClose, BlobType, PC, putVars, mpiVars, fileVars
<1>7. QED
  BY <1>2, <1>3, <1>4, <1>5, <1>6

LEMMA WriteBlobType ==
  ASSUME BlobType, NEW r \in Rank, WriteBlob(r)
  PROVE  BlobType'
<1>1. UNCHANGED <<rec, cur, calls, totalLen, numrecs, psum, red, sum, start,
                  header>>
  BY DEF WriteBlob, mpiVars
<1>2. \/ /\ pc' = [pc EXCEPT ![r] = "aborted"]
         /\ UNCHANGED <<cache, amount>>
      \/ /\ pc' = [pc EXCEPT ![r] = "head"]
         /\ cache' = [cache EXCEPT ![r] = [v \in Var |-> NoVarBuf]]
         /\ amount' = [amount EXCEPT ![r] = @ + totalLen[r]]
  BY DEF WriteBlob
<1>3. pc' \in [Rank -> PC] /\ amount' \in [Rank -> Nat]
  <2>1. amount[r] + totalLen[r] \in Nat /\ {"aborted", "head"} \subseteq PC
    BY DEF BlobType, PC
  <2>2. QED
    BY <1>2, <2>1 DEF BlobType
<1>4. NoVarBuf \in VarBuf /\ IsVarBuf(NoVarBuf)
  BY NoVarBufType DEF IsVarBuf
<1>5. /\ cache' \in [Rank -> [Var -> VarBuf]]
      /\ \A q \in Rank : \A v \in Var : IsVarBuf(cache'[q][v])
  <2> DEFINE none == [v \in Var |-> NoVarBuf]
  <2>1. none \in [Var -> VarBuf] /\ \A v \in Var : IsVarBuf(none[v])
    BY <1>4
  <2>2. cache' = cache \/ cache' = [cache EXCEPT ![r] = none]
    BY <1>2
  <2> HIDE DEF none
  <2>3. QED
    BY <2>1, <2>2 DEF BlobType
<1>6. QED
  BY <1>1, <1>3, <1>5 DEF BlobType

LEMMA WriteHeaderType ==
  ASSUME BlobType, NEW r \in Rank, headerLen[r] \in Nat, WriteHeader(r)
  PROVE  BlobType'
<1>1. calls' \in [Rank -> Seq(Call)]
  BY EnterType DEF WriteHeader, Call
<1>2. UNCHANGED <<rec, cur, cache, totalLen, numrecs, psum, red, sum, start>>
  BY DEF WriteHeader, putVars, mpiVars
<1>3. pc' \in [Rank -> PC]
  BY DEF WriteHeader, BlobType, PC
<1>4. header' \in Nat \cup {None} /\ amount' \in [Rank -> Nat]
  <2>1. numrecs[r] \in Nat /\ amount[r] + headerLen[r] \in Nat
    BY DEF BlobType
  <2>2. QED
    BY <2>1 DEF WriteHeader, HeaderAmount, BlobType
<1>5. QED
  BY <1>1, <1>2, <1>3, <1>4 DEF BlobType

LEMMA CombineType ==
  ASSUME BlobType, Combine
  PROVE  BlobType'
<1>1. red \in Rank /\ red + 1 \in 0 .. NProcs /\ red \in 0 .. NProcs
  BY CaseAssumption DEF BlobType, Combine, Rank
<1>2. psum[red] + totalLen[red] \in Nat
  BY <1>1 DEF BlobType
<1>3. psum' \in [0 .. NProcs -> Nat] /\ red' \in 0 .. NProcs
  BY <1>1, <1>2 DEF BlobType, Combine
<1>4. QED
  BY <1>3 DEF BlobType, Combine, ctlVars, putVars, fileVars

LEMMA InitType == Init => BlobType
<1> SUFFICES ASSUME Init PROVE BlobType
  OBVIOUS
<1>1. NoVarBuf \in VarBuf /\ IsVarBuf(NoVarBuf)
  BY NoVarBufType DEF IsVarBuf
<1>2. -1 \in Step /\ 0 \in 0 .. NVars /\ 0 \in 0 .. NProcs
  BY CaseAssumption DEF Step
<1>3. <<>> \in Seq(Call)
  OBVIOUS
<1>4. QED
  BY <1>1, <1>2, <1>3 DEF Init, BlobType, PC

LEMMA NextType == HeadInv /\ BlobType /\ [Next]_vars => BlobType'
<1> SUFFICES ASSUME HeaderType, BlobType, [Next]_vars PROVE BlobType'
  BY DEF HeadInv
<1>1. ASSUME NEW r \in Rank, RankNext(r) PROVE BlobType'
  <2>0. CASE Makes(r)
    BY <2>0, MakesKeeps DEF BlobType, ctlVars, putVars, mpiVars, fileVars
  <2>1. CASE PutVara(r)
    BY <2>1, PutVaraType
  <2>2. CASE EndStep(r) \/ Flush(r)
    <3>1. /\ pc' \in [Rank -> PC]
          /\ rec' \in [Rank -> Step]
          /\ cur' \in [Rank -> 0 .. NVars]
          /\ calls' \in [Rank -> Seq(Call)]
      <4>1. CASE NextStep(r)
        BY <4>1, NextStepType
      <4>2. CASE /\ pc' = [pc EXCEPT ![r] = "flush"]
                 /\ Enter(r, "barrier")
                 /\ UNCHANGED <<rec, cur>>
        BY <4>2, EnterType DEF BlobType, PC, Call
      <4>3. QED
        BY <2>2, <4>1, <4>2 DEF EndStep, Flush
    <3>2. UNCHANGED <<putVars, mpiVars, sum, start, fileVars>>
      BY <2>2 DEF EndStep, Flush
    <3>3. QED
      BY <3>1, <3>2 DEF BlobType, putVars, mpiVars, fileVars
  <2>3. CASE \/ BeginClose(r) \/ EndAllreduce(r) \/ EndExscan(r)
             \/ CreateDatasets(r) \/ EndClose(r)
    BY <2>3, CloseType
  <2>4. CASE WriteBlob(r)
    BY <2>4, WriteBlobType
  <2>5. CASE WriteHeader(r)
    BY <2>5, WriteHeaderType DEF HeaderType
  <2>6. QED
    BY <1>1, <2>0, <2>1, <2>2, <2>3, <2>4, <2>5 DEF RankNext, Makes
<1>2. CASE Combine
  BY <1>2, CombineType
<1>3. CASE UNCHANGED vars
  BY <1>3 DEF BlobType, vars, ctlVars, putVars, mpiVars, fileVars
<1>4. QED
  BY <1>1, <1>2, <1>3 DEF Next, Finished

\* The variables of the driver and of the ranks keep their types.
THEOREM TypeCorrect == Spec => []TypeOK
<1>1. HeadInv /\ BlobType => TypeOK
  BY DEF HeadInv, TypeOK
<1> QED
  BY <1>1, InitHead, NextHead, InitType, NextType, PTL DEF Spec

LEMMA BlobTyped == Spec => []BlobType
<1>1. TypeOK => BlobType
  BY DEF TypeOK
<1> QED
  BY <1>1, TypeCorrect, PTL

-----------------------------------------------------------------------------
(* Every put is accepted.                                                  *)

\* The records of variable v that rank r has put when it is in step rec[r].
PutSoFar(r, v) ==
  IF rec[r] < 0 THEN 0 ELSE IF v <= cur[r] THEN rec[r] + 1 ELSE rec[r]

\* While a rank posts, the cache of a record variable holds just the records
\* put so far, and is long enough for them.
PutsInv ==
  /\ PutsAccepted
  /\ \A r \in Rank :
       /\ pc[r] \in {"post", "flush"} =>
            \A v \in RecVar : Posts(r, v) =>
              /\ cache[r][v].nrecs = PutSoFar(r, v)
              /\ cache[r][v].nrecs <= cache[r][v].nalloc
       /\ pc[r] = "flush" => Remaining(r, rec[r], cur[r]) = {}

\* Putting the record that follows those of the cache neither throws nor
\* leaves the cache, and adds just that record.
LEMMA NextRecordAccepted ==
  ASSUME NEW c, IsVarBuf(c), c.nrecs <= c.nalloc
  PROVE  /\ ~Throws(c, c.nrecs) /\ ~Overruns(c, c.nrecs)
         /\ PutRecord(c, c.nrecs).nrecs = c.nrecs + 1
         /\ c.nrecs + 1 <= PutRecord(c, c.nrecs).nalloc
<1>1. c.nrecs \in Nat /\ c.nalloc \in Nat /\ Grow \in Nat \ {0}
  BY H5BlobAssumption DEF IsVarBuf, VarBuf
<1>2. /\ Grown(c, c.nrecs).nalloc = IF c.nrecs = c.nalloc
                                    THEN c.nalloc + Grow ELSE c.nalloc
      /\ Grown(c, c.nrecs).nrecs = c.nrecs
  BY DEF Grown
<1>3. /\ PutRecord(c, c.nrecs).nalloc = Grown(c, c.nrecs).nalloc
      /\ PutRecord(c, c.nrecs).nrecs =
           IF Grown(c, c.nrecs).nrecs < c.nrecs + 1
           THEN c.nrecs + 1 ELSE Grown(c, c.nrecs).nrecs
  BY DEF PutRecord, VarRecs
<1>4. QED
  BY <1>1, <1>2, <1>3 DEF Throws, Overruns

LEMMA PutVaraAccepted ==
  ASSUME BlobType, PutsInv, NEW r \in Rank, PutVara(r)
  PROVE  PutsInv'
<1>1. PICK v \in Var :
        /\ IsNext(v, r, rec[r], cur[r])
        /\ cur' = [cur EXCEPT ![r] = v]
        /\ \/ /\ v \notin RecVar
              /\ cache' = [cache EXCEPT ![r][v] = PutFixed(@)]
              /\ UNCHANGED <<pc, numrecs>>
           \/ /\ v \in RecVar
              /\ IF Throws(cache[r][v], rec[r]) \/ Overruns(cache[r][v], rec[r])
                 THEN /\ pc' = [pc EXCEPT ![r] =
                                  IF Throws(cache[r][v], rec[r])
                                  THEN "thrown" ELSE "overrun"]
                      /\ UNCHANGED <<cache, numrecs>>
                 ELSE /\ cache' = [cache EXCEPT ![r][v] = PutRecord(@, rec[r])]
                      /\ UNCHANGED pc
  BY DEF PutVara
<1>2. pc[r] = "post" /\ rec' = rec
  BY DEF PutVara
<1>3. /\ v \in RecVar <=> rec[r] >= 0
      /\ Posts(r, v)
      /\ v > cur[r]
      /\ \A w \in Var : Posts(r, w) /\ (w \in RecVar <=> rec[r] >= 0) =>
           w <= cur[r] \/ v <= w
  <2>1. cur[r] \in Int /\ \A w \in Var : w \in Int
    BY DEF BlobType, Var
  <2>2. QED
    BY <1>1, <2>1 DEF IsNext, Remaining, StepVars
<1>4. \A q \in Rank \ {r} : /\ pc'[q] = pc[q] /\ cur'[q] = cur[q]
                            /\ cache'[q] = cache[q]
  BY <1>1 DEF BlobType
<1>5. \A w \in Var \ {v} : cache'[r][w] = cache[r][w]
  BY <1>1 DEF BlobType
<1>6. /\ pc'[r] = "post" /\ cur'[r] = v
      /\ v \in RecVar => cache'[r][v] = PutRecord(cache[r][v], rec[r])
                      /\ cache[r][v].nrecs = rec[r]
  <2>1. CASE v \notin RecVar
    BY <1>1, <1>2, <2>1 DEF BlobType
  <2>2. CASE v \in RecVar
    <3>1. cache[r][v].nrecs = rec[r] /\ cache[r][v].nrecs <= cache[r][v].nalloc
      <4>1. rec[r] \in Int /\ cur[r] \in Int /\ v \in Int
        BY DEF BlobType, Step, Var
      <4>2. QED
        BY <1>2, <1>3, <2>2, <4>1 DEF PutsInv, PutSoFar
    <3>2. ~Throws(cache[r][v], rec[r]) /\ ~Overruns(cache[r][v], rec[r])
      BY <3>1, NextRecordAccepted DEF BlobType
    <3>3. QED
      BY <1>1, <1>2, <2>2, <3>1, <3>2 DEF BlobType
  <2>3. QED
    BY <2>1, <2>2
<1>7. ASSUME NEW w \in RecVar, Posts(r, w)
      PROVE  /\ cache'[r][w].nrecs = PutSoFar(r, w)'
             /\ cache'[r][w].nrecs <= cache'[r][w].nalloc
  <2>0. w \in Var /\ rec[r] \in Int /\ cur[r] \in Int /\ v \in Int /\ w \in Int
    BY CaseAssumption DEF BlobType, Step, Var
  <2>1. CASE w = v
    <3>1. /\ PutRecord(cache[r][v], rec[r]).nrecs = rec[r] + 1
          /\ rec[r] + 1 <= PutRecord(cache[r][v], rec[r]).nalloc
      <4>1. IsVarBuf(cache[r][v]) /\ cache[r][v].nrecs <= cache[r][v].nalloc
        BY <1>2, <1>7, <2>1 DEF PutsInv, BlobType
      <4>2. QED
        BY <1>6, <1>7, <2>1, <4>1, NextRecordAccepted
    <3>2. rec[r] >= 0
      BY <1>3, <1>7, <2>1
    <3>3. QED
      BY <1>2, <1>6, <1>7, <2>0, <2>1, <3>1, <3>2 DEF PutSoFar
  <2>2. CASE w # v
    <3>1. /\ cache[r][w].nrecs = PutSoFar(r, w)
          /\ cache[r][w].nrecs <= cache[r][w].nalloc
      BY <1>2, <1>7 DEF PutsInv
    <3>2. PutSoFar(r, w)' = PutSoFar(r, w)
      BY <1>2, <1>3, <1>6, <1>7, <2>0, <2>2 DEF PutSoFar
    <3>3. QED
      BY <1>5, <2>0, <2>2, <3>1, <3>2
  <2>3. QED
    BY <2>1, <2>2
<1>8. \A q \in Rank \ {r} : \A w \in RecVar : PutSoFar(q, w)' = PutSoFar(q, w)
  BY <1>2, <1>4 DEF PutSoFar
<1>9. PutsAccepted'
  BY <1>4, <1>6 DEF PutsInv, PutsAccepted
<1>10. ASSUME NEW q \in Rank
       PROVE  /\ pc'[q] \in {"post", "flush"} =>
                   \A w \in RecVar : Posts(q, w) =>
                     /\ cache'[q][w].nrecs = PutSoFar(q, w)'
                     /\ cache'[q][w].nrecs <= cache'[q][w].nalloc
              /\ pc'[q] = "flush" => Remaining(q, rec'[q], cur'[q]) = {}
  <2>1. CASE q = r
    BY <1>6, <1>7, <2>1
  <2>2. CASE q # r
    BY <1>2, <1>4, <1>8, <2>2 DEF PutsInv
  <2>3. QED
    BY <2>1, <2>2
<1>11. QED
  BY <1>9, <1>10 DEF PutsInv

\* When a rank moves on to the next record, all variables have the last one.
LEMMA NextStepAccepted ==
  ASSUME BlobType, PutsInv, NEW r \in Rank, NextStep(r),
         pc[r] \in {"post", "flush"}, Remaining(r, rec[r], cur[r]) = {},
         UNCHANGED cache
  PROVE  PutsInv'
<1>1. \A q \in Rank \ {r} : /\ pc'[q] = pc[q] /\ rec'[q] = rec[q]
                            /\ cur'[q] = cur[q]
  BY DEF NextStep, BlobType
<1>2. \A q \in Rank \ {r} : \A w \in RecVar : PutSoFar(q, w)' = PutSoFar(q, w)
  BY <1>1 DEF PutSoFar
<1>3. CASE rec[r] + 1 < NRecs
  <2>1. pc'[r] = "post" /\ rec'[r] = rec[r] + 1 /\ cur'[r] = 0
    BY <1>3 DEF NextStep, BlobType
  <2>2. ASSUME NEW w \in RecVar, Posts(r, w)
        PROVE  cache[r][w].nrecs = PutSoFar(r, w)'
    <3>1. w \in Var /\ rec[r] \in Step /\ cur[r] \in Int /\ w \in Int /\ w > 0
      BY CaseAssumption DEF BlobType, Step, Var
    <3>2. rec[r] >= 0 => w <= cur[r]
      BY <2>2, <3>1 DEF Remaining, StepVars
    <3>3. cache[r][w].nrecs = PutSoFar(r, w)
      BY <2>2 DEF PutsInv
    <3>4. rec[r] \in Int /\ rec[r] >= -1
      BY <3>1 DEF Step
    <3>5. QED
      BY <2>1, <3>1, <3>2, <3>3, <3>4 DEF PutSoFar
  <2>3. QED
    BY <1>1, <1>2, <2>1, <2>2 DEF PutsInv, PutsAccepted
<1>4. CASE ~(rec[r] + 1 < NRecs)
  <2>1. pc'[r] = "sync"
    BY <1>4 DEF NextStep, BlobType
  <2>2. QED
    BY <1>1, <1>2, <2>1 DEF PutsInv, PutsAccepted
<1>5. QED
  BY <1>3, <1>4

\* The steps of close() only move a rank further from the posting loops.
LEMMA CloseAccepted ==
  ASSUME BlobType, PutsInv, NEW r \in Rank,
         \/ BeginClose(r) \/ EndAllreduce(r) \/ EndExscan(r)
         \/ CreateDatasets(r) \/ WriteBlob(r) \/ WriteHeader(r) \/ EndClose(r)
  PROVE  PutsInv'
<1>1. /\ pc'[r] \notin {"post", "flush", "thrown", "overrun"}
      /\ \A q \in Rank \ {r} : pc'[q] = pc[q]
      /\ UNCHANGED <<rec, cur>>
  BY DEF BeginClose, EndAllreduce, EndExscan, CreateDatasets, WriteBlob,
         WriteHeader, EndClose, BlobType
<1>2. \A q \in Rank \ {r} : cache'[q] = cache[q]
  BY DEF BeginClose, EndAllreduce, EndExscan, CreateDatasets, WriteBlob,
         WriteHeader, EndClose, BlobType, putVars
<1>3. \A q \in Rank, w \in RecVar : PutSoFar(q, w)' = PutSoFar(q, w)
  BY <1>1 DEF PutSoFar
<1>4. QED
  BY <1>1, <1>2, <1>3 DEF PutsInv, PutsAccepted

LEMMA InitPuts == Init => PutsInv
<1> SUFFICES ASSUME Init PROVE PutsInv
  OBVIOUS
<1>1. \A v \in RecVar : v \in Var
  BY CaseAssumption
<1>2. QED
  BY <1>1 DEF Init, PutsInv, PutsAccepted, PutSoFar, NoVarBuf

LEMMA NextPuts == BlobType /\ PutsInv /\ [Next]_vars => PutsInv'
<1> SUFFICES ASSUME BlobType, PutsInv, [Next]_vars PROVE PutsInv'
  OBVIOUS
<1>1. ASSUME NEW r \in Rank, RankNext(r) PROVE PutsInv'
  <2>0. CASE Makes(r)
    <3>1. UNCHANGED <<pc, rec, cur, cache>>
      BY <2>0, MakesKeeps DEF ctlVars, putVars
    <3>2. \A q \in Rank, w \in RecVar : PutSoFar(q, w)' = PutSoFar(q, w)
      BY <3>1 DEF PutSoFar
    <3> QED
      BY <3>1, <3>2 DEF PutsInv, PutsAccepted
  <2>1. CASE PutVara(r)
    BY <2>1, PutVaraAccepted
  <2>2. CASE EndStep(r)
    <3>1. CASE NextStep(r)
      BY <2>2, <3>1, NextStepAccepted DEF EndStep, putVars
    <3>2. CASE /\ pc' = [pc EXCEPT ![r] = "flush"]
               /\ UNCHANGED <<rec, cur>>
      <4>1. \A q \in Rank, w \in RecVar : PutSoFar(q, w)' = PutSoFar(q, w)
        BY <3>2 DEF PutSoFar
      <4>2. QED
        BY <2>2, <3>2, <4>1
        DEF EndStep, PutsInv, PutsAccepted, BlobType, putVars
    <3>3. QED
      BY <2>2, <3>1, <3>2 DEF EndStep
  <2>3. CASE Flush(r)
    BY <2>3, NextStepAccepted DEF Flush, putVars, PutsInv
  <2>4. CASE \/ BeginClose(r) \/ EndAllreduce(r) \/ EndExscan(r)
             \/ CreateDatasets(r) \/ WriteBlob(r) \/ WriteHeader(r)
             \/ EndClose(r)
    BY <2>4, CloseAccepted
  <2>5. QED
    BY <1>1, <2>0, <2>1, <2>2, <2>3, <2>4 DEF RankNext, Makes
<1>2. CASE Combine \/ UNCHANGED vars
  <2>1. UNCHANGED <<pc, rec, cur, cache>>
    BY <1>2 DEF Combine, vars, ctlVars, putVars
  <2>2. \A q \in Rank, w \in RecVar : PutSoFar(q, w)' = PutSoFar(q, w)
    BY <2>1 DEF PutSoFar
  <2>3. QED
    BY <2>1, <2>2 DEF PutsInv, PutsAccepted
<1>3. QED
  BY <1>1, <1>2 DEF Next, Finished

\* var_wr_case() never drives put_vara() into one of its errors nor past the
\* end of a variable's cache, however many records there are and by how many
\* records the cache grows.
THEOREM PutsAreAccepted == Spec => []PutsAccepted
<1>1. PutsInv => PutsAccepted
  BY DEF PutsInv
<1>2. QED
  BY <1>1, InitPuts, NextPuts, BlobTyped, PTL DEF Spec

-----------------------------------------------------------------------------
(* The ranks write disjoint regions.                                       *)

\* A rank that has contributed to the reduction posts no more.
Contributed == {"reduce", "exscan", "create", "write", "head", "fclose",
                "done", "aborted"}
Reduced == Contributed \ {"reduce"}
Scanned == Reduced \ {"exscan"}

\* psum holds the prefix sums of the contributions combined so far; sum and
\* start are taken from it.
SumInv ==
  /\ psum[0] = 0
  /\ \A i \in 0 .. red - 1 : pc[i] \in Contributed
  /\ \A i, j \in 0 .. red : i < j => psum[i] + totalLen[i] <= psum[j]
  /\ \A r \in Rank :
       /\ pc[r] \in Reduced => red = NProcs /\ sum[r] = psum[NProcs]
       /\ start[r] # None => pc[r] \in Scanned /\ start[r] = psum[r]

\* Only Combine changes the sums, and a contribution stays as it is.
LEMMA RankSums ==
  ASSUME BlobType, SumInv, NEW r \in Rank, RankNext(r), ~Makes(r)
  PROVE  SumInv'
<1>1. UNCHANGED <<psum, red>>
  BY DEF RankNext, PutVara, EndStep, Flush, BeginClose, EndAllreduce,
         EndExscan, CreateDatasets, WriteBlob, WriteHeader, EndClose, mpiVars, Makes
<1>2. /\ \A q \in Rank \ {r} : /\ pc'[q] = pc[q] /\ sum'[q] = sum[q]
                               /\ start'[q] = start[q]
                               /\ totalLen'[q] = totalLen[q]
      /\ pc[r] \in Contributed => totalLen'[r] = totalLen[r]
      /\ pc[r] \in Contributed => pc'[r] \in Contributed
  BY DEF RankNext, PutVara, EndStep, Flush, NextStep, BeginClose, EndAllreduce,
         EndExscan, CreateDatasets, WriteBlob, WriteHeader, EndClose, BlobType,
         putVars, Contributed, Makes
<1>3. /\ pc'[r] \in Reduced => red = NProcs /\ sum'[r] = psum[NProcs]
      /\ start'[r] # None => pc'[r] \in Scanned /\ start'[r] = psum[r]
  <2>1. CASE pc[r] \in {"post", "flush", "sync"}
    <3>1. pc'[r] \notin Reduced /\ start'[r] = start[r]
      BY <2>1 DEF RankNext, PutVara, EndStep, Flush, NextStep, BeginClose,
           EndAllreduce, EndExscan, CreateDatasets, WriteBlob, WriteHeader,
           EndClose, BlobType, Reduced, Contributed, Makes
    <3>2. QED
      BY <2>1, <3>1 DEF SumInv, Scanned, Reduced, Contributed
  <2>2. CASE EndAllreduce(r)
    BY <2>2 DEF EndAllreduce, SumInv, Scanned, Reduced, Contributed, BlobType
  <2>3. CASE EndExscan(r)
    BY <2>3 DEF EndExscan, Exscan, SumInv, Scanned, Reduced, Contributed, BlobType
  <2>4. CASE \/ CreateDatasets(r) \/ WriteBlob(r) \/ WriteHeader(r)
             \/ EndClose(r)
    BY <2>4 DEF CreateDatasets, WriteBlob, WriteHeader, EndClose, SumInv,
                Scanned, Reduced, Contributed, BlobType
  <2>5. QED
    BY <2>1, <2>2, <2>3, <2>4 DEF RankNext, Makes, PutVara, EndStep, Flush, BeginClose
<1>4. \A i \in 0 .. red - 1 : i \in Rank
  BY CaseAssumption DEF BlobType, Rank
<1>5. \A i \in 0 .. red - 1 : pc'[i] \in Contributed /\ totalLen'[i] = totalLen[i]
  BY <1>2, <1>4 DEF SumInv
<1>6. \A i, j \in 0 .. red : i < j => psum[i] + totalLen'[i] <= psum[j]
  <2>1. \A i, j \in 0 .. red : i < j => i \in 0 .. red - 1
    BY DEF BlobType
  <2>2. QED
    BY <1>5, <2>1 DEF SumInv
<1>7. QED
  BY <1>1, <1>2, <1>3, <1>5, <1>6 DEF SumInv

\* The next partial sum keeps the order of the regions.
LEMMA CombineSums ==
  ASSUME BlobType, SumInv, Combine
  PROVE  SumInv'
<1>1. /\ red \in Nat /\ NProcs \in Nat /\ red < NProcs /\ red' = red + 1
      /\ pc[red] = "reduce" /\ red \in Rank
      /\ UNCHANGED <<pc, totalLen, sum, start>>
      /\ psum' = [psum EXCEPT ![red + 1] = psum[red] + totalLen[red]]
  BY CaseAssumption DEF Combine, BlobType, ctlVars, putVars, Rank
<1>2. /\ \A i \in 0 .. red : psum'[i] = psum[i] /\ psum[i] \in Nat
      /\ psum'[red + 1] = psum[red] + totalLen[red]
      /\ \A i \in 0 .. red : totalLen[i] \in Nat
  <2>1. \A i \in 0 .. red : i \in Rank /\ i \in 0 .. NProcs /\ i # red + 1
    BY <1>1 DEF Rank
  <2>2. red + 1 \in 0 .. NProcs
    BY <1>1
  <2>3. QED
    BY <1>1, <2>1, <2>2 DEF BlobType
<1>3. \A i, j \in 0 .. red + 1 : i < j => psum'[i] + totalLen[i] <= psum'[j]
  <2> SUFFICES ASSUME NEW i \in 0 .. red + 1, NEW j \in 0 .. red + 1, i < j
               PROVE  psum'[i] + totalLen[i] <= psum'[j]
    OBVIOUS
  <2>1. CASE j \in 0 .. red
    BY <1>1, <1>2, <2>1 DEF SumInv
  <2>2. CASE j = red + 1 /\ i = red
    BY <1>1, <1>2, <2>2
  <2>3. CASE j = red + 1 /\ i < red
    <3>1. i \in 0 .. red /\ psum[i] + totalLen[i] <= psum[red]
      BY <1>1, <2>3 DEF SumInv
    <3>2. QED
      BY <1>1, <1>2, <2>3, <3>1
  <2>4. QED
    BY <1>1, <2>1, <2>2, <2>3
<1>4. \A i \in 0 .. red : pc[i] \in Contributed
  BY <1>1 DEF SumInv, Contributed
<1>5. \A r \in Rank : pc[r] \notin Reduced /\ start[r] = None
  BY <1>1 DEF SumInv, Scanned
<1>6. psum'[0] = 0
  BY <1>1, <1>2 DEF SumInv
<1>7. QED
  BY <1>1, <1>3, <1>4, <1>5, <1>6 DEF SumInv

LEMMA InitSums == Init => SumInv
<1> SUFFICES ASSUME Init PROVE SumInv
  OBVIOUS
<1>1. 0 \in 0 .. NProcs /\ 0 .. red - 1 = {}
  BY CaseAssumption DEF Init
<1>2. \A i, j \in 0 .. red : ~(i < j)
  BY DEF Init
<1>3. QED
  BY <1>1, <1>2 DEF Init, SumInv, Reduced, Contributed, None

LEMMA NextSums == BlobType /\ SumInv /\ [Next]_vars => SumInv'
<1>1. CASE UNCHANGED <<ctlVars, putVars, mpiVars, sum, start>>
  BY <1>1 DEF SumInv, ctlVars, putVars, mpiVars
<1>2. CASE \E r \in Rank : Makes(r)
  BY <1>1, <1>2, MakesKeeps
<1>3. CASE UNCHANGED vars
  BY <1>1, <1>3 DEF vars
<1>4. QED
  BY <1>2, <1>3, RankSums, CombineSums DEF Next, Finished

LEMMA SumsSeparate == BlobType /\ SumInv => RegionsDisjoint
<1> SUFFICES ASSUME BlobType, SumInv, NEW q \in Rank, NEW r \in Rank,
                    start[q] # None, start[r] # None
             PROVE  /\ q < r => start[q] + totalLen[q] <= start[r]
                    /\ start[r] + totalLen[r] <= sum[r]
                    /\ sum[q] = sum[r]
  BY DEF RegionsDisjoint
<1>1. /\ red = NProcs
      /\ start[q] = psum[q] /\ start[r] = psum[r]
      /\ sum[q] = psum[NProcs] /\ sum[r] = psum[NProcs]
  BY DEF SumInv, Scanned
<1>2. /\ q \in 0 .. NProcs /\ r \in 0 .. NProcs /\ NProcs \in 0 .. NProcs
      /\ r < NProcs
  BY CaseAssumption DEF Rank
<1>3. QED
  BY <1>1, <1>2 DEF SumInv

\* The regions of data_blob the ranks write follow one another in rank order
\* without overlap, inside the extent all of them computed.
THEOREM RegionsAreDisjoint == Spec => []RegionsDisjoint
BY InitSums, NextSums, SumsSeparate, BlobTyped, PTL DEF Spec

-----------------------------------------------------------------------------
(* The collective calls match.                                             *)

\* The program of calls: one barrier for every flush and one before close(),
\* then those of close().
Barriers    == Flushes(NRecs) + 1
CloseCall   == <<"allreduce", "exscan", "H5Dcreate", "H5Dwrite", "H5Fclose">>
CallAt(i)   == IF i <= Barriers THEN "barrier" ELSE CloseCall[i - Barriers]

\* How many of them rank r has entered.
NCalls(r) ==
  CASE pc[r] = "post"   -> Flushes(rec[r])
    [] pc[r] = "flush"  -> Flushes(rec[r]) + 1
    [] pc[r] = "sync"   -> Barriers
    [] pc[r] = "reduce" -> Barriers + 1
    [] pc[r] = "exscan" -> Barriers + 2
    [] pc[r] = "create" -> Barriers + 3
    [] pc[r] \in {"write", "head", "aborted"} -> Barriers + 4
    [] OTHER -> Barriers + 5

CallInv ==
  \A r \in Rank :
    /\ pc[r] \notin {"thrown", "overrun"} => Len(calls[r]) = NCalls(r)
    /\ pc[r] = "flush" => FlushAfter(rec[r])
    /\ \A i \in 1 .. Len(calls[r]) : calls[r][i] = CallAt(i)

\* Entering the call that is next in the program keeps to the program.
LEMMA EnterInProgram ==
  ASSUME BlobType, CallInv, NEW r \in Rank, NEW call \in Call, Enter(r, call),
         call = CallAt(Len(calls[r]) + 1)
  PROVE  /\ Len(calls'[r]) = Len(calls[r]) + 1
         /\ \A i \in 1 .. Len(calls'[r]) : calls'[r][i] = CallAt(i)
         /\ \A q \in Rank \ {r} : calls'[q] = calls[q]
<1>1. calls[r] \in Seq(Call) /\ calls'[r] = Append(calls[r], call)
  BY DEF BlobType, Enter
<1>2. \A q \in Rank \ {r} : calls'[q] = calls[q]
  BY DEF BlobType, Enter
<1>3. \A i \in 1 .. Len(calls[r]) : calls[r][i] = CallAt(i)
  BY DEF CallInv
<1> HIDE DEF CallAt
<1>4. QED
  BY <1>1, <1>2, <1>3

\* A rank that moves to the next step is where the program puts it.
LEMMA NextStepCalls ==
  ASSUME BlobType, CallInv, NEW r \in Rank, NextStep(r),
         \/ pc[r] = "post" /\ ~FlushAfter(rec[r])
         \/ pc[r] = "flush"
  PROVE  CallInv'
<1>1. /\ rec[r] \in Int /\ rec[r] >= -1
      /\ NRecs \in Nat /\ rec[r] <= NRecs - 1
  BY CaseAssumption DEF BlobType, Step
<1>2. Len(calls[r]) = Flushes(rec[r] + 1)
  <2>1. Len(calls[r]) = NCalls(r) /\ (pc[r] = "flush" => FlushAfter(rec[r]))
    BY DEF CallInv
  <2>2. CASE rec[r] = -1
    BY <2>1, <2>2, FlushesProperties DEF NCalls, FlushAfter, FlushEvery
  <2>3. CASE rec[r] \in Nat
    BY <2>1, <2>3, FlushesProperties DEF NCalls
  <2>4. QED
    BY <1>1, <2>2, <2>3
<1>3. \A q \in Rank \ {r} : /\ pc'[q] = pc[q] /\ rec'[q] = rec[q]
                            /\ calls'[q] = calls[q]
  BY DEF NextStep, Enter, BlobType
<1>4. \A q \in Rank \ {r} : NCalls(q)' = NCalls(q)
  BY <1>3 DEF NCalls, Flushes, Barriers, FlushAfter
<1>5. CASE rec[r] + 1 < NRecs
  <2>1. pc'[r] = "post" /\ rec'[r] = rec[r] + 1 /\ calls' = calls
    BY <1>5 DEF NextStep, BlobType
  <2>2. NCalls(r)' = Flushes(rec[r] + 1)
    BY <2>1 DEF NCalls, Flushes, FlushAfter
  <2>3. QED
    BY <1>2, <1>3, <1>4, <2>1, <2>2 DEF CallInv
<1>6. CASE ~(rec[r] + 1 < NRecs)
  <2>1. pc'[r] = "sync" /\ Enter(r, "barrier")
    BY <1>6 DEF NextStep, BlobType
  <2>2. rec[r] + 1 = NRecs
    BY <1>1, <1>6
  <2>3. CallAt(Len(calls[r]) + 1) = "barrier" /\ Flushes(NRecs) \in Nat
    <3>1. NRecs \in Int /\ Len(calls[r]) = Flushes(NRecs)
      BY <1>1, <1>2, <2>2
    <3>2. Flushes(NRecs) \in Nat
      BY <3>1, FlushesProperties
    <3> HIDE DEF Flushes
    <3>3. QED
      BY <3>1, <3>2 DEF CallAt, Barriers
  <2>4. /\ Len(calls'[r]) = Len(calls[r]) + 1
        /\ \A i \in 1 .. Len(calls'[r]) : calls'[r][i] = CallAt(i)
    BY <2>1, <2>3, EnterInProgram DEF Call
  <2>5. NCalls(r)' = Flushes(NRecs) + 1
    BY <2>1 DEF NCalls, Barriers
  <2>6. QED
    BY <1>2, <1>3, <1>4, <2>1, <2>2, <2>4, <2>5 DEF CallInv
<1>7. QED
  BY <1>5, <1>6

\* So is a rank that enters any call the program has next.
LEMMA EnterCalls ==
  ASSUME BlobType, CallInv, NEW r \in Rank, NEW x, NEW call \in Call,
         Enter(r, call), call = CallAt(Len(calls[r]) + 1),
         pc' = [pc EXCEPT ![r] = x], rec' = rec,
         NCalls(r)' = Len(calls[r]) + 1,
         x = "flush" => FlushAfter(rec[r])
  PROVE  CallInv'
<1>1. pc'[r] = x /\ \A q \in Rank \ {r} : pc'[q] = pc[q]
  BY DEF BlobType
<1>2. /\ Len(calls'[r]) = Len(calls[r]) + 1
      /\ \A i \in 1 .. Len(calls'[r]) : calls'[r][i] = CallAt(i)
      /\ \A q \in Rank \ {r} : calls'[q] = calls[q]
  BY EnterInProgram
<1>3. \A q \in Rank \ {r} : NCalls(q)' = NCalls(q)
  BY <1>1 DEF NCalls, Flushes, Barriers, FlushAfter
<1> HIDE DEF CallAt, NCalls
<1>4. \A i : CallAt(i)' = CallAt(i)
  BY DEF CallAt, Barriers, Flushes, FlushAfter, CloseCall
<1>5. QED
  BY <1>1, <1>2, <1>3, <1>4 DEF CallInv

\* What leaves the calls alone keeps the invariant if it does not move the
\* rank to a place with another number of calls.
LEMMA StayCalls ==
  ASSUME BlobType, CallInv, NEW r \in Rank, UNCHANGED <<rec, calls>>,
         \A q \in Rank \ {r} : pc'[q] = pc[q],
         \/ pc'[r] = pc[r]
         \/ pc'[r] \in {"thrown", "overrun"}
         \/ pc[r] = "write" /\ pc'[r] \in {"head", "aborted"}
         \/ pc[r] = "fclose" /\ pc'[r] = "done"
  PROVE  CallInv'
<1>1. \A q \in Rank \ {r} : NCalls(q)' = NCalls(q)
  BY DEF NCalls, Flushes, Barriers, FlushAfter
<1>2. \/ pc'[r] \in {"thrown", "overrun"}
      \/ /\ NCalls(r)' = NCalls(r)
         /\ pc[r] \notin {"thrown", "overrun"} \/ pc'[r] = pc[r]
         /\ pc'[r] = "flush" => pc[r] = "flush"
  BY DEF NCalls, Flushes, Barriers, FlushAfter
<1>3. QED
  BY <1>1, <1>2 DEF CallInv, FlushAfter

\* The end of a step: the barrier of a flush, or what follows.
LEMMA EndStepCalls ==
  ASSUME BlobType, CallInv, NEW r \in Rank, EndStep(r)
  PROVE  CallInv'
<1>1. pc[r] = "post" /\ Len(calls[r]) = Flushes(rec[r])
  BY DEF EndStep, CallInv, NCalls
<1>2. CASE FlushAfter(rec[r])
  <2>1. /\ pc' = [pc EXCEPT ![r] = "flush"] /\ Enter(r, "barrier")
        /\ rec' = rec /\ pc'[r] = "flush"
    BY <1>2 DEF EndStep, BlobType
  <2>2. /\ rec[r] \in Nat /\ NRecs \in Nat /\ rec[r] + 1 \in Int
        /\ rec[r] + 1 <= NRecs
    BY <1>2, CaseAssumption DEF BlobType, Step, FlushAfter, FlushEvery
  <2>3. /\ Flushes(rec[r]) \in Nat /\ Flushes(NRecs) \in Nat
        /\ Flushes(rec[r] + 1) = Flushes(rec[r]) + 1
        /\ Flushes(rec[r] + 1) <= Flushes(NRecs)
    BY <1>2, <2>2, FlushesProperties
  <2>4. NCalls(r)' = Flushes(rec[r]) + 1
    BY <2>1 DEF NCalls, Flushes, FlushAfter
  <2> HIDE DEF Flushes
  <2>5. CallAt(Len(calls[r]) + 1) = "barrier"
    BY <1>1, <2>3 DEF CallAt, Barriers
  <2>6. QED
    BY <1>1, <1>2, <2>1, <2>4, <2>5, EnterCalls DEF Call
<1>3. CASE ~FlushAfter(rec[r])
  BY <1>1, <1>3, NextStepCalls DEF EndStep
<1>4. QED
  BY <1>2, <1>3

\* The collective calls of close().
LEMMA CloseCalls ==
  ASSUME BlobType, CallInv, NEW r \in Rank,
         \/ BeginClose(r) \/ EndAllreduce(r) \/ EndExscan(r)
         \/ CreateDatasets(r) \/ WriteHeader(r)
  PROVE  CallInv'
<1>1. Flushes(NRecs) \in Nat
  BY FlushesProperties, CaseAssumption
<1>2. pc[r] \notin {"thrown", "overrun"} /\ Len(calls[r]) = NCalls(r)
  BY DEF CallInv, BeginClose, EndAllreduce, EndExscan, CreateDatasets, WriteHeader
<1>3. \A i \in 1 .. 5 : CallAt(Barriers + i) = CloseCall[i]
  BY <1>1 DEF CallAt, Barriers
<1>4. Barriers' = Barriers /\ Barriers \in Nat
  BY <1>1 DEF Barriers, Flushes, FlushAfter
<1>5. ASSUME NEW i \in 1 .. 5, NEW x, pc' = [pc EXCEPT ![r] = x], rec' = rec,
             Enter(r, CloseCall[i]), NCalls(r) = Barriers + (i - 1),
             NCalls(r)' = Barriers + i, x # "flush"
      PROVE  CallInv'
  <2>1. CloseCall[i] \in Call
    BY DEF CloseCall, Call
  <2>2. CloseCall[i] = CallAt(Len(calls[r]) + 1)
    BY <1>2, <1>3, <1>4, <1>5
  <2>3. NCalls(r)' = Len(calls[r]) + 1
    BY <1>2, <1>4, <1>5
  <2> HIDE DEF CallAt, NCalls, CloseCall
  <2>4. QED
    BY <1>5, <2>1, <2>2, <2>3, EnterCalls
<1>6. CASE BeginClose(r)
  <2>1. /\ pc[r] = "sync" /\ pc' = [pc EXCEPT ![r] = "reduce"]
        /\ pc'[r] = "reduce" /\ rec' = rec /\ Enter(r, CloseCall[1])
    BY <1>6 DEF BeginClose, CloseCall, BlobType
  <2>2. NCalls(r) = Barriers + (1 - 1) /\ NCalls(r)' = Barriers + 1
    BY <1>4, <2>1 DEF NCalls
  <2>3. 1 \in 1 .. 5 /\ "reduce" # "flush"
    OBVIOUS
  <2>4. QED
    BY <1>5, <2>1, <2>2, <2>3, Zenon
<1>7. CASE EndAllreduce(r)
  <2>1. /\ pc[r] = "reduce" /\ pc' = [pc EXCEPT ![r] = "exscan"]
        /\ pc'[r] = "exscan" /\ rec' = rec /\ Enter(r, CloseCall[2])
    BY <1>7 DEF EndAllreduce, CloseCall, BlobType
  <2>2. NCalls(r) = Barriers + (2 - 1) /\ NCalls(r)' = Barriers + 2
    BY <1>4, <2>1 DEF NCalls
  <2>3. 2 \in 1 .. 5 /\ "exscan" # "flush"
    OBVIOUS
  <2>4. QED
    BY <1>5, <2>1, <2>2, <2>3, Zenon
<1>8. CASE EndExscan(r)
  <2>1. /\ pc[r] = "exscan" /\ pc' = [pc EXCEPT ![r] = "create"]
        /\ pc'[r] = "create" /\ rec' = rec /\ Enter(r, CloseCall[3])
    BY <1>8 DEF EndExscan, CloseCall, BlobType
  <2>2. NCalls(r) = Barriers + (3 - 1) /\ NCalls(r)' = Barriers + 3
    BY <1>4, <2>1 DEF NCalls
  <2>3. 3 \in 1 .. 5 /\ "create" # "flush"
    OBVIOUS
  <2>4. QED
    BY <1>5, <2>1, <2>2, <2>3, Zenon
<1>9. CASE CreateDatasets(r)
  <2>1. /\ pc[r] = "create" /\ pc' = [pc EXCEPT ![r] = "write"]
        /\ pc'[r] = "write" /\ rec' = rec /\ Enter(r, CloseCall[4])
    BY <1>9 DEF CreateDatasets, CloseCall, BlobType
  <2>2. NCalls(r) = Barriers + (4 - 1) /\ NCalls(r)' = Barriers + 4
    BY <1>4, <2>1 DEF NCalls
  <2>3. 4 \in 1 .. 5 /\ "write" # "flush"
    OBVIOUS
  <2>4. QED
    BY <1>5, <2>1, <2>2, <2>3, Zenon
<1>10. CASE WriteHeader(r)
  <2>1. /\ pc[r] = "head" /\ pc' = [pc EXCEPT ![r] = "fclose"]
        /\ pc'[r] = "fclose" /\ rec' = rec /\ Enter(r, CloseCall[5])
    BY <1>10 DEF WriteHeader, CloseCall, BlobType
  <2>2. NCalls(r) = Barriers + (5 - 1) /\ NCalls(r)' = Barriers + 5
    BY <1>4, <2>1 DEF NCalls
  <2>3. 5 \in 1 .. 5 /\ "fclose" # "flush"
    OBVIOUS
  <2>4. QED
    BY <1>5, <2>1, <2>2, <2>3, Zenon
<1>11. QED
  BY <1>6, <1>7, <1>8, <1>9, <1>10

LEMMA InitCalls == Init => CallInv
<1> SUFFICES ASSUME Init, NEW r \in Rank
             PROVE  /\ pc[r] \notin {"thrown", "overrun"} =>
                         Len(calls[r]) = NCalls(r)
                    /\ pc[r] = "flush" => FlushAfter(rec[r])
                    /\ \A i \in 1 .. Len(calls[r]) : calls[r][i] = CallAt(i)
  BY DEF CallInv
<1>1. pc[r] = "post" /\ rec[r] = -1 /\ calls[r] = <<>>
  BY DEF Init
<1>2. NCalls(r) = 0
  BY <1>1, FlushesProperties DEF NCalls
<1>3. QED
  BY <1>1, <1>2

LEMMA NextCalls == BlobType /\ CallInv /\ [Next]_vars => CallInv'
<1> SUFFICES ASSUME BlobType, CallInv, [Next]_vars PROVE CallInv'
  OBVIOUS
<1>1. CASE UNCHANGED vars \/ Combine
  <2>1. UNCHANGED <<pc, rec, calls>>
    BY <1>1 DEF Combine, vars, ctlVars
  <2>2. QED
    BY <2>1 DEF CallInv, NCalls, CallAt, Barriers, Flushes, FlushAfter, CloseCall
<1>2. ASSUME NEW r \in Rank, RankNext(r) PROVE CallInv'
  <2>0. CASE Makes(r)
    <3>1. UNCHANGED <<pc, rec, calls>>
      BY <2>0, MakesKeeps DEF ctlVars
    <3> QED
      BY <3>1, StayCalls
  <2>1. CASE PutVara(r)
    <3>1. /\ UNCHANGED <<rec, calls>>
          /\ \A q \in Rank \ {r} : pc'[q] = pc[q]
          /\ pc'[r] = pc[r] \/ pc'[r] \in {"thrown", "overrun"}
      BY <2>1 DEF PutVara, BlobType
    <3>2. QED
      BY <3>1, StayCalls
  <2>2. CASE EndStep(r)
    BY <2>2, EndStepCalls
  <2>3. CASE Flush(r)
    BY <2>3, NextStepCalls DEF Flush
  <2>4. CASE WriteBlob(r)
    <3>1. /\ UNCHANGED <<rec, calls>>
          /\ \A q \in Rank \ {r} : pc'[q] = pc[q]
          /\ pc[r] = "write" /\ pc'[r] \in {"head", "aborted"}
      BY <2>4 DEF WriteBlob, BlobType
    <3>2. QED
      BY <3>1, StayCalls
  <2>5. CASE EndClose(r)
    <3>1. /\ UNCHANGED <<rec, calls>>
          /\ \A q \in Rank \ {r} : pc'[q] = pc[q]
          /\ pc[r] = "fclose" /\ pc'[r] = "done"
      BY <2>5 DEF EndClose, BlobType
    <3>2. QED
      BY <3>1, StayCalls
  <2>6. CASE \/ BeginClose(r) \/ EndAllreduce(r) \/ EndExscan(r)
             \/ CreateDatasets(r) \/ WriteHeader(r)
    BY <2>6, CloseCalls
  <2>7. QED
    BY <1>2, <2>0, <2>1, <2>2, <2>3, <2>4, <2>5, <2>6 DEF RankNext, Makes
<1>3. QED
  BY <1>1, <1>2 DEF Next, Finished

LEMMA CallsFollowProgram == BlobType /\ CallInv => CallsMatch
<1> SUFFICES ASSUME BlobType, CallInv, NEW q \in Rank, NEW r \in Rank,
                    NEW i \in DOMAIN calls[q] \cap DOMAIN calls[r]
             PROVE  calls[q][i] = calls[r][i]
  BY DEF CallsMatch
<1>1. calls[q] \in Seq(Call) /\ calls[r] \in Seq(Call)
  BY DEF BlobType
<1>2. i \in 1 .. Len(calls[q]) /\ i \in 1 .. Len(calls[r])
  BY <1>1
<1>3. calls[q][i] = CallAt(i) /\ calls[r][i] = CallAt(i)
  BY <1>2 DEF CallInv
<1>4. QED
  BY <1>3

\* No two ranks enter different collective calls at the same place, however
\* many records there are, whatever the flush frequency, and whoever has
\* something to write.
THEOREM CallsAgree == Spec => []CallsMatch
BY InitCalls, NextCalls, CallsFollowProgram, BlobTyped, PTL DEF Spec
-----------------------------------------------------------------------------
(* What a rank writes: the bytes of all its puts, variable by variable and *)
(* record by record.                                                       *)

Byte == Rank \X Var \X Nat \X Nat

\* The bytes of every record of a variable, those of the variable, of the rank.
VarPuts(r, v)  == [i \in 1 .. RecsOf(r, v) |-> Bytes(r, v, i - 1)]
VarBytes(r, v) == FlattenSeq(VarPuts(r, v))
Blob(r)        == FlattenSeq([v \in Var |-> VarBytes(r, v)])

\* How many they are, and how many precede a variable.
Lens(r)      == [v \in Var |-> RecsOf(r, v) * PutLen[r][v]]
Before(r, v) == Prefix(Lens(r), NVars)[v - 1]
BlobLen(r)   == Prefix(Lens(r), NVars)[NVars]

LEMMA PutLenType ==
  ASSUME NEW r \in Rank, NEW v \in Var
  PROVE  /\ PutLen[r][v] \in Nat /\ RecsOf(r, v) \in Nat
         /\ RecsOf(r, v) * PutLen[r][v] \in Nat
         /\ v \in Nat /\ NVars \in Nat
BY H5BlobAssumption, CaseAssumption DEF RecsOf, Var

LEMMA BytesType ==
  ASSUME NEW r \in Rank, NEW v \in Var, NEW k \in Nat
  PROVE  /\ Bytes(r, v, k) \in Seq(Byte) /\ Len(Bytes(r, v, k)) = PutLen[r][v]
         /\ \A b \in 1 .. PutLen[r][v] : Bytes(r, v, k)[b] = <<r, v, k, b>>
<1>1. PutLen[r][v] \in Nat
  BY PutLenType
<1>2. Bytes(r, v, k) \in [1 .. PutLen[r][v] -> Byte]
  BY <1>1 DEF Bytes, Byte
<1>3. Bytes(r, v, k) \in Seq(Byte) /\ Len(Bytes(r, v, k)) = PutLen[r][v]
  BY <1>1, <1>2, FcnIsSeq
<1> QED
  BY <1>3 DEF Bytes

LEMMA VarBytesAre ==
  ASSUME NEW r \in Rank, NEW v \in Var
  PROVE  /\ VarBytes(r, v) \in Seq(Byte)
         /\ Len(VarBytes(r, v)) = RecsOf(r, v) * PutLen[r][v]
         /\ \A i \in 1 .. RecsOf(r, v) : \A b \in 1 .. PutLen[r][v] :
              /\ (i - 1) * PutLen[r][v] + b \in 1 .. Len(VarBytes(r, v))
              /\ VarBytes(r, v)[(i - 1) * PutLen[r][v] + b] = <<r, v, i - 1, b>>
         /\ \A m \in 1 .. Len(VarBytes(r, v)) :
              \E i \in 1 .. RecsOf(r, v) : \E b \in 1 .. PutLen[r][v] :
                m = (i - 1) * PutLen[r][v] + b
<1> DEFINE n == RecsOf(r, v)
           c == PutLen[r][v]
           s == VarPuts(r, v)
<1>1. n \in Nat /\ c \in Nat
  BY PutLenType
<1>2. \A i \in 1 .. n : /\ s[i] \in Seq(Byte) /\ Len(s[i]) = c
                        /\ \A b \in 1 .. c : s[i][b] = <<r, v, i - 1, b>>
  <2> SUFFICES ASSUME NEW i \in 1 .. n
               PROVE  /\ s[i] \in Seq(Byte) /\ Len(s[i]) = c
                      /\ \A b \in 1 .. c : s[i][b] = <<r, v, i - 1, b>>
    OBVIOUS
  <2>1. i - 1 \in Nat /\ s[i] = Bytes(r, v, i - 1)
    BY <1>1 DEF VarPuts
  <2> QED
    BY <2>1, BytesType
<1>3. s \in Seq(Seq(Byte)) /\ Len(s) = n
  <2>1. s \in [1 .. n -> Seq(Byte)]
    BY <1>2 DEF VarPuts
  <2> HIDE DEF n, s
  <2> QED
    BY <1>1, <2>1, FcnIsSeq
<1>4. PICK g : IsConcat(g, s, Byte, n) /\ VarBytes(r, v) = g[n]
  BY <1>3, FlattenIsConcat DEF VarBytes
<1> HIDE DEF n, c, s
<1>5. \A i \in 0 .. n : Len(g[i]) = i * c /\ g[i] \in Seq(Byte)
  <2> DEFINE lg == [i \in 0 .. n |-> Len(g[i])]
             ls == [i \in 1 .. n |-> Len(s[i])]
  <2>1. IsPrefixSum(lg, ls, n)
    BY <1>1, <1>2, <1>4, ConcatLengths
  <2>2. \A i \in 1 .. n : ls[i] = c
    BY <1>2
  <2>3. \A i \in 0 .. n : lg[i] = Len(g[i]) /\ g[i] \in Seq(Byte)
    BY <1>4 DEF IsConcat
  <2> HIDE DEF lg, ls
  <2>4. \A i \in 0 .. n : lg[i] = i * c
    BY <1>1, <2>1, <2>2, PrefixOfEquals
  <2> QED
    BY <2>3, <2>4
<1>6. VarBytes(r, v) \in Seq(Byte) /\ Len(VarBytes(r, v)) = n * c
  <2>1. n \in 0 .. n
    BY <1>1
  <2> QED
    BY <1>4, <1>5, <2>1
<1>7. ASSUME NEW i \in 1 .. n, NEW b \in 1 .. c
      PROVE  /\ (i - 1) * c + b \in 1 .. Len(VarBytes(r, v))
             /\ VarBytes(r, v)[(i - 1) * c + b] = <<r, v, i - 1, b>>
  <2>1. i - 1 \in 0 .. n /\ b \in 1 .. Len(s[i]) /\ s[i][b] = <<r, v, i - 1, b>>
    BY <1>1, <1>2
  <2>2. Len(g[i - 1]) = (i - 1) * c
    BY <1>5, <2>1
  <2>3. Len(g[i - 1]) + b \in 1 .. Len(g[n]) /\ g[n][Len(g[i - 1]) + b] = s[i][b]
    <3>1. \A j \in 1 .. n : s[j] \in Seq(Byte)
      BY <1>2
    <3>2. IsLaidOut(g, s, n)
      BY <1>1, <1>4, <3>1, ConcatElements
    <3> QED
      BY <2>1, <3>2 DEF IsLaidOut
  <2> QED
    BY <1>4, <2>1, <2>2, <2>3
<1>8. ASSUME NEW m \in 1 .. Len(VarBytes(r, v))
      PROVE  \E i \in 1 .. n : \E b \in 1 .. c : m = (i - 1) * c + b
  <2> DEFINE lg == [i \in 0 .. n |-> i * c]
             ls == [i \in 1 .. n |-> c]
  <2>1. IsPrefixSum(lg, ls, n)
    <3>1. \A i \in 0 .. n : lg[i] = i * c /\ i * c \in Nat
      BY <1>1
    <3>2. lg \in [0 .. n -> Nat]
      BY <3>1
    <3>3. lg[0] = 0
      BY <1>1
    <3>4. ASSUME NEW i \in 1 .. n PROVE lg[i] = lg[i - 1] + ls[i]
      <4>1. i - 1 \in 0 .. n /\ i \in 0 .. n /\ i \in Nat
        BY <1>1
      <4>2. i * c = (i - 1) * c + c
        BY <1>1, <4>1
      <4> QED
        BY <4>1, <4>2
    <3> HIDE DEF lg, ls
    <3> QED
      BY <3>2, <3>3, <3>4 DEF IsPrefixSum
  <2>2. m \in 1 .. lg[n]
    BY <1>1, <1>6
  <2>3. PICK i \in 1 .. n : lg[i - 1] < m /\ m <= lg[i]
    <3> HIDE DEF lg, ls
    <3> QED
      BY <1>1, <2>1, <2>2, PrefixPasses
  <2>4. i - 1 \in 0 .. n /\ i \in 0 .. n /\ i \in Nat
    BY <1>1
  <2>5. lg[i - 1] = (i - 1) * c /\ lg[i] = (i - 1) * c + c /\ (i - 1) * c \in Nat
    <3>1. i * c = (i - 1) * c + c /\ (i - 1) * c \in Nat
      BY <1>1, <2>4
    <3> QED
      BY <2>4, <3>1
  <2> DEFINE p == (i - 1) * c
  <2> HIDE DEF p
  <2>6. p \in Nat /\ p < m /\ m <= p + c /\ m \in Nat
    BY <1>1, <1>6, <2>3, <2>5 DEF p
  <2>7. m - p \in 1 .. c /\ m = p + (m - p)
    BY <1>1, <2>6
  <2> QED
    BY <2>7 DEF p
<1> QED
  BY <1>6, <1>7, <1>8 DEF n, c

\* Where byte b of record i - 1 of a variable is.
Place(r, v, i, b) == Before(r, v) + ((i - 1) * PutLen[r][v] + b)

LEMMA LensType ==
  ASSUME NEW r \in Rank
  PROVE  /\ Lens(r) \in [1 .. NVars -> Nat] /\ NVars \in Nat
         /\ IsPrefixSum(Prefix(Lens(r), NVars), Lens(r), NVars)
         /\ \A v \in Var : Before(r, v) \in Nat
         /\ BlobLen(r) \in Nat
<1>1. Lens(r) \in [1 .. NVars -> Nat] /\ NVars \in Nat
  <2>1. \A v \in Var : RecsOf(r, v) * PutLen[r][v] \in Nat
    BY PutLenType
  <2> QED
    BY <2>1, CaseAssumption DEF Lens, Var
<1>2. IsPrefixSum(Prefix(Lens(r), NVars), Lens(r), NVars)
  BY <1>1, PrefixExists
<1>3. \A i \in 0 .. NVars : Prefix(Lens(r), NVars)[i] \in Nat
  BY <1>2 DEF IsPrefixSum
<1>4. \A v \in Var : v - 1 \in 0 .. NVars
  BY <1>1 DEF Var
<1>5. NVars \in 0 .. NVars
  BY <1>1
<1> QED
  BY <1>1, <1>2, <1>3, <1>4, <1>5 DEF Before, BlobLen

LEMMA BlobIs ==
  ASSUME NEW r \in Rank
  PROVE  /\ Blob(r) \in Seq(Byte)
         /\ Len(Blob(r)) = BlobLen(r)
         /\ \A v \in Var : \A i \in 1 .. RecsOf(r, v) : \A b \in 1 .. PutLen[r][v] :
              /\ Place(r, v, i, b) \in 1 .. BlobLen(r)
              /\ Blob(r)[Place(r, v, i, b)] = <<r, v, i - 1, b>>
         /\ \A m \in 1 .. BlobLen(r) :
              \E v \in Var : \E i \in 1 .. RecsOf(r, v) : \E b \in 1 .. PutLen[r][v] :
                m = Place(r, v, i, b)
<1> DEFINE n == NVars
           s == [v \in Var |-> VarBytes(r, v)]
           w == Lens(r)
           p == Prefix(w, n)
<1>1. /\ n \in Nat /\ w \in [1 .. n -> Nat] /\ IsPrefixSum(p, w, n)
      /\ p \in [0 .. n -> Nat]
  BY LensType DEF IsPrefixSum
<1>2. \A v \in 1 .. n : s[v] \in Seq(Byte) /\ Len(s[v]) = w[v] /\ s[v] = VarBytes(r, v)
  BY VarBytesAre DEF Var, Lens
<1>3. s \in Seq(Seq(Byte)) /\ Len(s) = n
  <2>1. s \in [1 .. n -> Seq(Byte)]
    BY <1>2 DEF Var
  <2> HIDE DEF n, s
  <2> QED
    BY <1>1, <2>1, FcnIsSeq
<1>4. PICK g : IsConcat(g, s, Byte, n) /\ Blob(r) = g[n]
  BY <1>3, FlattenIsConcat DEF Blob
<1>5. /\ Var = 1 .. n
      /\ \A v \in Var : Before(r, v) = p[v - 1]
      /\ BlobLen(r) = p[n]
  BY DEF Var, Before, BlobLen
<1> HIDE DEF n, s, w, p
<1>6. \A i \in 0 .. n : Len(g[i]) = p[i] /\ g[i] \in Seq(Byte)
  <2> DEFINE lg == [i \in 0 .. n |-> Len(g[i])]
             ls == [i \in 1 .. n |-> Len(s[i])]
  <2>1. IsPrefixSum(lg, ls, n)
    BY <1>1, <1>2, <1>4, ConcatLengths
  <2>2. \A i \in 1 .. n : ls[i] = w[i]
    BY <1>2
  <2>3. \A i \in 0 .. n : lg[i] = Len(g[i]) /\ g[i] \in Seq(Byte)
    BY <1>4 DEF IsConcat
  <2> HIDE DEF lg, ls
  <2>4. IsPrefixSum(lg, w, n)
    BY <2>1, <2>2 DEF IsPrefixSum
  <2>5. ASSUME NEW i \in 0 .. n PROVE lg[i] = p[i]
    <3>1. IsPrefixSum([k \in 0 .. i |-> lg[k]], w, i)
      BY <1>1, <2>4 DEF IsPrefixSum
    <3> DEFINE h == [k \in 0 .. i |-> lg[k]]
    <3>2. h[i] = lg[i]
      BY <1>1
    <3> HIDE DEF h
    <3>3. IsPrefixSum(h, w, i)
      BY <3>1 DEF h
    <3>4. h[i] = p[i]
      BY <1>1, <3>3, PrefixUnique
    <3> QED
      BY <3>2, <3>4
  <2> QED
    BY <2>3, <2>5
<1>7. n \in 0 .. n
  BY <1>1
<1>8. Blob(r) \in Seq(Byte) /\ Len(Blob(r)) = p[n]
  BY <1>4, <1>6, <1>7
<1>9. IsLaidOut(g, s, n)
  <2>1. \A i \in 1 .. n : s[i] \in Seq(Byte)
    BY <1>2
  <2> QED
    BY <1>1, <1>4, <2>1, ConcatElements
<1>10. ASSUME NEW v \in Var, NEW i \in 1 .. RecsOf(r, v), NEW b \in 1 .. PutLen[r][v]
       PROVE  /\ Place(r, v, i, b) \in 1 .. p[n]
              /\ Blob(r)[Place(r, v, i, b)] = <<r, v, i - 1, b>>
  <2> DEFINE j == (i - 1) * PutLen[r][v] + b
  <2>1. j \in 1 .. Len(VarBytes(r, v)) /\ VarBytes(r, v)[j] = <<r, v, i - 1, b>>
    BY VarBytesAre
  <2>2. Place(r, v, i, b) = p[v - 1] + j
    BY <1>5 DEF Place
  <2> HIDE DEF j
  <2>3. v \in 1 .. n /\ v - 1 \in 0 .. n
    BY <1>1, <1>5
  <2>4. s[v] = VarBytes(r, v)
    BY <1>2, <2>3
  <2>5. Len(g[v - 1]) + j \in 1 .. Len(g[n]) /\ g[n][Len(g[v - 1]) + j] = s[v][j]
    BY <1>9, <2>1, <2>3, <2>4 DEF IsLaidOut
  <2>6. Len(g[v - 1]) = p[v - 1] /\ Len(g[n]) = p[n]
    BY <1>6, <1>7, <2>3
  <2> QED
    BY <1>4, <2>1, <2>2, <2>4, <2>5, <2>6
<1>11. ASSUME NEW m \in 1 .. p[n]
       PROVE  \E v \in Var : \E i \in 1 .. RecsOf(r, v) : \E b \in 1 .. PutLen[r][v] :
                m = Place(r, v, i, b)
  <2>1. PICK v \in 1 .. n : p[v - 1] < m /\ m <= p[v]
    BY <1>1, PrefixPasses
  <2>2. v \in Var /\ p[v] = p[v - 1] + w[v] /\ w[v] = Len(VarBytes(r, v))
    BY <1>1, <1>2, <1>5 DEF IsPrefixSum
  <2>3. v - 1 \in 0 .. n /\ v \in 0 .. n
    BY <1>1
  <2>4. p[v - 1] \in Nat /\ w[v] \in Nat /\ p[n] \in Nat
    BY <1>1, <1>7, <2>3
  <2>5. m - p[v - 1] \in 1 .. w[v] /\ m = p[v - 1] + (m - p[v - 1])
    BY <2>1, <2>2, <2>4
  <2>6. PICK i \in 1 .. RecsOf(r, v) : \E b \in 1 .. PutLen[r][v] :
          m - p[v - 1] = (i - 1) * PutLen[r][v] + b
    BY <2>2, <2>5, VarBytesAre
  <2>7. PICK b \in 1 .. PutLen[r][v] : m - p[v - 1] = (i - 1) * PutLen[r][v] + b
    BY <2>6
  <2>8. m = Place(r, v, i, b)
    BY <1>5, <2>2, <2>5, <2>7 DEF Place
  <2> QED
    BY <2>2, <2>8
<1> QED
  BY <1>5, <1>8, <1>10, <1>11

\* A reader's sum is the place the driver packs to.
LEMMA TotalBefore ==
  ASSUME NEW r \in Rank, NEW v \in Var
  PROVE  Total([w \in 1 .. v - 1 |-> RecsOf(r, w) * PutLen[r][w]]) = Before(r, v)
<1> DEFINE x == [w \in 1 .. v - 1 |-> RecsOf(r, w) * PutLen[r][w]]
<1>1. v - 1 \in Nat /\ v - 1 \in 0 .. NVars /\ NVars \in Nat
  BY CaseAssumption DEF Var
<1>2. \A w \in 1 .. v - 1 : w \in Var
  BY <1>1 DEF Var
<1>3. x \in [1 .. v - 1 -> Nat]
  BY <1>2, PutLenType
<1>4. \A w \in 1 .. v - 1 : x[w] = Lens(r)[w]
  BY <1>2 DEF Lens
<1> HIDE DEF x
<1>5. x \in Seq(Nat) /\ Len(x) = v - 1
  BY <1>1, <1>3, FcnIsSeq
<1>6. PICK h : IsPrefixSum(h, x, v - 1) /\ Total(x) = h[v - 1]
  BY <1>5, TotalIsSum
<1>7. h[v - 1] = Prefix(Lens(r), NVars)[v - 1]
  BY <1>1, <1>4, <1>6, LensType, PrefixUnique
<1> QED
  BY <1>6, <1>7 DEF Before, x

-----------------------------------------------------------------------------
(* What the caches hold while the ranks post, and how much it is.          *)

\* How many records of variable v rank r has put when it is in step k and c
\* is the last variable it posted in it.
SoFar(r, v, k, c) ==
  IF ~Posts(r, v) THEN 0
  ELSE IF v \in RecVar THEN (IF k < 0 THEN 0 ELSE IF v <= c THEN k + 1 ELSE k)
  ELSE (IF k >= 0 \/ v <= c THEN 1 ELSE 0)

LensSoFar(r, k, c) == [v \in Var |-> SoFar(r, v, k, c) * PutLen[r][v]]
LenSoFar(r, k, c)  == Prefix(LensSoFar(r, k, c), NVars)[NVars]

\* A cache that holds the first n records of v.
Holds(v, c, n) ==
  /\ n <= c.nalloc
  /\ n = 0 => c.nalloc = 0
  /\ c.nrecs = IF v \in RecVar THEN n ELSE 0
  /\ v \notin RecVar => c.nalloc <= 1
  /\ \A i \in 1 .. c.nalloc : c.buf[i] = IF i <= n THEN i - 1 ELSE None

\* A rank is through its posting loops; what it wrote is freed.
Posted(pcr, r, k, c) == pcr \notin {"post", "flush"} => k = NRecs - 1 /\ Remaining(r, k, c) = {}
InMemory(pcr, n)     == IF pcr \in {"head", "fclose", "done"} THEN 0 ELSE n

\* What a rank keeps in memory, in the terms of the values of its variables.
CacheOf(r, pcr, k, c, row, len, n) ==
  /\ pcr # "aborted"
  /\ Posted(pcr, r, k, c)
  /\ \A v \in Var : Holds(v, row[v], InMemory(pcr, SoFar(r, v, k, c)))
  /\ len = LenSoFar(r, k, c)
  /\ \A v \in RecVar : SoFar(r, v, k, c) <= n

CacheInv ==
  \A r \in Rank : CacheOf(r, pc[r], rec[r], cur[r], cache[r], totalLen[r], numrecs[r])

LEMMA SoFarType ==
  ASSUME NEW r \in Rank, NEW v \in Var, NEW k \in Step, NEW c \in 0 .. NVars
  PROVE  SoFar(r, v, k, c) \in Nat
BY CaseAssumption DEF SoFar, Step, Var

LEMMA LensSoFarType ==
  ASSUME NEW r \in Rank, NEW k \in Step, NEW c \in 0 .. NVars
  PROVE  LensSoFar(r, k, c) \in [1 .. NVars -> Nat]
<1>1. \A v \in Var : SoFar(r, v, k, c) * PutLen[r][v] \in Nat
  BY SoFarType, PutLenType
<1> QED
  BY <1>1 DEF LensSoFar, Var

\* The next put is one of a record more, and nothing else.
LEMMA SoFarNext ==
  ASSUME NEW r \in Rank, NEW k \in Step, NEW c \in 0 .. NVars, NEW v \in Var,
         IsNext(v, r, k, c)
  PROVE  /\ SoFar(r, v, k, v) = SoFar(r, v, k, c) + 1
         /\ SoFar(r, v, k, c) = IF v \in RecVar THEN k ELSE 0
         /\ \A w \in Var \ {v} : SoFar(r, w, k, v) = SoFar(r, w, k, c)
<1>1. /\ v \in RecVar <=> k >= 0
      /\ Posts(r, v)
      /\ v > c
      /\ \A w \in Var : Posts(r, w) /\ (w \in RecVar <=> k >= 0) => w <= c \/ v <= w
  BY DEF IsNext, Remaining, StepVars, Var
<1>2. k \in Int /\ c \in Int /\ v \in Int /\ \A w \in Var : w \in Int
  BY CaseAssumption DEF Step, Var
<1>3. ASSUME NEW w \in Var \ {v} PROVE SoFar(r, w, k, v) = SoFar(r, w, k, c)
  BY <1>1, <1>2, <1>3 DEF SoFar
<1> QED
  BY <1>1, <1>2, <1>3 DEF SoFar

\* The end of a step is the beginning of the next.
LEMMA SoFarMoves ==
  ASSUME NEW r \in Rank, NEW k \in Step, NEW c \in 0 .. NVars, Remaining(r, k, c) = {},
         NEW v \in Var
  PROVE  /\ SoFar(r, v, k + 1, 0) = SoFar(r, v, k, c)
         /\ k = NRecs - 1 => SoFar(r, v, k, c) = RecsOf(r, v)
<1>1. /\ k \in Int /\ k >= -1 /\ c \in Int /\ v \in Int /\ v > 0
      /\ NRecs \in Nat
  BY CaseAssumption DEF Step, Var
<1>2. Posts(r, v) /\ (v \in RecVar <=> k >= 0) => v <= c
  BY <1>1 DEF Remaining, StepVars
<1> QED
  BY <1>1, <1>2 DEF SoFar, RecsOf

LEMMA SoFarEnds ==
  ASSUME NEW r \in Rank, NEW k \in Step, NEW c \in 0 .. NVars, Remaining(r, k, c) = {},
         k = NRecs - 1
  PROVE  LenSoFar(r, k, c) = BlobLen(r)
<1>1. \A v \in Var : SoFar(r, v, k, c) = RecsOf(r, v)
  BY SoFarMoves
<1>2. LensSoFar(r, k, c) = Lens(r)
  BY <1>1 DEF LensSoFar, Lens
<1> QED
  BY <1>2 DEF LenSoFar, BlobLen

LEMMA PutHolds ==
  ASSUME NEW v \in Var, NEW c, IsVarBuf(c), NEW n \in Nat, Holds(v, c, n)
  PROVE  /\ v \in RecVar => Holds(v, PutRecord(c, n), n + 1)
         /\ v \notin RecVar /\ n = 0 => Holds(v, PutFixed(c), 1)
<1>1. /\ c.nalloc \in Nat /\ c.nrecs \in Nat /\ Grow \in Nat \ {0}
      /\ c.buf \in Seq(Nat \cup {None}) /\ Len(c.buf) = c.nalloc
  BY H5BlobAssumption DEF IsVarBuf, VarBuf
<1>2. /\ n <= c.nalloc /\ (n = 0 => c.nalloc = 0)
      /\ c.nrecs = IF v \in RecVar THEN n ELSE 0
      /\ \A i \in 1 .. c.nalloc : c.buf[i] = IF i <= n THEN i - 1 ELSE None
  BY DEF Holds
<1>3. ASSUME v \in RecVar PROVE Holds(v, PutRecord(c, n), n + 1)
  <2> DEFINE g == Grown(c, n)
             d == PutRecord(c, n)
  <2>1. /\ g.nalloc = IF n = c.nalloc THEN c.nalloc + Grow ELSE c.nalloc
        /\ g.nrecs = n
        /\ DOMAIN g.buf = 1 .. g.nalloc
        /\ \A i \in 1 .. g.nalloc : g.buf[i] = IF i <= n THEN i - 1 ELSE None
    <3>1. CASE n # c.nalloc
      BY <1>1, <1>2, <1>3, <3>1 DEF Grown
    <3>2. CASE n = c.nalloc
      <4>1. g = [nalloc |-> c.nalloc + Grow, nrecs |-> c.nrecs,
                 buf |-> [i \in 1 .. c.nalloc + Grow |->
                            IF i <= c.nalloc THEN c.buf[i] ELSE None]]
        BY <3>2 DEF Grown
      <4> HIDE DEF g
      <4> QED
        BY <1>1, <1>2, <1>3, <3>2, <4>1
    <3> QED
      BY <3>1, <3>2
  <2>2. d = [nalloc |-> g.nalloc, nrecs |-> VarRecs(g.nrecs, n),
             buf |-> [g.buf EXCEPT ![n + 1] = n]]
    BY DEF PutRecord
  <2> HIDE DEF g, d
  <2>3. /\ d.nalloc = g.nalloc /\ d.nrecs = n + 1
        /\ \A i \in 1 .. g.nalloc : d.buf[i] = IF i = n + 1 THEN n ELSE g.buf[i]
    <3>1. VarRecs(g.nrecs, n) = n + 1
      BY <2>1 DEF VarRecs
    <3>2. d.nalloc = g.nalloc /\ d.nrecs = n + 1 /\ d.buf = [g.buf EXCEPT ![n + 1] = n]
      BY <2>2, <3>1
    <3> QED
      BY <2>1, <3>2
  <2>4. n + 1 <= g.nalloc /\ g.nalloc \in Nat
    BY <1>1, <1>2, <2>1
  <2>5. ASSUME NEW i \in 1 .. g.nalloc
        PROVE  d.buf[i] = IF i <= n + 1 THEN i - 1 ELSE None
    <3>1. i \in Int
      OBVIOUS
    <3> QED
      BY <2>1, <2>3, <2>4, <3>1
  <2> QED
    BY <1>3, <2>3, <2>4, <2>5 DEF Holds, d
<1>4. ASSUME v \notin RecVar, n = 0 PROVE Holds(v, PutFixed(c), 1)
  <2>1. PutFixed(c) = [nalloc |-> 1, nrecs |-> 0, buf |-> [i \in 1 .. 1 |-> 0]]
    BY <1>2, <1>4 DEF PutFixed
  <2> QED
    BY <1>4, <2>1 DEF Holds
<1> QED
  BY <1>3, <1>4

LEMMA NoVarBufHolds == \A v \in Var : Holds(v, NoVarBuf, 0)
BY DEF Holds, NoVarBuf

\* A step of one rank leaves the others' memory alone.
LEMMA OneCache ==
  ASSUME CacheInv, NEW r \in Rank,
         CacheOf(r, pc'[r], rec'[r], cur'[r], cache'[r], totalLen'[r], numrecs'[r]),
         \A q \in Rank \ {r} :
           /\ pc'[q] = pc[q] /\ rec'[q] = rec[q] /\ cur'[q] = cur[q]
           /\ cache'[q] = cache[q] /\ totalLen'[q] = totalLen[q]
           /\ numrecs'[q] = numrecs[q]
  PROVE  CacheInv'
<1> SUFFICES ASSUME NEW q \in Rank
             PROVE  CacheOf(q, pc'[q], rec'[q], cur'[q], cache'[q], totalLen'[q],
                            numrecs'[q])
  BY DEF CacheInv
<1>1. CASE q = r
  BY <1>1
<1>2. CASE q # r
  BY <1>2 DEF CacheInv
<1> QED
  BY <1>1, <1>2

LEMMA PutVaraCaches ==
  ASSUME BlobType, PutsInv, PutsInv', CacheInv, NEW r \in Rank, PutVara(r)
  PROVE  CacheInv'
<1> DEFINE k == rec[r]
           c == cur[r]
<1>1. PICK v \in Var :
        /\ IsNext(v, r, rec[r], cur[r])
        /\ cur' = [cur EXCEPT ![r] = v]
        /\ totalLen' = [totalLen EXCEPT ![r] = @ + PutLen[r][v]]
        /\ \/ /\ v \notin RecVar
              /\ cache' = [cache EXCEPT ![r][v] = PutFixed(@)]
              /\ UNCHANGED <<pc, numrecs>>
           \/ /\ v \in RecVar
              /\ IF Throws(cache[r][v], rec[r]) \/ Overruns(cache[r][v], rec[r])
                 THEN /\ pc' = [pc EXCEPT ![r] =
                                  IF Throws(cache[r][v], rec[r])
                                  THEN "thrown" ELSE "overrun"]
                      /\ UNCHANGED <<cache, numrecs>>
                 ELSE /\ cache' = [cache EXCEPT ![r][v] = PutRecord(@, rec[r])]
                      /\ numrecs' = [numrecs EXCEPT ![r] = NumRecs(@, rec[r])]
                      /\ UNCHANGED pc
  BY DEF PutVara
<1>2. pc[r] = "post" /\ rec' = rec
  BY DEF PutVara
<1>3. /\ k \in Step /\ c \in 0 .. NVars /\ v \in 0 .. NVars /\ k \in Int
      /\ IsVarBuf(cache[r][v]) /\ totalLen[r] \in Nat /\ numrecs[r] \in Nat
      /\ PutLen[r][v] \in Nat /\ NVars \in Nat
  BY PutLenType, CaseAssumption DEF BlobType, Var, Step
<1>4. \/ /\ v \notin RecVar
         /\ cache' = [cache EXCEPT ![r][v] = PutFixed(@)]
         /\ UNCHANGED <<pc, numrecs>>
      \/ /\ v \in RecVar
         /\ cache' = [cache EXCEPT ![r][v] = PutRecord(@, rec[r])]
         /\ numrecs' = [numrecs EXCEPT ![r] = NumRecs(@, rec[r])]
         /\ UNCHANGED pc
  <2>1. pc'[r] \notin {"thrown", "overrun"}
    BY DEF PutsInv, PutsAccepted
  <2> QED
    BY <1>1, <2>1 DEF BlobType
<1>5. /\ SoFar(r, v, k, v) = SoFar(r, v, k, c) + 1
      /\ SoFar(r, v, k, c) = IF v \in RecVar THEN k ELSE 0
      /\ \A w \in Var \ {v} : SoFar(r, w, k, v) = SoFar(r, w, k, c)
  BY <1>1, <1>3, SoFarNext
<1>6. SoFar(r, v, k, c) \in Nat
  BY <1>3, SoFarType
<1>7. CacheOf(r, "post", k, c, cache[r], totalLen[r], numrecs[r])
  BY <1>2 DEF CacheInv
<1>8. totalLen'[r] = LenSoFar(r, k, v)
  <2> DEFINE w == LensSoFar(r, k, c)
             x == LensSoFar(r, k, v)
             n == SoFar(r, v, k, c)
             d == PutLen[r][v]
  <2>1. w \in [1 .. NVars -> Nat] /\ x \in [1 .. NVars -> Nat]
    BY <1>3, LensSoFarType
  <2>2. x[v] = w[v] + d
    <3>1. (n + 1) * d = n * d + d
      BY <1>3, <1>6
    <3>2. w[v] = n * d /\ x[v] = (n + 1) * d
      BY <1>5 DEF LensSoFar
    <3> QED
      BY <3>1, <3>2
  <2>3. \A u \in 1 .. NVars : u # v => x[u] = w[u]
    BY <1>5 DEF LensSoFar, Var
  <2>4. v \in 1 .. NVars
    BY DEF Var
  <2> HIDE DEF w, x, d
  <2>5. Prefix(x, NVars)[NVars] = Prefix(w, NVars)[NVars] + d
    BY <1>3, <2>1, <2>2, <2>3, <2>4, PrefixUpdate DEF d
  <2>6. totalLen'[r] = totalLen[r] + d /\ totalLen[r] = LenSoFar(r, k, c)
    BY <1>1, <1>7 DEF BlobType, CacheOf, d
  <2> QED
    BY <2>5, <2>6 DEF LenSoFar, w, x
<1>9. Holds(v, cache[r][v], SoFar(r, v, k, c))
  BY <1>7 DEF CacheOf, InMemory
<1>10. Holds(v, cache'[r][v], SoFar(r, v, k, v))
  <2>1. CASE v \notin RecVar
    <3>1. cache'[r][v] = PutFixed(cache[r][v])
      BY <1>4, <2>1 DEF BlobType
    <3>2. SoFar(r, v, k, c) = 0 /\ SoFar(r, v, k, v) = 1
      BY <1>5, <2>1
    <3> QED
      BY <1>3, <1>9, <2>1, <3>1, <3>2, PutHolds
  <2>2. CASE v \in RecVar
    <3>1. cache'[r][v] = PutRecord(cache[r][v], k)
      BY <1>4, <2>2 DEF BlobType
    <3>2. SoFar(r, v, k, c) = k /\ SoFar(r, v, k, v) = k + 1 /\ k \in Nat
      BY <1>5, <1>6, <2>2
    <3> QED
      BY <1>3, <1>9, <2>2, <3>1, <3>2, PutHolds
  <2> QED
    BY <2>1, <2>2
<1>11. ASSUME NEW w \in Var PROVE Holds(w, cache'[r][w], SoFar(r, w, k, v))
  <2>1. CASE w = v
    BY <1>10, <2>1
  <2>2. CASE w # v
    <3>1. cache'[r][w] = cache[r][w]
      BY <1>4, <2>2 DEF BlobType
    <3>2. Holds(w, cache[r][w], SoFar(r, w, k, c))
      BY <1>7 DEF CacheOf, InMemory
    <3> QED
      BY <1>5, <2>2, <3>1, <3>2
  <2> QED
    BY <2>1, <2>2
<1>12. ASSUME NEW w \in RecVar PROVE SoFar(r, w, k, v) <= numrecs'[r]
  <2>0. w \in Var
    BY CaseAssumption
  <2>1. SoFar(r, w, k, c) <= numrecs[r] /\ SoFar(r, w, k, c) \in Nat
    BY <1>3, <1>7, <2>0, SoFarType DEF CacheOf
  <2>2. CASE v \notin RecVar
    BY <1>4, <1>5, <2>0, <2>1, <2>2
  <2>3. CASE v \in RecVar
    <3>1. numrecs'[r] = NumRecs(numrecs[r], k)
      BY <1>4, <2>3 DEF BlobType
    <3>2. numrecs'[r] >= numrecs[r] /\ numrecs'[r] >= k + 1
      BY <1>3, <3>1 DEF NumRecs
    <3>3. CASE w = v
      BY <1>5, <2>3, <3>2, <3>3
    <3>4. CASE w # v
      <4>1. SoFar(r, w, k, v) = SoFar(r, w, k, c)
        BY <1>5, <2>0, <3>4
      <4>2. numrecs'[r] \in Nat
        BY <1>3, <1>5, <1>6, <2>3, <3>1 DEF NumRecs
      <4> QED
        BY <1>3, <2>1, <3>2, <4>1, <4>2
    <3> QED
      BY <3>3, <3>4
  <2> QED
    BY <2>2, <2>3
<1>13. pc'[r] = "post" /\ cur'[r] = v /\ rec'[r] = k
  BY <1>1, <1>2, <1>4 DEF BlobType
<1>14. CacheOf(r, pc'[r], rec'[r], cur'[r], cache'[r], totalLen'[r], numrecs'[r])
  <2> HIDE DEF k, c
  <2> QED
    BY <1>8, <1>11, <1>12, <1>13 DEF CacheOf, Posted, InMemory
<1>15. \A q \in Rank \ {r} :
         /\ pc'[q] = pc[q] /\ rec'[q] = rec[q] /\ cur'[q] = cur[q]
         /\ cache'[q] = cache[q] /\ totalLen'[q] = totalLen[q]
         /\ numrecs'[q] = numrecs[q]
  BY <1>1, <1>2, <1>4 DEF BlobType
<1> QED
  BY <1>14, <1>15, OneCache

\* A rank that goes on to the next step, or to the barrier before the end.
LEMMA NextStepCaches ==
  ASSUME BlobType, CacheInv, NEW r \in Rank, NextStep(r), pc[r] \in {"post", "flush"},
         Remaining(r, rec[r], cur[r]) = {}, UNCHANGED putVars
  PROVE  CacheInv'
<1> DEFINE k == rec[r]
           c == cur[r]
<1>1. /\ k \in Step /\ c \in 0 .. NVars /\ k \in Int /\ k <= NRecs - 1 /\ NRecs \in Nat
      /\ cache' = cache /\ totalLen' = totalLen /\ numrecs' = numrecs
  BY CaseAssumption DEF BlobType, Step, putVars
<1>2. CacheOf(r, pc[r], k, c, cache[r], totalLen[r], numrecs[r])
  BY DEF CacheInv
<1>3. \A q \in Rank \ {r} : pc'[q] = pc[q] /\ rec'[q] = rec[q] /\ cur'[q] = cur[q]
  BY DEF NextStep, BlobType
<1>4. \A v \in Var : SoFar(r, v, k + 1, 0) = SoFar(r, v, k, c)
  BY <1>1, SoFarMoves
<1>5. CacheOf(r, pc'[r], rec'[r], cur'[r], cache'[r], totalLen'[r], numrecs'[r])
  <2>1. CASE k + 1 < NRecs
    <3>1. pc'[r] = "post" /\ rec'[r] = k + 1 /\ cur'[r] = 0
      BY <2>1 DEF NextStep, BlobType
    <3>2. LensSoFar(r, k + 1, 0) = LensSoFar(r, k, c)
      BY <1>4 DEF LensSoFar
    <3>3. LenSoFar(r, k + 1, 0) = LenSoFar(r, k, c)
      BY <3>2 DEF LenSoFar
    <3>4. \A v \in RecVar : v \in Var
      BY CaseAssumption
    <3> HIDE DEF k, c
    <3> QED
      BY <1>1, <1>2, <1>4, <3>1, <3>3, <3>4 DEF CacheOf, Posted, InMemory
  <2>2. CASE ~(k + 1 < NRecs)
    <3>1. pc'[r] = "sync" /\ rec'[r] = k /\ cur'[r] = c
      BY <2>2 DEF NextStep, BlobType
    <3>2. k = NRecs - 1 /\ Remaining(r, k, c) = {}
      BY <1>1, <2>2
    <3> HIDE DEF k, c
    <3> QED
      BY <1>1, <1>2, <3>1, <3>2 DEF CacheOf, Posted, InMemory
  <2> QED
    BY <2>1, <2>2
<1> QED
  BY <1>1, <1>3, <1>5, OneCache

\* What close() packs is what the rank put, and as long as it counted.
LEMMA PackedIsBlob ==
  ASSUME BlobType, CacheInv, NEW r \in Rank, pc[r] \notin {"post", "flush", "head", "fclose", "done"}
  PROVE  Packed(r) = Blob(r) /\ totalLen[r] = BlobLen(r)
<1>1. /\ rec[r] \in Step /\ cur[r] \in 0 .. NVars
      /\ rec[r] = NRecs - 1 /\ Remaining(r, rec[r], cur[r]) = {}
      /\ \A v \in Var : Holds(v, cache[r][v], SoFar(r, v, rec[r], cur[r]))
      /\ totalLen[r] = LenSoFar(r, rec[r], cur[r])
  BY DEF BlobType, CacheInv, CacheOf, Posted, InMemory
<1>2. totalLen[r] = BlobLen(r)
  BY <1>1, SoFarEnds
<1>3. \A v \in Var : Holds(v, cache[r][v], RecsOf(r, v))
  BY <1>1, SoFarMoves
<1> DEFINE place(v, i) == IF cache[r][v].buf[i] = None THEN <<>>
                          ELSE Bytes(r, v, cache[r][v].buf[i])
           var(v)      == IF cache[r][v].nalloc = 0 THEN <<>>
                          ELSE FlattenSeq([i \in 1 .. PlacesOf(cache[r][v]) |-> place(v, i)])
<1>4. ASSUME NEW v \in Var PROVE var(v) = VarBytes(r, v)
  <2> DEFINE n == RecsOf(r, v)
             d == cache[r][v]
  <2>1. /\ n \in Nat /\ d.nalloc \in Nat /\ (v \notin RecVar => n <= 1)
        /\ n <= d.nalloc /\ (n = 0 => d.nalloc = 0)
        /\ d.nrecs = IF v \in RecVar THEN n ELSE 0
        /\ \A i \in 1 .. d.nalloc : d.buf[i] = IF i <= n THEN i - 1 ELSE None
    BY <1>3, PutLenType DEF BlobType, IsVarBuf, VarBuf, Holds, RecsOf
  <2>2. CASE n = 0
    <3>1. VarPuts(r, v) = [i \in 1 .. 0 |-> Bytes(r, v, i - 1)]
      BY <2>2 DEF VarPuts
    <3>2. VarBytes(r, v) \in Seq(Byte) /\ Len(VarBytes(r, v)) = 0 * PutLen[r][v]
      BY <2>2, VarBytesAre
    <3>3. VarBytes(r, v) = <<>>
      BY <3>2, PutLenType
    <3> QED
      BY <2>1, <2>2, <3>3
  <2>3. CASE n # 0
    <3>1. PlacesOf(d) = n /\ d.nalloc # 0
      BY <2>1, <2>3 DEF PlacesOf
    <3>2. ASSUME NEW i \in 1 .. n PROVE place(v, i) = Bytes(r, v, i - 1)
      <4>1. d.buf[i] = i - 1 /\ i - 1 # None
        BY <2>1 DEF None
      <4> QED
        BY <4>1
    <3>3. [i \in 1 .. PlacesOf(d) |-> place(v, i)] = VarPuts(r, v)
      <4> HIDE DEF place, n, d
      <4>1. [i \in 1 .. PlacesOf(d) |-> place(v, i)] = [i \in 1 .. n |-> Bytes(r, v, i - 1)]
        BY <3>1, <3>2
      <4> QED
        BY <4>1 DEF VarPuts, n
    <3> HIDE DEF place
    <3> QED
      BY <3>1, <3>3 DEF VarBytes
  <2> QED
    BY <2>2, <2>3
<1>5. [v \in Var |-> var(v)] = [v \in Var |-> VarBytes(r, v)]
  <2> HIDE DEF var
  <2> QED
    BY <1>4
<1>6. Packed(r) = FlattenSeq([v \in Var |-> var(v)])
  BY DEF Packed
<1> HIDE DEF var
<1> QED
  BY <1>2, <1>5, <1>6 DEF Blob

\* close() leaves what is cached alone until the rank has written it.
LEMMA CloseCaches ==
  ASSUME BlobType, CacheInv, NEW r \in Rank,
         \/ BeginClose(r) \/ EndAllreduce(r) \/ EndExscan(r)
         \/ CreateDatasets(r) \/ WriteHeader(r) \/ EndClose(r)
  PROVE  CacheInv'
<1>1. /\ UNCHANGED <<rec, cur, cache, totalLen, numrecs>>
      /\ \A q \in Rank \ {r} : pc'[q] = pc[q]
  BY DEF BeginClose, EndAllreduce, EndExscan, CreateDatasets, WriteHeader, EndClose,
         BlobType, putVars
<1>2. /\ pc[r] \notin {"post", "flush"} /\ pc'[r] # "aborted"
      /\ pc'[r] \notin {"post", "flush"}
      /\ pc'[r] \in {"head", "fclose", "done"} <=> pc[r] \in {"head", "fclose", "done"}
  BY DEF BeginClose, EndAllreduce, EndExscan, CreateDatasets, WriteHeader, EndClose,
         BlobType
<1>3. CacheOf(r, pc[r], rec[r], cur[r], cache[r], totalLen[r], numrecs[r])
  BY DEF CacheInv
<1>4. CacheOf(r, pc'[r], rec'[r], cur'[r], cache'[r], totalLen'[r], numrecs'[r])
  BY <1>1, <1>2, <1>3 DEF CacheOf, Posted, InMemory
<1> QED
  BY <1>1, <1>4, OneCache

\* The assertion on the packed length holds; what was written is freed.
LEMMA WriteBlobIs ==
  ASSUME BlobType, CacheInv, NEW r \in Rank, WriteBlob(r)
  PROVE  /\ pc' = [pc EXCEPT ![r] = "head"]
         /\ data' = [o \in DOMAIN data |->
                        IF o \in Region(r) THEN Blob(r)[o - start[r] + 1] ELSE data[o]]
         /\ amount' = [amount EXCEPT ![r] = @ + totalLen[r]]
         /\ cache' = [cache EXCEPT ![r] = [v \in Var |-> NoVarBuf]]
         /\ UNCHANGED <<rec, cur, totalLen, numrecs, psum, red, sum, start, header,
                        headerLen>>
<1>1. pc[r] = "write"
  BY DEF WriteBlob
<1>2. Packed(r) = Blob(r) /\ totalLen[r] = BlobLen(r)
  BY <1>1, PackedIsBlob
<1>3. Len(Blob(r)) = BlobLen(r)
  BY BlobIs
<1>4. UNCHANGED <<rec, cur, totalLen, numrecs, psum, red, sum, start, header, headerLen>>
  BY DEF WriteBlob, mpiVars, hdrVars
<1> QED
  BY <1>2, <1>3, <1>4 DEF WriteBlob

LEMMA WriteBlobCaches ==
  ASSUME BlobType, CacheInv, NEW r \in Rank, WriteBlob(r)
  PROVE  CacheInv'
<1>1. /\ pc' = [pc EXCEPT ![r] = "head"]
      /\ cache' = [cache EXCEPT ![r] = [v \in Var |-> NoVarBuf]]
      /\ UNCHANGED <<rec, cur, totalLen, numrecs>> /\ pc[r] = "write"
  BY WriteBlobIs DEF WriteBlob
<1>2. CacheOf(r, pc[r], rec[r], cur[r], cache[r], totalLen[r], numrecs[r])
  BY DEF CacheInv
<1>3. pc'[r] = "head" /\ \A v \in Var : cache'[r][v] = NoVarBuf
  BY <1>1 DEF BlobType
<1>4. \A v \in Var : Holds(v, cache'[r][v], 0)
  BY <1>3, NoVarBufHolds
<1>5. CacheOf(r, pc'[r], rec'[r], cur'[r], cache'[r], totalLen'[r], numrecs'[r])
  BY <1>1, <1>2, <1>3, <1>4 DEF CacheOf, Posted, InMemory
<1>6. \A q \in Rank \ {r} : pc'[q] = pc[q] /\ cache'[q] = cache[q]
  BY <1>1 DEF BlobType
<1> QED
  BY <1>1, <1>5, <1>6, OneCache

LEMMA InitCaches == Init => CacheInv
<1> SUFFICES ASSUME Init, NEW r \in Rank
             PROVE  CacheOf(r, pc[r], rec[r], cur[r], cache[r], totalLen[r], numrecs[r])
  BY DEF CacheInv
<1>1. /\ pc[r] = "post" /\ rec[r] = -1 /\ cur[r] = 0 /\ totalLen[r] = 0
      /\ numrecs[r] = 0 /\ \A v \in Var : cache[r][v] = NoVarBuf
  BY DEF Init
<1>2. \A v \in Var : SoFar(r, v, -1, 0) = 0
  BY DEF SoFar, Var
<1>3. LenSoFar(r, -1, 0) = 0
  <2> DEFINE w == LensSoFar(r, -1, 0)
  <2>1. -1 \in Step /\ 0 \in 0 .. NVars /\ NVars \in Nat /\ NVars \in 0 .. NVars
    BY CaseAssumption DEF Step
  <2>2. w \in [1 .. NVars -> Nat]
    BY <2>1, LensSoFarType
  <2>3. \A i \in 1 .. NVars : w[i] = 0
    BY <1>2, PutLenType DEF LensSoFar, Var
  <2> HIDE DEF w
  <2>4. IsPrefixSum(Prefix(w, NVars), w, NVars)
    BY <2>1, <2>2, PrefixExists
  <2>5. Prefix(w, NVars)[NVars] = NVars * 0
    BY <2>1, <2>3, <2>4, PrefixOfEquals
  <2> QED
    BY <2>1, <2>5 DEF LenSoFar, w
<1>4. \A v \in RecVar : v \in Var
  BY CaseAssumption
<1>5. \A v \in Var : Holds(v, cache[r][v], 0)
  BY <1>1, NoVarBufHolds
<1> QED
  BY <1>1, <1>2, <1>3, <1>4, <1>5 DEF CacheOf, Posted, InMemory

LEMMA NextCaches == BlobType /\ PutsInv /\ PutsInv' /\ CacheInv /\ [Next]_vars => CacheInv'
<1> SUFFICES ASSUME BlobType, PutsInv, PutsInv', CacheInv, [Next]_vars PROVE CacheInv'
  OBVIOUS
<1>1. CASE UNCHANGED <<pc, rec, cur, cache, totalLen, numrecs>>
  BY <1>1 DEF CacheInv
<1>2. ASSUME NEW r \in Rank, RankNext(r) PROVE CacheInv'
  <2>1. CASE Makes(r)
    BY <1>1, <2>1, MakesKeeps DEF ctlVars, putVars
  <2>2. CASE PutVara(r)
    BY <2>2, PutVaraCaches
  <2>3. CASE EndStep(r)
    <3>1. CASE NextStep(r)
      BY <2>3, <3>1, NextStepCaches DEF EndStep
    <3>2. CASE /\ pc' = [pc EXCEPT ![r] = "flush"]
               /\ UNCHANGED <<rec, cur>>
      <4>1. /\ UNCHANGED <<rec, cur, cache, totalLen, numrecs>> /\ pc[r] = "post"
            /\ pc'[r] = "flush" /\ \A q \in Rank \ {r} : pc'[q] = pc[q]
        BY <2>3, <3>2 DEF EndStep, putVars, BlobType
      <4>2. CacheOf(r, pc[r], rec[r], cur[r], cache[r], totalLen[r], numrecs[r])
        BY DEF CacheInv
      <4>3. CacheOf(r, pc'[r], rec'[r], cur'[r], cache'[r], totalLen'[r], numrecs'[r])
        BY <4>1, <4>2 DEF CacheOf, Posted, InMemory
      <4> QED
        BY <4>1, <4>3, OneCache
    <3> QED
      BY <2>3, <3>1, <3>2 DEF EndStep
  <2>4. CASE Flush(r)
    BY <2>4, NextStepCaches DEF Flush, PutsInv
  <2>5. CASE \/ BeginClose(r) \/ EndAllreduce(r) \/ EndExscan(r)
             \/ CreateDatasets(r) \/ WriteHeader(r) \/ EndClose(r)
    BY <2>5, CloseCaches
  <2>6. CASE WriteBlob(r)
    BY <2>6, WriteBlobCaches
  <2> QED
    BY <1>2, <2>1, <2>2, <2>3, <2>4, <2>5, <2>6 DEF RankNext, Makes
<1>3. CASE Combine \/ UNCHANGED vars
  BY <1>1, <1>3 DEF Combine, vars, ctlVars, putVars
<1> QED
  BY <1>2, <1>3 DEF Next, Finished

LEMMA PutsHold == Spec => []PutsInv
BY InitPuts, NextPuts, BlobTyped, PTL DEF Spec

LEMMA CachesHold == Spec => []CacheInv
BY InitCaches, NextCaches, BlobTyped, PutsHold, PTL DEF Spec

\* The assertion of close() on the packed length never stops a rank, however
\* many variables and records there are, of whatever lengths.
THEOREM PackedAsCounted == Spec => []PackedIsCounted
<1>1. CacheInv => PackedIsCounted
  BY DEF CacheInv, CacheOf, PackedIsCounted
<1> QED
  BY <1>1, CachesHold, PTL

-----------------------------------------------------------------------------
(* What is in the file.                                                    *)

AfterCreate == {"write", "head", "fclose", "done"}
AfterWrite == {"head", "fclose", "done"}

\* The bytes of rank r are in a dataset d, from offset s on.
IsStored(r, d, s, len) ==
  \A m \in 1 .. len : s + m - 1 \in DOMAIN d /\ d[s + m - 1] = Blob(r)[m]

\* The regions leave no gap; the dataset has the extent of all of them; and
\* those of the ranks that have written hold their bytes.
DataInv ==
  /\ \A i \in 0 .. red - 1 : psum[i + 1] = psum[i] + totalLen[i]
  /\ DOMAIN data # {} => red = NProcs /\ DOMAIN data = 0 .. psum[NProcs] - 1
  /\ \A r \in Rank :
       /\ pc[r] \in AfterCreate => DOMAIN data = 0 .. psum[NProcs] - 1
       /\ pc[r] \in AfterWrite => IsStored(r, data, start[r], totalLen[r])
  /\ pc[0] \in {"fclose", "done"} => header = numrecs[0]

\* A rank that is through with MPI_Exscan knows where its region begins.
StartInv == \A r \in Rank : pc[r] \in Scanned => start[r] # None

LEMMA InitStarts == Init => StartInv
BY DEF Init, StartInv, Scanned, Reduced, Contributed

LEMMA NextStarts == BlobType /\ StartInv /\ [Next]_vars => StartInv'
<1> SUFFICES ASSUME BlobType, StartInv, [Next]_vars PROVE StartInv'
  OBVIOUS
<1>1. ASSUME NEW r \in Rank, RankNext(r) PROVE StartInv'
  <2>1. CASE Makes(r)
    BY <2>1, MakesKeeps DEF ctlVars, StartInv
  <2>2. CASE EndExscan(r)
    <3>1. psum[r] \in Nat
      BY CaseAssumption DEF BlobType, Rank
    <3>2. start' = [start EXCEPT ![r] = Exscan(r)] /\ pc' = [pc EXCEPT ![r] = "create"]
      BY <2>2 DEF EndExscan
    <3>3. Exscan(r) # None
      BY <3>1 DEF Exscan, None
    <3> HIDE DEF Exscan
    <3> QED
      BY <3>2, <3>3 DEF BlobType, StartInv
  <2>3. CASE ~Makes(r) /\ ~EndExscan(r)
    <3>1. /\ start' = start
          /\ \A q \in Rank : pc'[q] \in Scanned => pc[q] \in Scanned
      BY <1>1, <2>3 DEF RankNext, Makes, PutVara, EndStep, Flush, NextStep, BeginClose,
         EndAllreduce, CreateDatasets, WriteBlob, WriteHeader, EndClose, BlobType,
         Scanned, Reduced, Contributed
    <3> QED
      BY <3>1 DEF StartInv
  <2> QED
    BY <2>1, <2>2, <2>3
<1>2. CASE Combine \/ UNCHANGED vars
  BY <1>2 DEF Combine, vars, ctlVars, StartInv
<1> QED
  BY <1>1, <1>2 DEF Next, Finished

LEMMA InitData == Init => DataInv
<1> SUFFICES ASSUME Init PROVE DataInv
  OBVIOUS
<1>1. 0 .. red - 1 = {} /\ DOMAIN data = {} /\ 0 \in Rank
  BY CaseAssumption DEF Init, Rank
<1> QED
  BY <1>1 DEF Init, DataInv, AfterCreate, AfterWrite

\* What a rank has contributed to the sums it changes no more.
LEMMA SumsStay ==
  ASSUME BlobType, SumInv, DataInv, NEW r \in Rank, RankNext(r)
  PROVE  /\ UNCHANGED <<psum, red>>
         /\ \A i \in 0 .. red - 1 : psum[i + 1] = psum[i] + totalLen'[i]
         /\ \A q \in Rank \ {r} : /\ pc'[q] = pc[q] /\ start'[q] = start[q]
                                  /\ totalLen'[q] = totalLen[q]
                                  /\ numrecs'[q] = numrecs[q]
<1>1. UNCHANGED <<psum, red>>
  BY MakesKeeps DEF RankNext, PutVara, EndStep, Flush, BeginClose, EndAllreduce,
         EndExscan, CreateDatasets, WriteBlob, WriteHeader, EndClose, mpiVars, Makes
<1>2. /\ \A q \in Rank \ {r} : /\ pc'[q] = pc[q] /\ start'[q] = start[q]
                               /\ totalLen'[q] = totalLen[q]
                               /\ numrecs'[q] = numrecs[q]
      /\ pc[r] \in Contributed => totalLen'[r] = totalLen[r]
  <2>1. CASE Makes(r)
    BY <2>1, MakesKeeps DEF putVars, ctlVars
  <2>2. CASE ~Makes(r)
    BY <2>2 DEF RankNext, PutVara, EndStep, Flush, NextStep, BeginClose, EndAllreduce,
           EndExscan, CreateDatasets, WriteBlob, WriteHeader, EndClose, BlobType,
           putVars, Contributed, Makes
  <2> QED
    BY <2>1, <2>2
<1>3. \A i \in 0 .. red - 1 : i \in Rank
  BY CaseAssumption DEF BlobType, Rank
<1>4. \A i \in 0 .. red - 1 : pc[i] \in Contributed
  BY DEF SumInv
<1>5. \A i \in 0 .. red - 1 : totalLen'[i] = totalLen[i]
  BY <1>2, <1>3, <1>4
<1> QED
  BY <1>1, <1>2, <1>5 DEF DataInv

\* What a step needs that leaves the file alone.
LEMMA FileStays ==
  ASSUME BlobType, SumInv, DataInv, NEW r \in Rank, RankNext(r), data' = data,
         pc'[r] \in AfterCreate =>
           /\ pc[r] \in AfterCreate /\ start'[r] = start[r] /\ totalLen'[r] = totalLen[r]
           /\ numrecs'[r] = numrecs[r],
         pc'[r] \in AfterWrite => pc[r] \in AfterWrite,
         \/ header' = header /\ (pc'[r] \in {"fclose", "done"} => pc[r] \in {"fclose", "done"})
         \/ r = 0 /\ header' = numrecs'[r]
  PROVE  DataInv'
<1>1. /\ UNCHANGED <<psum, red>>
      /\ \A i \in 0 .. red - 1 : psum[i + 1] = psum[i] + totalLen'[i]
      /\ \A q \in Rank \ {r} : /\ pc'[q] = pc[q] /\ start'[q] = start[q]
                               /\ totalLen'[q] = totalLen[q]
                               /\ numrecs'[q] = numrecs[q]
  BY SumsStay
<1>2. 0 \in Rank /\ AfterWrite \subseteq AfterCreate /\ {"fclose", "done"} \subseteq AfterWrite
  BY CaseAssumption DEF Rank, AfterCreate, AfterWrite
<1>3. ASSUME NEW q \in Rank
      PROVE  /\ pc'[q] \in AfterCreate => DOMAIN data' = 0 .. psum'[NProcs] - 1
             /\ pc'[q] \in AfterWrite => IsStored(q, data', start'[q], totalLen'[q])
  <2>1. /\ pc[q] \in AfterCreate => DOMAIN data = 0 .. psum[NProcs] - 1
        /\ pc[q] \in AfterWrite => IsStored(q, data, start[q], totalLen[q])
    BY DEF DataInv
  <2>2. CASE q = r
    <3> HIDE DEF AfterCreate, AfterWrite
    <3> QED
      BY <1>1, <1>2, <2>1, <2>2
  <2>3. CASE q # r
    BY <1>1, <2>1, <2>3
  <2> QED
    BY <2>2, <2>3
<1>4. pc'[0] \in {"fclose", "done"} => header' = numrecs'[0]
  <2>1. CASE r = 0 /\ header' = numrecs'[r]
    BY <2>1
  <2>2. CASE r # 0 /\ header' = header
    BY <1>1, <1>2, <2>2 DEF DataInv
  <2>3. CASE r = 0 /\ header' = header /\ (pc'[r] \in {"fclose", "done"} => pc[r] \in {"fclose", "done"})
    <3> HIDE DEF AfterCreate, AfterWrite
    <3>1. pc'[r] \in {"fclose", "done"} => numrecs'[r] = numrecs[r]
      BY <1>2
    <3> QED
      BY <2>3, <3>1 DEF DataInv
  <2>4. r # 0 => header' = header
    OBVIOUS
  <2> QED
    BY <2>1, <2>2, <2>3, <2>4
<1> QED
  BY <1>1, <1>3, <1>4 DEF DataInv

LEMMA OtherData ==
  ASSUME BlobType, SumInv, DataInv, NEW r \in Rank, RankNext(r),
         ~CreateDatasets(r), ~WriteBlob(r)
  PROVE  DataInv'
<1>1. CASE Makes(r)
  <2>1. UNCHANGED <<ctlVars, putVars, start, fileVars>>
    BY <1>1, MakesKeeps
  <2> QED
    BY <2>1, FileStays DEF ctlVars, putVars, fileVars
<1>2. CASE \/ PutVara(r) \/ EndStep(r) \/ Flush(r) \/ BeginClose(r)
           \/ EndAllreduce(r) \/ EndExscan(r)
  <2>1. /\ UNCHANGED <<data, header>>
        /\ pc'[r] \notin AfterCreate /\ pc'[r] \notin AfterWrite /\ pc'[r] \notin {"fclose", "done"}
    BY <1>2 DEF PutVara, EndStep, Flush, NextStep, BeginClose, EndAllreduce, EndExscan,
           BlobType, fileVars, AfterCreate, AfterWrite
  <2> QED
    BY <2>1, FileStays
<1>3. CASE WriteHeader(r)
  <2>1. /\ data' = data /\ UNCHANGED <<start, totalLen, numrecs>>
        /\ header' = IF r = 0 THEN numrecs[r] ELSE header
        /\ pc[r] = "head" /\ pc'[r] = "fclose"
    BY <1>3 DEF WriteHeader, putVars, BlobType
  <2>2. CASE r = 0
    BY <2>1, <2>2, FileStays DEF AfterCreate, AfterWrite
  <2>3. CASE r # 0
    <3>1. SUFFICES DataInv'
      OBVIOUS
    <3>2. header' = header /\ 0 \in Rank
      BY <2>1, <2>3, CaseAssumption DEF Rank
    <3>3. /\ UNCHANGED <<psum, red>>
          /\ \A i \in 0 .. red - 1 : psum[i + 1] = psum[i] + totalLen'[i]
          /\ \A q \in Rank \ {r} : pc'[q] = pc[q]
      BY SumsStay
    <3>4. ASSUME NEW q \in Rank
          PROVE  /\ pc'[q] \in AfterCreate => DOMAIN data' = 0 .. psum'[NProcs] - 1
                 /\ pc'[q] \in AfterWrite => IsStored(q, data', start'[q], totalLen'[q])
      <4>1. pc'[q] \in AfterCreate => pc[q] \in AfterCreate
        BY <2>1, <3>3 DEF AfterCreate
      <4>2. pc'[q] \in AfterWrite => pc[q] \in AfterWrite
        BY <2>1, <3>3 DEF AfterWrite
      <4> QED
        BY <2>1, <3>3, <4>1, <4>2 DEF DataInv
    <3>5. pc'[0] \in {"fclose", "done"} => header' = numrecs'[0]
      BY <2>1, <2>3, <3>2, <3>3 DEF DataInv
    <3> QED
      BY <2>1, <3>3, <3>4, <3>5 DEF DataInv
  <2> QED
    BY <2>2, <2>3
<1>4. CASE EndClose(r)
  <2>1. /\ UNCHANGED <<data, start, totalLen, numrecs, header>>
        /\ pc[r] = "fclose" /\ pc'[r] = "done"
    BY <1>4 DEF EndClose, putVars, fileVars, BlobType
  <2> QED
    BY <2>1, FileStays DEF AfterCreate, AfterWrite
<1> QED
  BY <1>1, <1>2, <1>3, <1>4 DEF RankNext, Makes

\* Where a rank that knows its region writes.
LEMMA RegionInside ==
  ASSUME BlobType, SumInv, NEW r \in Rank, start[r] # None
  PROVE  /\ start[r] \in Nat /\ totalLen[r] \in Nat /\ psum[NProcs] \in Nat
         /\ start[r] + totalLen[r] <= psum[NProcs]
         /\ \A q \in Rank : q # r /\ start[q] # None =>
              \/ start[q] + totalLen[q] <= start[r]
              \/ start[r] + totalLen[r] <= start[q]
<1>1. \A q \in Rank : start[q] # None => pc[q] \in Reduced /\ sum[q] = psum[NProcs]
  BY DEF SumInv, Scanned
<1>2. RegionsDisjoint
  BY SumsSeparate
<1>3. start[r] \in Nat /\ totalLen[r] \in Nat /\ r \in Int /\ \A q \in Rank : q \in Int
  BY DEF BlobType, Rank
<1>4. psum[NProcs] \in Nat
  BY CaseAssumption DEF BlobType
<1> QED
  BY <1>1, <1>2, <1>3, <1>4 DEF RegionsDisjoint

\* The first rank that gets through H5Dcreate2 makes the datasets.
LEMMA CreateData ==
  ASSUME BlobType, SumInv, DataInv, NEW r \in Rank, CreateDatasets(r)
  PROVE  DataInv'
<1>1. RankNext(r)
  BY DEF RankNext
<1>2. /\ UNCHANGED <<psum, red>>
      /\ \A i \in 0 .. red - 1 : psum[i + 1] = psum[i] + totalLen'[i]
      /\ \A q \in Rank \ {r} : pc'[q] = pc[q]
  BY <1>1, SumsStay
<1>3. /\ pc[r] = "create" /\ pc'[r] = "write"
      /\ UNCHANGED <<start, totalLen, numrecs, header>>
      /\ data' = IF DOMAIN data = {} THEN [o \in 0 .. sum[r] - 1 |-> Hole] ELSE data
  BY DEF CreateDatasets, BlobType, putVars
<1>4. red = NProcs /\ sum[r] = psum[NProcs] /\ 0 \in Rank
  BY <1>3, CaseAssumption DEF SumInv, Reduced, Contributed, Rank
<1>5. DOMAIN data' = 0 .. psum[NProcs] - 1
  BY <1>3, <1>4 DEF DataInv
<1>6. ASSUME NEW q \in Rank, pc'[q] \in AfterWrite
      PROVE  IsStored(q, data', start'[q], totalLen'[q])
  <2>1. q # r /\ pc[q] \in AfterWrite /\ pc[q] \in AfterCreate
    BY <1>2, <1>3, <1>6 DEF AfterWrite, AfterCreate
  <2>2. IsStored(q, data, start[q], totalLen[q])
    BY <2>1 DEF DataInv
  <2>3. CASE DOMAIN data = {}
    <3>1. \A m \in 1 .. totalLen[q] : FALSE
      BY <2>2, <2>3 DEF IsStored
    <3> QED
      BY <1>3, <3>1 DEF IsStored
  <2>4. CASE DOMAIN data # {}
    BY <1>3, <2>2, <2>4
  <2> QED
    BY <2>3, <2>4
<1> QED
  BY <1>2, <1>3, <1>4, <1>5, <1>6 DEF DataInv, AfterWrite

\* A rank writes its region, and no other's.
LEMMA WriteBlobData ==
  ASSUME BlobType, SumInv, StartInv, CacheInv, DataInv, NEW r \in Rank, WriteBlob(r)
  PROVE  DataInv'
<1>1. RankNext(r)
  BY DEF RankNext
<1>2. /\ UNCHANGED <<psum, red>>
      /\ \A i \in 0 .. red - 1 : psum[i + 1] = psum[i] + totalLen'[i]
      /\ \A q \in Rank \ {r} : pc'[q] = pc[q]
  BY <1>1, SumsStay
<1>3. /\ pc[r] = "write" /\ pc'[r] = "head"
      /\ UNCHANGED <<start, totalLen, numrecs, header>>
      /\ data' = [o \in DOMAIN data |->
                    IF o \in Region(r) THEN Blob(r)[o - start[r] + 1] ELSE data[o]]
  BY WriteBlobIs DEF WriteBlob, BlobType
<1>4. DOMAIN data' = DOMAIN data /\ DOMAIN data = 0 .. psum[NProcs] - 1 /\ 0 \in Rank
  BY <1>3, CaseAssumption DEF DataInv, AfterCreate, Rank
<1>5. /\ start[r] \in Nat /\ totalLen[r] \in Nat /\ psum[NProcs] \in Nat
      /\ start[r] + totalLen[r] <= psum[NProcs]
      /\ \A q \in Rank : q # r /\ start[q] # None =>
           \/ start[q] + totalLen[q] <= start[r]
           \/ start[r] + totalLen[r] <= start[q]
  <2>1. start[r] # None
    BY <1>3 DEF StartInv, Scanned, Reduced, Contributed
  <2> QED
    BY <2>1, RegionInside
<1>6. IsStored(r, data', start[r], totalLen[r])
  <2> SUFFICES ASSUME NEW m \in 1 .. totalLen[r]
               PROVE  /\ start[r] + m - 1 \in DOMAIN data'
                      /\ data'[start[r] + m - 1] = Blob(r)[m]
    BY DEF IsStored
  <2>1. /\ start[r] + m - 1 \in DOMAIN data /\ start[r] + m - 1 \in Region(r)
        /\ (start[r] + m - 1) - start[r] + 1 = m
    BY <1>4, <1>5 DEF Region
  <2> QED
    BY <1>3, <1>4, <2>1
<1>7. ASSUME NEW q \in Rank, pc'[q] \in AfterWrite
      PROVE  IsStored(q, data', start'[q], totalLen'[q])
  <2>1. CASE q = r
    BY <1>3, <1>6, <2>1
  <2>2. CASE q # r
    <3>1. pc[q] \in AfterWrite
      BY <1>2, <1>7, <2>2
    <3>2. IsStored(q, data, start[q], totalLen[q])
      BY <3>1 DEF DataInv
    <3>3. start[q] # None /\ start[q] \in Nat /\ totalLen[q] \in Nat
      <4>1. start[q] # None
        BY <3>1 DEF StartInv, AfterWrite, Scanned, Reduced, Contributed
      <4> QED
        BY <4>1 DEF BlobType
    <3>4. ASSUME NEW m \in 1 .. totalLen[q]
          PROVE  /\ start[q] + m - 1 \in DOMAIN data'
                 /\ data'[start[q] + m - 1] = Blob(q)[m]
      <4>1. /\ start[q] + m - 1 \in DOMAIN data
            /\ data[start[q] + m - 1] = Blob(q)[m]
        BY <3>2 DEF IsStored
      <4>2. start[q] + m - 1 \notin Region(r)
        BY <1>5, <2>2, <3>3 DEF Region
      <4> QED
        BY <1>3, <4>1, <4>2
    <3> QED
      BY <1>3, <3>4 DEF IsStored
  <2> QED
    BY <2>1, <2>2
<1>8. pc'[0] \in {"fclose", "done"} => header' = numrecs'[0]
  BY <1>2, <1>3, <1>4 DEF DataInv
<1>9. DOMAIN data' # {} => red = NProcs
  BY <1>4 DEF DataInv
<1> QED
  BY <1>2, <1>3, <1>4, <1>7, <1>8, <1>9 DEF DataInv

\* One more contribution is summed.
LEMMA CombineData ==
  ASSUME BlobType, SumInv, DataInv, Combine
  PROVE  DataInv'
<1>1. /\ red \in Nat /\ NProcs \in Nat /\ red < NProcs /\ red' = red + 1
      /\ UNCHANGED <<pc, totalLen, numrecs, data, header, start>>
      /\ psum' = [psum EXCEPT ![red + 1] = psum[red] + totalLen[red]]
  BY CaseAssumption DEF Combine, BlobType, ctlVars, putVars, fileVars
<1>2. /\ \A i \in 0 .. red : psum'[i] = psum[i]
      /\ psum'[red + 1] = psum[red] + totalLen[red]
  <2>1. \A i \in 0 .. red : i \in 0 .. NProcs /\ i # red + 1
    BY <1>1
  <2>2. red + 1 \in 0 .. NProcs
    BY <1>1
  <2> QED
    BY <1>1, <2>1, <2>2 DEF BlobType
<1>3. ASSUME NEW i \in 0 .. red PROVE psum'[i + 1] = psum'[i] + totalLen'[i]
  <2>1. CASE i = red
    BY <1>1, <1>2, <2>1
  <2>2. CASE i # red
    <3>1. i \in 0 .. red - 1 /\ i + 1 \in 0 .. red
      BY <1>1, <2>2
    <3> QED
      BY <1>1, <1>2, <3>1 DEF DataInv
  <2> QED
    BY <2>1, <2>2
<1>4. (red + 1) - 1 = red
  BY <1>1
<1>5. \A r \in Rank : pc[r] \notin AfterCreate /\ pc[r] \notin AfterWrite
  BY <1>1 DEF SumInv, AfterCreate, AfterWrite, Reduced, Contributed
<1>6. DOMAIN data = {}
  BY <1>1 DEF DataInv
<1>7. pc[0] \notin {"fclose", "done"}
  BY <1>5, CaseAssumption DEF AfterWrite, Rank
<1> QED
  BY <1>1, <1>3, <1>4, <1>5, <1>6, <1>7 DEF DataInv

LEMMA NextData ==
  BlobType /\ SumInv /\ StartInv /\ CacheInv /\ DataInv /\ [Next]_vars => DataInv'
<1> SUFFICES ASSUME BlobType, SumInv, StartInv, CacheInv, DataInv, [Next]_vars
             PROVE  DataInv'
  OBVIOUS
<1>1. CASE UNCHANGED vars
  BY <1>1 DEF vars, ctlVars, putVars, mpiVars, fileVars, DataInv
<1> QED
  BY <1>1, OtherData, CreateData, WriteBlobData, CombineData DEF Next, Finished

LEMMA SumsHold == Spec => []SumInv
BY InitSums, NextSums, BlobTyped, PTL DEF Spec

LEMMA StartsHold == Spec => []StartInv
BY InitStarts, NextStarts, BlobTyped, PTL DEF Spec

LEMMA DataHold == Spec => []DataInv
BY InitData, NextData, BlobTyped, SumsHold, StartsHold, CachesHold, PTL DEF Spec

\* All that the ranks contributed is summed.
Contributions == [i \in 1 .. NProcs |-> totalLen[i - 1]]

LEMMA SumsAreTotal ==
  ASSUME BlobType, SumInv, DataInv, red = NProcs
  PROVE  IsPrefixSum(psum, Contributions, NProcs) /\ Contributions \in [1 .. NProcs -> Nat]
<1>1. NProcs \in Nat /\ psum \in [0 .. NProcs -> Nat] /\ psum[0] = 0
  BY CaseAssumption DEF BlobType, SumInv
<1>2. ASSUME NEW i \in 1 .. NProcs
      PROVE  psum[i] = psum[i - 1] + Contributions[i] /\ Contributions[i] \in Nat
  <2>1. i - 1 \in 0 .. red - 1 /\ (i - 1) + 1 = i /\ i - 1 \in Rank
    BY <1>1 DEF Rank
  <2>2. Contributions[i] = totalLen[i - 1]
    BY DEF Contributions
  <2>3. psum[(i - 1) + 1] = psum[i - 1] + totalLen[i - 1]
    BY <2>1 DEF DataInv
  <2> QED
    BY <2>1, <2>2, <2>3 DEF BlobType
<1>3. Contributions \in [1 .. NProcs -> Nat]
  <2>1. \A i \in 1 .. NProcs : totalLen[i - 1] \in Nat
    BY <1>2 DEF Contributions
  <2> QED
    BY <2>1 DEF Contributions
<1> QED
  BY <1>1, <1>2, <1>3 DEF IsPrefixSum

LEMMA WrittenFile ==
  ASSUME BlobType, SumInv, StartInv, CacheInv, DataInv, \A r \in Rank : pc[r] = "done"
  PROVE  /\ red = NProcs /\ psum[NProcs] \in Nat /\ DOMAIN data = 0 .. psum[NProcs] - 1
         /\ \A r \in Rank : /\ totalLen[r] = BlobLen(r) /\ start[r] = psum[r]
                           /\ IsStored(r, data, start[r], BlobLen(r))
         /\ \A o \in DOMAIN data : \E r \in Rank : \E m \in 1 .. BlobLen(r) :
              data[o] = Blob(r)[m]
<1>1. 0 \in Rank /\ NProcs \in Nat /\ NProcs \in 0 .. NProcs
  BY CaseAssumption DEF Rank
<1>2. red = NProcs /\ DOMAIN data = 0 .. psum[NProcs] - 1
  BY <1>1 DEF SumInv, DataInv, Reduced, Contributed, AfterCreate
<1>3. psum \in [0 .. NProcs -> Nat] /\ psum[NProcs] \in Nat
  BY <1>1 DEF BlobType
<1>4. ASSUME NEW r \in Rank
      PROVE  /\ totalLen[r] = BlobLen(r) /\ start[r] = psum[r]
             /\ IsStored(r, data, start[r], BlobLen(r))
  <2>1. /\ rec[r] \in Step /\ cur[r] \in 0 .. NVars
        /\ rec[r] = NRecs - 1 /\ Remaining(r, rec[r], cur[r]) = {}
        /\ totalLen[r] = LenSoFar(r, rec[r], cur[r])
    BY DEF BlobType, CacheInv, CacheOf, Posted
  <2>2. totalLen[r] = BlobLen(r)
    BY <2>1, SoFarEnds
  <2>3. start[r] = psum[r]
    BY DEF StartInv, SumInv, Scanned, Reduced, Contributed
  <2>4. IsStored(r, data, start[r], totalLen[r])
    BY DEF DataInv, AfterWrite
  <2> QED
    BY <2>2, <2>3, <2>4
<1>5. ASSUME NEW o \in DOMAIN data
      PROVE  \E r \in Rank : \E m \in 1 .. BlobLen(r) : data[o] = Blob(r)[m]
  <2>1. IsPrefixSum(psum, Contributions, NProcs)
    BY <1>2, SumsAreTotal
  <2>2. o + 1 \in 1 .. psum[NProcs] /\ o \in Nat
    BY <1>2, <1>3
  <2>3. PICK i \in 1 .. NProcs : psum[i - 1] < o + 1 /\ o + 1 <= psum[i]
    BY <1>1, <2>1, <2>2, PrefixPasses
  <2> DEFINE r == i - 1
  <2>4. r \in Rank /\ i \in 0 .. NProcs /\ r \in 0 .. NProcs
    BY <1>1 DEF Rank
  <2>5. psum[i] = psum[r] + totalLen[r] /\ psum[r] \in Nat
    BY <1>3, <2>1, <2>4 DEF IsPrefixSum, Contributions
  <2> HIDE DEF r
  <2>6. totalLen[r] \in Nat /\ psum[r] <= o /\ o < psum[r] + totalLen[r]
    BY <2>2, <2>3, <2>4, <2>5 DEF BlobType, r
  <2> DEFINE m == o - psum[r] + 1
  <2>7. m \in 1 .. totalLen[r] /\ psum[r] + m - 1 = o
    BY <2>2, <2>5, <2>6
  <2> HIDE DEF m
  <2>8. data[o] = Blob(r)[m] /\ m \in 1 .. BlobLen(r)
    BY <1>4, <2>4, <2>7 DEF IsStored
  <2> QED
    BY <2>4, <2>8
<1> QED
  BY <1>2, <1>3, <1>4, <1>5

LEMMA WrittenComplete ==
  BlobType /\ SumInv /\ StartInv /\ CacheInv /\ DataInv => FileComplete
<1> SUFFICES ASSUME BlobType, SumInv, StartInv, CacheInv, DataInv,
                    \A r \in Rank : pc[r] = "done"
             PROVE  /\ \A o \in DOMAIN data : data[o] # Hole
                    /\ \A r \in Rank : \A v \in RecVar : \A k \in 0 .. NRecs - 1 :
                         Posts(r, v) /\ PutLen[r][v] > 0 =>
                           <<r, v, k, 1>> \in {data[o] : o \in DOMAIN data}
                    /\ \A o \in DOMAIN data : data[o][2] \in RecVar => data[o][3] < header
  BY DEF FileComplete
<1>1. /\ \A r \in Rank : IsStored(r, data, start[r], BlobLen(r))
      /\ \A o \in DOMAIN data : \E r \in Rank : \E m \in 1 .. BlobLen(r) :
           data[o] = Blob(r)[m]
  BY WrittenFile
<1>2. ASSUME NEW o \in DOMAIN data
      PROVE  \E r \in Rank : \E v \in Var : \E i \in 1 .. RecsOf(r, v) : \E b \in Nat :
               data[o] = <<r, v, i - 1, b>>
  <2>1. PICK r \in Rank : \E m \in 1 .. BlobLen(r) : data[o] = Blob(r)[m]
    BY <1>1
  <2>2. PICK m \in 1 .. BlobLen(r) : data[o] = Blob(r)[m]
    BY <2>1
  <2>3. PICK v \in Var : \E i \in 1 .. RecsOf(r, v) : \E b \in 1 .. PutLen[r][v] :
          m = Place(r, v, i, b)
    BY BlobIs
  <2>4. PICK i \in 1 .. RecsOf(r, v), b \in 1 .. PutLen[r][v] : m = Place(r, v, i, b)
    BY <2>3
  <2>5. Blob(r)[m] = <<r, v, i - 1, b>>
    BY <2>4, BlobIs
  <2>6. b \in Nat
    BY PutLenType
  <2> QED
    BY <2>2, <2>5, <2>6
<1>3. \A o \in DOMAIN data : data[o] # Hole
  <2> SUFFICES ASSUME NEW o \in DOMAIN data PROVE data[o] # <<>>
    BY DEF Hole
  <2>1. PICK r \in Rank : \E v \in Var : \E i \in 1 .. RecsOf(r, v) : \E b \in Nat :
          data[o] = <<r, v, i - 1, b>>
    BY <1>2
  <2>2. PICK v \in Var : \E i \in 1 .. RecsOf(r, v) : \E b \in Nat :
          data[o] = <<r, v, i - 1, b>>
    BY <2>1
  <2>3. PICK i, b : data[o] = <<r, v, i - 1, b>>
    BY <2>2
  <2>4. Len(data[o]) = 4 /\ Len(<<>>) = 0
    BY <2>3
  <2> QED
    BY <2>4
<1>4. ASSUME NEW r \in Rank, NEW v \in RecVar, NEW k \in 0 .. NRecs - 1,
             Posts(r, v), PutLen[r][v] > 0
      PROVE  <<r, v, k, 1>> \in {data[o] : o \in DOMAIN data}
  <2>1. v \in Var /\ NRecs \in Nat
    BY CaseAssumption
  <2>2. k + 1 \in 1 .. RecsOf(r, v) /\ (k + 1) - 1 = k
    BY <1>4, <2>1 DEF RecsOf
  <2>3. 1 \in 1 .. PutLen[r][v]
    BY <1>4, <2>1, PutLenType
  <2> DEFINE m == Place(r, v, k + 1, 1)
  <2>4. m \in 1 .. BlobLen(r) /\ Blob(r)[m] = <<r, v, (k + 1) - 1, 1>>
    BY <2>1, <2>2, <2>3, BlobIs
  <2> HIDE DEF m
  <2>5. start[r] + m - 1 \in DOMAIN data /\ data[start[r] + m - 1] = Blob(r)[m]
    BY <1>1, <2>4 DEF IsStored
  <2> QED
    BY <2>2, <2>4, <2>5
<1>5. ASSUME NEW o \in DOMAIN data, data[o][2] \in RecVar PROVE data[o][3] < header
  <2>1. PICK r \in Rank : \E v \in Var : \E i \in 1 .. RecsOf(r, v) : \E b \in Nat :
          data[o] = <<r, v, i - 1, b>>
    BY <1>2
  <2>0. PICK v \in Var : \E i \in 1 .. RecsOf(r, v) : \E b \in Nat :
          data[o] = <<r, v, i - 1, b>>
    BY <2>1
  <2>2. PICK i \in 1 .. RecsOf(r, v) : \E b \in Nat : data[o] = <<r, v, i - 1, b>>
    BY <2>0
  <2>3. v \in RecVar /\ data[o][3] = i - 1 /\ NRecs \in Nat
    BY <1>5, <2>2, CaseAssumption
  <2>4. i <= NRecs /\ i \in Nat
    BY <2>2, <2>3 DEF RecsOf
  <2>5. 0 \in Rank /\ Posts(0, v)
    BY CaseAssumption DEF Rank, Posts
  <2>6. /\ rec[0] \in Step /\ cur[0] \in 0 .. NVars
        /\ rec[0] = NRecs - 1 /\ Remaining(0, rec[0], cur[0]) = {}
        /\ SoFar(0, v, rec[0], cur[0]) <= numrecs[0]
    BY <2>3, <2>5 DEF BlobType, CacheInv, CacheOf, Posted
  <2>7. SoFar(0, v, rec[0], cur[0]) = RecsOf(0, v)
    BY <2>2, <2>5, <2>6, SoFarMoves
  <2>8. RecsOf(0, v) = NRecs
    BY <2>3, <2>5 DEF RecsOf
  <2>9. header = numrecs[0] /\ numrecs[0] \in Nat
    BY <2>5 DEF DataInv, BlobType
  <2> QED
    BY <2>3, <2>4, <2>6, <2>7, <2>8, <2>9
<1> QED
  BY <1>3, <1>4, <1>5

\* The closed file has no hole, holds every record of every rank that has
\* bytes of it, and its header counts them all.
THEOREM FileIsComplete == Spec => []FileComplete
BY WrittenComplete, BlobTyped, SumsHold, StartsHold, CachesHold, DataHold, PTL

-----------------------------------------------------------------------------
(* All ranks pack the same header: each makes the definitions of the same  *)
(* schema, one by one, however far the others are.                         *)

Define(h, c) == IF c.op = "dim" THEN AddDim(h, c)
                ELSE IF c.op = "var" THEN AddVar(h, c) ELSE PutAttr(h, c)

\* The headers that the first n definitions of s make.
IsHistory(f, s, n) ==
  /\ f[0] = NoHeader
  /\ \A i \in 1 .. n : f[i] = Define(f[i - 1], s[i])

LEMMA HistoryExists ==
  ASSUME NEW s, NEW n \in Nat
  PROVE  \E f : IsHistory(f, s, n)
<1> DEFINE D == {k \in Nat : \E f : IsHistory(f, s, k)}
<1>1. 0 \in D
  <2> DEFINE f == [i \in {0} |-> NoHeader]
  <2>1. IsHistory(f, s, 0)
    BY DEF IsHistory
  <2> QED
    BY <2>1
<1>2. ASSUME NEW k \in Nat, k \in D PROVE k + 1 \in D
  <2>1. PICK g : IsHistory(g, s, k)
    BY <1>2
  <2> DEFINE f == [i \in 0 .. k + 1 |-> IF i <= k THEN g[i] ELSE Define(g[k], s[k + 1])]
  <2>2. f[0] = NoHeader
    BY <2>1 DEF IsHistory
  <2>3. ASSUME NEW i \in 1 .. k + 1 PROVE f[i] = Define(f[i - 1], s[i])
    <3>1. CASE i = k + 1
      <4>1. i \in 0 .. k + 1 /\ ~(i <= k) /\ i - 1 = k /\ k \in 0 .. k + 1 /\ k <= k
        BY <3>1
      <4>2. f[i] = Define(g[k], s[k + 1]) /\ f[i - 1] = g[k]
        BY <4>1
      <4> HIDE DEF f
      <4> QED
        BY <3>1, <4>2
    <3>2. CASE i # k + 1
      <4>1. /\ i \in 0 .. k + 1 /\ i <= k /\ i - 1 \in 0 .. k + 1 /\ i - 1 <= k
            /\ i \in 1 .. k
        BY <3>2
      <4>2. f[i] = g[i] /\ f[i - 1] = g[i - 1]
        BY <4>1
      <4> HIDE DEF f
      <4> QED
        BY <2>1, <4>1, <4>2 DEF IsHistory
    <3> QED
      BY <3>1, <3>2
  <2> HIDE DEF f
  <2>4. IsHistory(f, s, k + 1)
    BY <2>2, <2>3 DEF IsHistory
  <2> QED
    BY <2>4
<1> HIDE DEF D
<1>3. \A k \in Nat : k \in D
  BY <1>1, <1>2, SetInduction
<1> QED
  BY <1>3 DEF D

\* A rank that has made the first definitions of schema s, whose headers are f.
DefsOf(s, f, pcr, ds, h, len) ==
  /\ \E j \in 0 .. Len(s) :
       /\ Len(ds) = Len(s) - j
       /\ \A i \in 1 .. Len(ds) : ds[i] = s[j + i]
       /\ pcr \notin Scanned => h = f[j]
  /\ pcr # "post" => ds = <<>>
  /\ pcr \in Scanned => len = BufLen(f[Len(s)])

History(s) == CHOOSE f : IsHistory(f, s, Len(s))

DefInv ==
  \E s \in Schemas : \A r \in Rank :
    DefsOf(s, History(s), pc[r], defs[r], nc[r], headerLen[r])

LEMMA SchemaSeq ==
  ASSUME NEW s \in Schemas
  PROVE  s \in Seq(DefCall) /\ Len(s) \in Nat /\ IsHistory(History(s), s, Len(s))
<1>1. s \in Seq(DefCall)
  BY SchemaAssumption
<1>2. Len(s) \in Nat
  BY <1>1
<1>3. \E f : IsHistory(f, s, Len(s))
  BY <1>2, HistoryExists
<1> QED
  BY <1>1, <1>2, <1>3 DEF History

LEMMA InitDefs == Init => DefInv
<1> SUFFICES ASSUME Init PROVE DefInv
  OBVIOUS
<1>1. PICK s \in Schemas : defs = [r \in Rank |-> s]
  BY DEF Init
<1>2. s \in Seq(DefCall) /\ Len(s) \in Nat
  BY SchemaSeq
<1> DEFINE f == History(s)
<1>3. IsHistory(f, s, Len(s))
  BY SchemaSeq
<1> HIDE DEF f
<1>4. ASSUME NEW r \in Rank PROVE DefsOf(s, f, pc[r], defs[r], nc[r], headerLen[r])
  <2>1. pc[r] = "post" /\ nc[r] = NoHeader /\ defs[r] = s
    BY <1>1 DEF Init
  <2>2. /\ 0 \in 0 .. Len(s) /\ Len(s) = Len(s) - 0
        /\ \A i \in 1 .. Len(s) : s[i] = s[0 + i]
        /\ f[0] = NoHeader
    BY <1>2, <1>3 DEF IsHistory
  <2>3. \E j \in 0 .. Len(s) :
          /\ Len(defs[r]) = Len(s) - j
          /\ \A i \in 1 .. Len(defs[r]) : defs[r][i] = s[j + i]
          /\ pc[r] \notin Scanned => nc[r] = f[j]
    BY <2>1, <2>2
  <2> QED
    BY <2>1, <2>3 DEF DefsOf, Scanned, Reduced, Contributed
<1> QED
  BY <1>4 DEF DefInv, f

\* A step of one rank.
LEMMA OneDefs ==
  ASSUME NEW s \in Schemas,
         \A q \in Rank : DefsOf(s, History(s), pc[q], defs[q], nc[q], headerLen[q]),
         NEW r \in Rank, DefsOf(s, History(s), pc'[r], defs'[r], nc'[r], headerLen'[r]),
         \A q \in Rank \ {r} : /\ pc'[q] = pc[q] /\ defs'[q] = defs[q]
                              /\ nc'[q] = nc[q] /\ headerLen'[q] = headerLen[q]
  PROVE  DefInv'
<1>1. ASSUME NEW q \in Rank
      PROVE  DefsOf(s, History(s), pc'[q], defs'[q], nc'[q], headerLen'[q])
  <2>1. CASE q = r
    BY <2>1
  <2>2. CASE q # r
    BY <2>2
  <2> QED
    BY <2>1, <2>2
<1> QED
  BY <1>1 DEF DefInv

LEMMA MakesDefs ==
  ASSUME HeadInv, BlobType, DefInv, NEW r \in Rank, Makes(r)
  PROVE  DefInv'
<1>0. PICK s \in Schemas : \A q \in Rank :
        DefsOf(s, History(s), pc[q], defs[q], nc[q], headerLen[q])
  BY DEF DefInv
<1> DEFINE c == Head(defs[r])
           d == defs[r]
           f == History(s)
<1>1. /\ IsHistory(f, s, Len(s))
      /\ \A q \in Rank : DefsOf(s, f, pc[q], defs[q], nc[q], headerLen[q])
  BY <1>0, SchemaSeq
<1> HIDE DEF f
<1>2. d \in Seq(DefCall) /\ d # <<>> /\ Len(s) \in Nat
  BY SchemaSeq DEF HeadInv, HeaderType, Makes, DefDim, DefVar, PutAtt, Defines
<1>3. pc[r] = "post" /\ pc[r] \notin Scanned
  BY <1>1, <1>2 DEF DefsOf, Scanned, Reduced, Contributed
<1>4. /\ nc' = [nc EXCEPT ![r] = Define(nc[r], c)]
      /\ defs' = [defs EXCEPT ![r] = Tail(d)]
      /\ UNCHANGED <<headerLen, pc>>
  <2>1. CASE DefDim(r)
    BY <2>1 DEF DefDim, Defines, Defined, Define, ctlVars
  <2>2. CASE DefVar(r)
    <3>1. Define(nc[r], c) = AddVar(nc[r], c)
      BY <2>2 DEF DefVar, Defines, Define
    <3> QED
      BY <2>2, <3>1 DEF DefVar, Defined, ctlVars
  <2>3. CASE PutAtt(r)
    <3>1. Define(nc[r], c) = PutAttr(nc[r], c)
      BY <2>3 DEF PutAtt, Defines, Define
    <3> QED
      BY <2>3, <3>1 DEF PutAtt, Defined, ctlVars
  <2> QED
    BY <2>1, <2>2, <2>3 DEF Makes
<1>5. PICK j \in 0 .. Len(s) :
        /\ Len(d) = Len(s) - j
        /\ \A i \in 1 .. Len(d) : d[i] = s[j + i]
        /\ nc[r] = f[j]
  BY <1>1, <1>3 DEF DefsOf
<1>6. /\ nc'[r] = Define(nc[r], c) /\ defs'[r] = Tail(d) /\ pc'[r] = "post"
      /\ \A q \in Rank \ {r} : /\ pc'[q] = pc[q] /\ defs'[q] = defs[q]
                               /\ nc'[q] = nc[q] /\ headerLen'[q] = headerLen[q]
  BY <1>3, <1>4 DEF HeadInv, HeaderType
<1> HIDE DEF d
<1>7. /\ Len(d) \in Nat /\ Len(d) >= 1 /\ Len(Tail(d)) = Len(d) - 1
      /\ \A i \in 1 .. Len(Tail(d)) : Tail(d)[i] = d[i + 1]
      /\ Head(d) = d[1]
  BY <1>2
<1>8. j + 1 \in 0 .. Len(s) /\ j + 1 \in 1 .. Len(s) /\ (j + 1) - 1 = j /\ 1 \in 1 .. Len(d)
  <2>1. j \in 0 .. Len(s) /\ Len(d) = Len(s) - j /\ Len(d) \in Nat /\ Len(d) >= 1
    BY <1>5, <1>7
  <2> QED
    BY ONLY <1>2, <2>1
<1>9. nc'[r] = f[j + 1]
  <2>1. c = s[j + 1]
    BY <1>5, <1>7, <1>8 DEF d
  <2>2. f[j + 1] = Define(f[(j + 1) - 1], s[j + 1])
    BY <1>1, <1>8 DEF IsHistory
  <2> HIDE DEF c
  <2> QED
    BY <1>5, <1>6, <1>8, <2>1, <2>2
<1>10. /\ Len(Tail(d)) = Len(s) - (j + 1)
       /\ \A i \in 1 .. Len(Tail(d)) : Tail(d)[i] = s[(j + 1) + i]
  <2>1. ASSUME NEW i \in 1 .. Len(Tail(d)) PROVE Tail(d)[i] = s[(j + 1) + i]
    <3>1. i + 1 \in 1 .. Len(d) /\ j + (i + 1) = (j + 1) + i
      BY <1>7, <1>8
    <3> QED
      BY <1>5, <1>7, <3>1
  <2> QED
    BY <1>2, <1>5, <1>7, <2>1
<1>11. DefsOf(s, f, pc'[r], defs'[r], nc'[r], headerLen'[r])
  BY <1>3, <1>6, <1>8, <1>9, <1>10 DEF DefsOf, Scanned, Reduced, Contributed
<1> QED
  BY <1>0, <1>6, <1>11, OneDefs DEF f

LEMMA NextDefs == HeadInv /\ BlobType /\ DefInv /\ [Next]_vars => DefInv'
<1> SUFFICES ASSUME HeadInv, BlobType, DefInv, [Next]_vars PROVE DefInv'
  OBVIOUS
<1>0. CASE UNCHANGED <<pc, hdrVars>>
  BY <1>0 DEF DefInv, hdrVars
<1>1. ASSUME NEW r \in Rank, RankNext(r), ~Makes(r) PROVE DefInv'
  <2>1. PICK s \in Schemas : \A q \in Rank :
          DefsOf(s, History(s), pc[q], defs[q], nc[q], headerLen[q])
    BY DEF DefInv
  <2> DEFINE f == History(s)
  <2>2. CASE EndExscan(r)
    <3>1. /\ pc[r] = "exscan" /\ defs' = defs
          /\ headerLen' = [headerLen EXCEPT ![r] = BufLen(nc[r])]
          /\ nc' = [nc EXCEPT ![r] = NoHeader] /\ pc' = [pc EXCEPT ![r] = "create"]
      BY <2>2 DEF EndExscan
    <3>2. /\ \A q \in Rank \ {r} : /\ pc'[q] = pc[q] /\ defs'[q] = defs[q]
                                   /\ nc'[q] = nc[q] /\ headerLen'[q] = headerLen[q]
          /\ pc'[r] = "create" /\ defs'[r] = defs[r] /\ headerLen'[r] = BufLen(nc[r])
      BY <3>1 DEF HeadInv, HeaderType, BlobType
    <3>3. defs[r] = <<>> /\ DefsOf(s, f, pc[r], defs[r], nc[r], headerLen[r])
      BY <2>1, <3>1 DEF DefsOf
    <3>4. PICK j \in 0 .. Len(s) :
            /\ Len(defs[r]) = Len(s) - j
            /\ \A i \in 1 .. Len(defs[r]) : defs[r][i] = s[j + i]
            /\ nc[r] = f[j]
      BY <3>1, <3>3 DEF DefsOf, Scanned
    <3>5. j = Len(s)
      BY <3>3, <3>4, SchemaSeq
    <3>6. "create" \in Scanned /\ "create" # "post"
      BY DEF Scanned, Reduced, Contributed
    <3>7. headerLen'[r] = BufLen(f[Len(s)])
      BY <3>2, <3>4, <3>5
    <3>8. \E k \in 0 .. Len(s) :
            /\ Len(defs'[r]) = Len(s) - k
            /\ \A i \in 1 .. Len(defs'[r]) : defs'[r][i] = s[k + i]
            /\ pc'[r] \notin Scanned => nc'[r] = f[k]
      BY <3>2, <3>4, <3>6
    <3>9. DefsOf(s, f, pc'[r], defs'[r], nc'[r], headerLen'[r])
      BY <3>2, <3>3, <3>6, <3>7, <3>8 DEF DefsOf
    <3> QED
      BY <2>1, <3>2, <3>9, OneDefs
  <2>3. CASE ~EndExscan(r)
    <3>1. UNCHANGED hdrVars
      BY <1>1, <2>3 DEF RankNext, Makes, PutVara, EndStep, Flush, BeginClose,
         EndAllreduce, CreateDatasets, WriteBlob, WriteHeader, EndClose
    <3>2. /\ \A q \in Rank \ {r} : pc'[q] = pc[q]
          /\ pc'[r] \in Scanned <=> pc[r] \in Scanned
      BY <1>1, <2>3 DEF RankNext, Makes, PutVara, EndStep, Flush, NextStep, BeginClose,
         EndAllreduce, CreateDatasets, WriteBlob, WriteHeader, EndClose, BlobType,
         Scanned, Reduced, Contributed
    <3>3. pc'[r] # "post" => pc[r] # "post" \/ defs[r] = <<>>
      BY <1>1, <2>3 DEF RankNext, Makes, PutVara, EndStep, Flush, NextStep, BeginClose,
         EndAllreduce, CreateDatasets, WriteBlob, WriteHeader, EndClose, BlobType
    <3>4. DefsOf(s, f, pc[r], defs[r], nc[r], headerLen[r])
      BY <2>1
    <3>5. DefsOf(s, f, pc'[r], defs'[r], nc'[r], headerLen'[r])
      BY <3>1, <3>2, <3>3, <3>4 DEF DefsOf, hdrVars
    <3> QED
      BY <2>1, <3>1, <3>2, <3>5, OneDefs DEF hdrVars
  <2> QED
    BY <2>2, <2>3
<1>2. CASE Combine \/ UNCHANGED vars
  BY <1>0, <1>2 DEF Combine, vars, ctlVars
<1> QED
  BY <1>1, <1>2, MakesDefs DEF Next, Finished

LEMMA DefsHold == Spec => []DefInv
<1>1. Spec => []HeadInv
  BY InitHead, NextHead, PTL DEF Spec
<1> QED
  BY <1>1, InitDefs, NextDefs, BlobTyped, PTL DEF Spec

\* A rank has counted its region when it has written it, and rank 0 the header
\* when it has written that.
AmountOf(r, pcr, am, len, hlen) ==
  am = (IF pcr \in AfterWrite THEN len ELSE 0)
         + (IF r = 0 /\ pcr \in {"fclose", "done"} THEN hlen ELSE 0)

AmountInv == \A r \in Rank : AmountOf(r, pc[r], amount[r], totalLen[r], headerLen[r])

LEMMA InitAmounts == Init => AmountInv
BY DEF Init, AmountInv, AmountOf, AfterWrite

LEMMA NextAmounts ==
  HeadInv /\ BlobType /\ CacheInv /\ AmountInv /\ [Next]_vars => AmountInv'
<1> SUFFICES ASSUME HeadInv, BlobType, CacheInv, AmountInv, [Next]_vars PROVE AmountInv'
  OBVIOUS
<1>1. CASE UNCHANGED <<pc, totalLen, headerLen, amount>>
  BY <1>1 DEF AmountInv
<1>2. ASSUME NEW r \in Rank, RankNext(r), ~Makes(r) PROVE AmountInv'
  <2>1. AmountOf(r, pc[r], amount[r], totalLen[r], headerLen[r])
    BY DEF AmountInv
  <2>2. /\ headerLen \in [Rank -> Nat] /\ amount \in [Rank -> Nat]
        /\ totalLen \in [Rank -> Nat]
    BY DEF HeadInv, HeaderType, BlobType
  <2>3. \A q \in Rank \ {r} : /\ pc'[q] = pc[q] /\ amount'[q] = amount[q]
                             /\ totalLen'[q] = totalLen[q]
                             /\ headerLen'[q] = headerLen[q]
    BY <1>2, <2>2 DEF RankNext, Makes, PutVara, EndStep, Flush, NextStep, BeginClose,
       EndAllreduce, EndExscan, CreateDatasets, WriteBlob, WriteHeader, EndClose,
       BlobType, hdrVars, putVars, fileVars
  <2>4. AmountOf(r, pc'[r], amount'[r], totalLen'[r], headerLen'[r])
    <3>1. CASE \/ PutVara(r) \/ EndStep(r) \/ Flush(r) \/ BeginClose(r)
               \/ EndAllreduce(r) \/ EndExscan(r) \/ CreateDatasets(r)
      <4>1. /\ amount' = amount
            /\ pc[r] \notin AfterWrite /\ pc[r] \notin {"fclose", "done"}
            /\ pc'[r] \notin AfterWrite /\ pc'[r] \notin {"fclose", "done"}
        BY <3>1 DEF PutVara, EndStep, Flush, NextStep, BeginClose, EndAllreduce,
           EndExscan, CreateDatasets, BlobType, fileVars, AfterWrite
      <4> QED
        BY <2>1, <4>1 DEF AmountOf
    <3>2. CASE WriteBlob(r)
      <4>1. /\ pc[r] = "write" /\ pc'[r] = "head" /\ amount'[r] = amount[r] + totalLen[r]
            /\ UNCHANGED <<totalLen, headerLen>>
        BY <2>2, <3>2, WriteBlobIs DEF WriteBlob, BlobType
      <4> QED
        BY <2>1, <2>2, <4>1 DEF AmountOf, AfterWrite
    <3>3. CASE WriteHeader(r)
      <4>1. /\ pc[r] = "head" /\ pc'[r] = "fclose"
            /\ amount'[r] = amount[r] + HeaderAmount(r)
            /\ UNCHANGED <<totalLen, headerLen>>
        BY <2>2, <3>3 DEF WriteHeader, BlobType, putVars, hdrVars
      <4> QED
        BY <2>1, <2>2, <4>1 DEF AmountOf, AfterWrite, HeaderAmount
    <3>4. CASE EndClose(r)
      <4>1. /\ pc[r] = "fclose" /\ pc'[r] = "done"
            /\ UNCHANGED <<amount, totalLen, headerLen>>
        BY <3>4 DEF EndClose, BlobType, putVars, hdrVars, fileVars
      <4> QED
        BY <2>1, <4>1 DEF AmountOf, AfterWrite
    <3> QED
      BY <1>2, <3>1, <3>2, <3>3, <3>4 DEF RankNext, Makes
  <2>5. ASSUME NEW q \in Rank
        PROVE  AmountOf(q, pc'[q], amount'[q], totalLen'[q], headerLen'[q])
    <3>1. CASE q = r
      BY <2>4, <3>1
    <3>2. CASE q # r
      BY <2>3, <3>2 DEF AmountInv
    <3> QED
      BY <3>1, <3>2
  <2> QED
    BY <2>5 DEF AmountInv
<1>3. ASSUME NEW r \in Rank, Makes(r) PROVE AmountInv'
  <2>1. UNCHANGED <<ctlVars, putVars, fileVars>> /\ headerLen' = headerLen
    BY <1>3, MakesKeeps DEF Makes, DefDim, DefVar, PutAtt, Defined
  <2> QED
    BY <1>1, <2>1 DEF ctlVars, putVars, fileVars
<1>4. CASE Combine \/ UNCHANGED vars
  BY <1>1, <1>4 DEF Combine, vars, ctlVars, hdrVars, putVars, fileVars
<1> QED
  BY <1>2, <1>3, <1>4 DEF Next, Finished

LEMMA AmountsAre ==
  /\ BlobType /\ SumInv /\ StartInv /\ CacheInv /\ DataInv /\ HeadInv /\ DefInv /\ AmountInv
  => AmountsAddUp
<1> SUFFICES ASSUME BlobType, SumInv, StartInv, CacheInv, DataInv, HeadInv, DefInv, AmountInv,
                    \A r \in Rank : pc[r] = "done", NEW q \in Rank
             PROVE  Total([i \in 1 .. NProcs |-> amount[i - 1]])
                      = Cardinality(DOMAIN data) + headerLen[q]
  BY DEF AmountsAddUp
<1> DEFINE x == [i \in 1 .. NProcs |-> amount[i - 1]]
           w == Contributions
           d == headerLen[q]
<1>1. /\ NProcs \in Nat /\ 1 \in 1 .. NProcs /\ 0 \in Rank /\ NProcs \in 0 .. NProcs
      /\ \A i \in 1 .. NProcs : i - 1 \in Rank
  BY CaseAssumption DEF Rank
<1>2. d \in Nat /\ headerLen[0] = d
  <2>1. PICK s \in Schemas : \A r \in Rank :
          DefsOf(s, History(s), pc[r], defs[r], nc[r], headerLen[r])
    BY DEF DefInv
  <2>2. \A r \in Rank : headerLen[r] = BufLen(History(s)[Len(s)])
    BY <2>1 DEF DefsOf, Scanned, Reduced, Contributed
  <2> QED
    BY <1>1, <2>2 DEF HeadInv, HeaderType
<1>3. \A r \in Rank : amount[r] = totalLen[r] + (IF r = 0 THEN d ELSE 0)
  BY <1>2 DEF AmountInv, AmountOf, AfterWrite, BlobType
<1>4. red = NProcs /\ psum[NProcs] \in Nat /\ DOMAIN data = 0 .. psum[NProcs] - 1
  BY WrittenFile
<1>5. IsPrefixSum(psum, w, NProcs) /\ w \in [1 .. NProcs -> Nat]
  BY <1>4, SumsAreTotal
<1>6. x \in [1 .. NProcs -> Nat]
  BY <1>1 DEF BlobType
<1>7. /\ x[1] = w[1] + d
      /\ \A i \in 1 .. NProcs : i # 1 => x[i] = w[i]
  <2>1. ASSUME NEW i \in 1 .. NProcs
        PROVE  x[i] = w[i] + (IF i = 1 THEN d ELSE 0)
    <3>1. x[i] = amount[i - 1] /\ w[i] = totalLen[i - 1] /\ i - 1 \in Rank
      BY <1>1 DEF Contributions
    <3>2. i - 1 = 0 <=> i = 1
      OBVIOUS
    <3> HIDE DEF x, w, d
    <3> QED
      BY <1>3, <3>1, <3>2
  <2>2. \A i \in 1 .. NProcs : w[i] \in Nat
    BY <1>5
  <2> HIDE DEF x, w, d
  <2> QED
    BY <1>1, <2>1, <2>2
<1> HIDE DEF x, w, d
<1>8. Prefix(x, NProcs)[NProcs] = Prefix(w, NProcs)[NProcs] + d
  BY <1>1, <1>2, <1>5, <1>6, <1>7, PrefixUpdate
<1>9. Prefix(w, NProcs)[NProcs] = psum[NProcs]
  <2>1. IsPrefixSum(Prefix(w, NProcs), w, NProcs)
    BY <1>1, <1>5, PrefixExists
  <2> QED
    BY <1>1, <1>5, <2>1, PrefixUnique
<1>10. Total(x) = Prefix(x, NProcs)[NProcs]
  <2>1. x \in Seq(Nat) /\ Len(x) = NProcs
    BY <1>1, <1>6, FcnIsSeq
  <2>2. PICK g : IsPrefixSum(g, x, NProcs) /\ Total(x) = g[NProcs]
    BY <2>1, TotalIsSum
  <2>3. IsPrefixSum(Prefix(x, NProcs), x, NProcs)
    BY <1>1, <1>6, PrefixExists
  <2>4. g[NProcs] = Prefix(x, NProcs)[NProcs]
    BY <1>1, <2>2, <2>3, PrefixUnique
  <2> QED
    BY <2>2, <2>4
<1>11. Cardinality(DOMAIN data) = psum[NProcs]
  <2>1. Cardinality(0 .. psum[NProcs] - 1) = psum[NProcs]
    BY <1>4, FS_Interval
  <2> QED
    BY <1>4, <2>1
<1>12. Total(x) = Cardinality(DOMAIN data) + d
  BY <1>8, <1>9, <1>10, <1>11
<1> QED
  BY <1>12 DEF x, d

\* The write amounts that the ranks report add up to the bytes of the two
\* datasets, and all ranks computed the same extent for the header's.
THEOREM AmountsAreExact == Spec => []AmountsAddUp
<1>1. Spec => []HeadInv
  BY InitHead, NextHead, PTL DEF Spec
<1>2. Spec => []AmountInv
  BY <1>1, InitAmounts, NextAmounts, BlobTyped, CachesHold, PTL DEF Spec
<1> QED
  BY <1>1, <1>2, AmountsAre, BlobTyped, SumsHold, StartsHold, CachesHold, DataHold,
     DefsHold, PTL

-----------------------------------------------------------------------------
(* The driver implements BlobStore.                                        *)

\* What BlobStore calls cached of a rank.
PutsUpTo(r, pcr, k, c) ==
  {p \in Var \X (0 .. NRecs) :
     PutLen[r][p[1]] > 0 /\ p[2] < InMemory(pcr, SoFar(r, p[1], k, c))}

LEMMA SoFarBounds ==
  ASSUME NEW r \in Rank, NEW v \in Var, NEW k \in Step, NEW c \in 0 .. NVars
  PROVE  SoFar(r, v, k, c) <= NRecs + 1
BY CaseAssumption DEF SoFar, Step, Var

LEMMA CachedIs ==
  ASSUME BlobType, CacheInv, NEW r \in Rank
  PROVE  Cached(r) = PutsUpTo(r, pc[r], rec[r], cur[r])
<1> DEFINE n(v) == InMemory(pc[r], SoFar(r, v, rec[r], cur[r]))
           W == {w \in Var : PutLen[r][w] > 0}
           recs(v) == ToSet(cache[r][v].buf) \ {None}
<1>1. rec[r] \in Step /\ cur[r] \in 0 .. NVars /\ NRecs \in Nat
  BY CaseAssumption DEF BlobType
<1>2. ASSUME NEW v \in Var PROVE recs(v) = 0 .. n(v) - 1 /\ n(v) \in Nat /\ n(v) <= NRecs + 1
  <2> DEFINE b == cache[r][v].buf
             m == n(v)
             a == cache[r][v].nalloc
  <2>1. m \in Nat /\ m <= NRecs + 1
    BY <1>1, SoFarType, SoFarBounds DEF InMemory
  <2>2. m <= a /\ \A i \in 1 .. a : b[i] = IF i <= m THEN i - 1 ELSE None
    BY DEF CacheInv, CacheOf, Holds
  <2>3. a \in Nat /\ DOMAIN b = 1 .. a
    BY DEF BlobType, IsVarBuf, VarBuf
  <2>4. recs(v) = {b[i] : i \in 1 .. a} \ {None}
    BY <2>3 DEF ToSet
  <2> HIDE DEF b, m, a, recs
  <2>5. ASSUME NEW x \in recs(v) PROVE x \in 0 .. m - 1
    <3>1. PICK i \in 1 .. a : x = b[i] /\ b[i] # None
      BY <2>4
    <3> QED
      BY <2>1, <2>2, <2>3, <3>1
  <2>6. ASSUME NEW x \in 0 .. m - 1 PROVE x \in recs(v)
    <3>1. x + 1 \in 1 .. a /\ x + 1 <= m /\ (x + 1) - 1 = x /\ x # None
      BY <2>1, <2>2, <2>3 DEF None
    <3>2. b[x + 1] = x
      BY <2>2, <3>1
    <3> QED
      BY <2>4, <3>1, <3>2
  <2>7. recs(v) = 0 .. m - 1
    BY <2>5, <2>6
  <2> QED
    BY <2>1, <2>7 DEF m
<1>3. Cached(r) = UNION {{v} \X recs(v) : v \in W}
  BY DEF Cached
<1> HIDE DEF recs
<1>4. ASSUME NEW x \in Cached(r) PROVE x \in PutsUpTo(r, pc[r], rec[r], cur[r])
  <2>1. PICK v \in W : x \in {v} \X recs(v)
    BY <1>3
  <2>2. PICK k \in recs(v) : x = <<v, k>>
    BY <2>1
  <2>3. v \in Var /\ PutLen[r][v] > 0
    BY <2>1
  <2>4. k \in 0 .. n(v) - 1 /\ n(v) \in Nat /\ n(v) <= NRecs + 1
    BY <1>2, <2>2, <2>3
  <2> HIDE DEF n
  <2>5. k \in 0 .. NRecs /\ k < n(v)
    BY <1>1, <2>4
  <2>6. x \in Var \X (0 .. NRecs) /\ x[1] = v /\ x[2] = k
    BY <2>2, <2>3, <2>5
  <2> QED
    BY <2>3, <2>5, <2>6 DEF PutsUpTo, n
<1>5. ASSUME NEW x \in PutsUpTo(r, pc[r], rec[r], cur[r]) PROVE x \in Cached(r)
  <2>1. /\ x \in Var \X (0 .. NRecs)
        /\ PutLen[r][x[1]] > 0
        /\ x[2] < n(x[1])
    BY DEF PutsUpTo
  <2>2. PICK v \in Var, k \in 0 .. NRecs : x = <<v, k>>
    BY <2>1
  <2>3. PutLen[r][v] > 0 /\ k < n(v)
    BY <2>1, <2>2
  <2>4. n(v) \in Nat /\ recs(v) = 0 .. n(v) - 1
    BY <1>2
  <2> HIDE DEF n
  <2>5. k \in recs(v) /\ v \in W
    BY <1>1, <2>3, <2>4
  <2> QED
    BY <1>3, <2>2, <2>5
<1> QED
  BY <1>4, <1>5

\* What a rank has stored can be read back, all of it.
StoredInv == \A r \in HasStored : Readable(r) = Puts(r)

LEMMA StoredIs == BlobType /\ StartInv /\ CacheInv /\ DataInv => StoredInv
<1> SUFFICES ASSUME BlobType, StartInv, CacheInv, DataInv, NEW r \in HasStored, NEW p \in Puts(r),
                    NEW b \in 1 .. PutLen[r][p[1]]
             PROVE  /\ Offset(r, p) + b - 1 \in DOMAIN data
                    /\ data[Offset(r, p) + b - 1] = <<r, p[1], p[2], b>>
  BY DEF StoredInv, Readable
<1>1. r \in Rank /\ pc[r] \in AfterWrite
  BY DEF HasStored, AfterWrite
<1>2. PICK v \in Var, k \in 0 .. NRecs : p = <<v, k>>
  BY DEF Puts
<1>3. PutLen[r][v] > 0 /\ k < RecsOf(r, v)
  BY <1>2 DEF Puts
<1>4. /\ rec[r] \in Step /\ cur[r] \in 0 .. NVars
      /\ rec[r] = NRecs - 1 /\ Remaining(r, rec[r], cur[r]) = {}
      /\ totalLen[r] = LenSoFar(r, rec[r], cur[r])
  BY <1>1 DEF BlobType, CacheInv, CacheOf, Posted, AfterWrite
<1>5. totalLen[r] = BlobLen(r)
  BY <1>1, <1>4, SoFarEnds
<1>6. IsStored(r, data, start[r], BlobLen(r))
  BY <1>1, <1>5 DEF DataInv
<1>7. start[r] \in Nat
  <2>1. start[r] # None
    BY <1>1 DEF StartInv, AfterWrite, Scanned, Reduced, Contributed
  <2> QED
    BY <1>1, <2>1 DEF BlobType
<1>8. k + 1 \in 1 .. RecsOf(r, v) /\ (k + 1) - 1 = k /\ b \in 1 .. PutLen[r][v] /\ k \in Nat
  BY <1>1, <1>2, <1>3, PutLenType, CaseAssumption
<1> DEFINE m == Place(r, v, k + 1, b)
<1>9. m \in 1 .. BlobLen(r) /\ Blob(r)[m] = <<r, v, k, b>>
  BY <1>1, <1>8, BlobIs
<1>10. Offset(r, p) + b - 1 = start[r] + m - 1
  <2> DEFINE x == Before(r, v)
             y == k * PutLen[r][v]
  <2>1. x \in Nat /\ y \in Nat /\ b \in Nat
    BY <1>1, <1>8, LensType, PutLenType
  <2>2. p[1] = v /\ p[2] = k
    BY <1>2
  <2>3. Offset(r, p) = start[r] + x + y
    BY <1>1, <2>2, TotalBefore DEF Offset
  <2>4. m = x + (y + b)
    BY <1>8 DEF Place
  <2> HIDE DEF x, y, m
  <2> QED
    BY <1>7, <2>1, <2>3, <2>4
<1> HIDE DEF m
<1>11. start[r] + m - 1 \in DOMAIN data /\ data[start[r] + m - 1] = Blob(r)[m]
  BY <1>6, <1>9 DEF IsStored
<1> QED
  BY <1>2, <1>9, <1>10, <1>11

CachedInv == \A r \in Rank : Cached(r) = PutsUpTo(r, pc[r], rec[r], cur[r])

LEMMA PutMapped ==
  ASSUME BlobType, CachedInv, CachedInv', PutsInv', NEW r \in Rank, PutVara(r)
  PROVE  \/ Cached(r)' = Cached(r)
         \/ \E w \in Var \X (0 .. NRecs) :
              w \notin Cached(r) /\ Cached(r)' = Cached(r) \cup {w}
<1> DEFINE k == rec[r]
           c == cur[r]
<1>1. PICK v \in Var : IsNext(v, r, rec[r], cur[r]) /\ cur' = [cur EXCEPT ![r] = v]
  BY DEF PutVara
<1>2. /\ pc[r] = "post" /\ rec' = rec
      /\ pc'[r] \in {"post", "thrown", "overrun"}
  BY DEF PutVara, BlobType
<1>3. pc'[r] = "post" /\ cur'[r] = v /\ rec'[r] = k
  BY <1>1, <1>2 DEF PutsInv, PutsAccepted, BlobType
<1>4. /\ k \in Step /\ c \in 0 .. NVars /\ k \in Int /\ k <= NRecs - 1 /\ NRecs \in Nat
  BY CaseAssumption DEF BlobType, Step
<1>5. /\ SoFar(r, v, k, v) = SoFar(r, v, k, c) + 1
      /\ SoFar(r, v, k, c) = IF v \in RecVar THEN k ELSE 0
      /\ \A w \in Var \ {v} : SoFar(r, w, k, v) = SoFar(r, w, k, c)
  BY <1>1, <1>4, SoFarNext
<1>6. SoFar(r, v, k, c) \in Nat
  BY <1>4, SoFarType
<1>7. /\ Cached(r) = PutsUpTo(r, "post", k, c)
      /\ Cached(r)' = PutsUpTo(r, "post", k, v)
  BY <1>2, <1>3 DEF CachedInv
<1> HIDE DEF k, c
<1> DEFINE n == SoFar(r, v, k, c)
           w == <<v, n>>
<1>8. n \in 0 .. NRecs /\ w \in Var \X (0 .. NRecs) /\ w[1] = v /\ w[2] = n
  BY <1>4, <1>5, <1>6
<1>9. \A p : p \in PutsUpTo(r, "post", k, c) <=>
        p \in Var \X (0 .. NRecs) /\ PutLen[r][p[1]] > 0 /\ p[2] < SoFar(r, p[1], k, c)
  BY DEF PutsUpTo, InMemory
<1>10. \A p : p \in PutsUpTo(r, "post", k, v) <=>
         p \in Var \X (0 .. NRecs) /\ PutLen[r][p[1]] > 0 /\ p[2] < SoFar(r, p[1], k, v)
  BY DEF PutsUpTo, InMemory
<1>11. ASSUME NEW p \in Var \X (0 .. NRecs)
       PROVE  p[2] < SoFar(r, p[1], k, v) <=> p[2] < SoFar(r, p[1], k, c) \/ p = w
  <2>1. PICK u \in Var, j \in 0 .. NRecs : p = <<u, j>>
    OBVIOUS
  <2>2. CASE u = v
    <3>1. j < n + 1 <=> j < n \/ j = n
      BY <1>4, <1>6
    <3> HIDE DEF n
    <3> QED
      BY <1>5, <2>1, <2>2, <3>1 DEF n
  <2>3. CASE u # v
    BY <1>5, <2>1, <2>3
  <2> QED
    BY <2>2, <2>3
<1>12. w \notin PutsUpTo(r, "post", k, c)
  <2>1. ~(n < n)
    BY <1>6
  <2> HIDE DEF n
  <2>2. ~(w[2] < SoFar(r, w[1], k, c))
    BY <1>8, <2>1 DEF n
  <2> HIDE DEF w
  <2> QED
    BY <1>9, <2>2
<1> HIDE DEF n, w
<1>13. CASE PutLen[r][v] > 0
  <2>1. \A p : p \in PutsUpTo(r, "post", k, v) <=> p \in PutsUpTo(r, "post", k, c) \/ p = w
    BY <1>8, <1>9, <1>10, <1>11, <1>13
  <2>2. PutsUpTo(r, "post", k, v) = PutsUpTo(r, "post", k, c) \cup {w}
    BY <2>1
  <2> QED
    BY <1>7, <1>8, <1>12, <2>2
<1>14. CASE ~(PutLen[r][v] > 0)
  <2>1. \A p : p \in PutsUpTo(r, "post", k, v) <=> p \in PutsUpTo(r, "post", k, c)
    BY <1>8, <1>9, <1>10, <1>11, <1>14
  <2>2. PutsUpTo(r, "post", k, v) = PutsUpTo(r, "post", k, c)
    BY <2>1
  <2> QED
    BY <1>7, <2>2
<1> QED
  BY <1>13, <1>14

LEMMA WriteMapped ==
  ASSUME BlobType, CacheInv, CachedInv, CachedInv', NEW r \in Rank, WriteBlob(r)
  PROVE  Cached(r) = Puts(r) /\ Cached(r)' = {}
<1>1. pc[r] = "write" /\ pc'[r] = "head"
  BY WriteBlobIs DEF WriteBlob, BlobType
<1>2. /\ rec[r] \in Step /\ cur[r] \in 0 .. NVars
      /\ rec[r] = NRecs - 1 /\ Remaining(r, rec[r], cur[r]) = {}
  BY <1>1 DEF BlobType, CacheInv, CacheOf, Posted
<1>3. \A v \in Var : SoFar(r, v, rec[r], cur[r]) = RecsOf(r, v)
  BY <1>2, SoFarMoves
<1>4. Cached(r) = PutsUpTo(r, "write", rec[r], cur[r])
  BY <1>1 DEF CachedInv
<1>5. ASSUME NEW p \in Var \X (0 .. NRecs)
      PROVE  InMemory("write", SoFar(r, p[1], rec[r], cur[r])) = RecsOf(r, p[1])
  BY <1>3 DEF InMemory
<1>6. Cached(r) = Puts(r)
  BY <1>4, <1>5 DEF PutsUpTo, Puts
<1>7. Cached(r)' = PutsUpTo(r, "head", rec'[r], cur'[r])
  BY <1>1 DEF CachedInv
<1>8. \A p \in Var \X (0 .. NRecs) : ~(p[2] < 0)
  OBVIOUS
<1>9. PutsUpTo(r, "head", rec'[r], cur'[r]) = {}
  BY <1>8 DEF PutsUpTo, InMemory
<1> QED
  BY <1>6, <1>7, <1>9

LEMMA RankMapped ==
  ASSUME BlobType, SumInv, PutsInv', CacheInv, CachedInv, CachedInv', StoredInv, StoredInv',
         NEW r \in Rank, RankNext(r)
  PROVE  [Store!Next]_(Store!vars)
<1> DEFINE ca == [q \in Rank |-> Cached(q)]
           ca2 == [q \in Rank |-> Cached(q)']
           st == [q \in Rank |-> IF q \in HasStored THEN Readable(q) ELSE {}]
           st2 == [q \in Rank |-> IF q \in HasStored' THEN Readable(q)' ELSE {}]
           cl == HasStored
           cl2 == HasStored'
           Put == Var \X (0 .. NRecs)
<1> SUFFICES \/ ca2 = ca /\ st2 = st /\ cl2 = cl
             \/ /\ cl = {} /\ st2 = st /\ cl2 = cl
                /\ \E w \in Put : w \notin ca[r] /\ ca2 = [ca EXCEPT ![r] = @ \cup {w}]
             \/ /\ r \notin cl /\ cl2 = cl \cup {r}
                /\ st2 = [st EXCEPT ![r] = ca[r]]
                /\ ca2 = [ca EXCEPT ![r] = {}]
  BY DEF Store!Next, Store!vars, Store!Cache, Store!Store
<1>1. /\ st = [q \in Rank |-> IF q \in HasStored THEN Puts(q) ELSE {}]
      /\ st2 = [q \in Rank |-> IF q \in HasStored' THEN Puts(q) ELSE {}]
  <2>1. \A q \in HasStored : Readable(q) = Puts(q)
    BY DEF StoredInv
  <2>2. \A q \in HasStored' : Readable(q)' = Puts(q)
    BY DEF StoredInv, Puts, RecsOf, Posts
  <2> QED
    BY <2>1, <2>2
<1>2. /\ \A q : q \in HasStored <=> q \in Rank /\ pc[q] \in AfterWrite
      /\ \A q : q \in HasStored' <=> q \in Rank /\ pc'[q] \in AfterWrite
  BY DEF HasStored, AfterWrite
<1>3. CASE WriteBlob(r)
  <2>1. pc[r] = "write" /\ pc' = [pc EXCEPT ![r] = "head"]
        /\ cache' = [cache EXCEPT ![r] = [v \in Var |-> NoVarBuf]]
    BY <1>3, WriteBlobIs DEF WriteBlob
  <2>2. /\ pc'[r] = "head"
        /\ \A q \in Rank \ {r} : pc'[q] = pc[q] /\ cache'[q] = cache[q]
    BY <2>1 DEF BlobType
  <2>3. r \notin cl /\ cl2 = cl \cup {r}
    BY <1>2, <2>1, <2>2 DEF AfterWrite
  <2>4. \A q \in Rank \ {r} : Cached(q)' = Cached(q)
    BY <2>2 DEF Cached
  <2>5. Cached(r) = Puts(r) /\ Cached(r)' = {}
    BY <1>3, WriteMapped
  <2> HIDE DEF st, st2, cl, cl2
  <2>6. ca2 = [ca EXCEPT ![r] = {}]
    BY <2>4, <2>5
  <2>7. st2 = [st EXCEPT ![r] = ca[r]]
    BY <1>1, <2>3, <2>5 DEF cl, cl2
  <2> QED
    BY <2>3, <2>6, <2>7
<1>4. CASE ~WriteBlob(r)
  <2>1. cl2 = cl
    <3>1. \A q \in Rank : pc'[q] \in AfterWrite <=> pc[q] \in AfterWrite
      <4>1. CASE Makes(r)
        BY <4>1, MakesKeeps DEF ctlVars
      <4>2. CASE ~Makes(r)
        BY <1>4, <4>2 DEF RankNext, Makes, PutVara, EndStep, Flush, NextStep, BeginClose,
           EndAllreduce, EndExscan, CreateDatasets, WriteHeader, EndClose, BlobType,
           AfterWrite
      <4> QED
        BY <4>1, <4>2
    <3> QED
      BY <1>2, <3>1
  <2>2. st2 = st
    <3> HIDE DEF st, st2
    <3> QED
      BY <1>1, <2>1
  <2>3. CASE PutVara(r)
    <3>1. cl = {}
      <4> SUFFICES ASSUME NEW q \in HasStored PROVE FALSE
        OBVIOUS
      <4>1. q \in Rank /\ pc[q] \in Reduced
        BY <1>2 DEF AfterWrite, Reduced, Contributed
      <4>2. red = NProcs
        BY <4>1 DEF SumInv
      <4>3. r \in 0 .. red - 1
        BY <4>2, CaseAssumption DEF Rank
      <4>4. pc[r] \in Contributed /\ pc[r] = "post"
        BY <2>3, <4>3 DEF SumInv, PutVara
      <4> QED
        BY <4>4 DEF Contributed
    <3>2. \A q \in Rank \ {r} : Cached(q)' = Cached(q)
      <4>1. \A q \in Rank \ {r} : cache'[q] = cache[q]
        BY <2>3 DEF PutVara, BlobType
      <4> QED
        BY <4>1 DEF Cached
    <3>3. \/ Cached(r)' = Cached(r)
          \/ \E w \in Put : w \notin Cached(r) /\ Cached(r)' = Cached(r) \cup {w}
      BY <2>3, PutMapped
    <3> HIDE DEF st, st2, cl, cl2, Put
    <3>4. CASE Cached(r)' = Cached(r)
      <4>1. ca2 = ca
        BY <3>2, <3>4
      <4> QED
        BY <2>1, <2>2, <4>1
    <3>5. CASE \E w \in Put : w \notin Cached(r) /\ Cached(r)' = Cached(r) \cup {w}
      <4>1. PICK w \in Put : w \notin Cached(r) /\ Cached(r)' = Cached(r) \cup {w}
        BY <3>5
      <4>2. ca2 = [ca EXCEPT ![r] = @ \cup {w}] /\ w \notin ca[r]
        BY <3>2, <4>1
      <4> HIDE DEF ca, ca2
      <4> QED
        BY <2>1, <2>2, <3>1, <4>2
    <3> QED
      BY <3>3, <3>4, <3>5
  <2>4. CASE ~PutVara(r)
    <3>1. cache' = cache
      BY <1>4, <2>4, MakesKeeps DEF RankNext, Makes, EndStep, Flush, BeginClose,
         EndAllreduce, EndExscan, CreateDatasets, WriteHeader, EndClose, putVars
    <3>2. \A q \in Rank : Cached(q)' = Cached(q)
      BY <3>1 DEF Cached
    <3>3. ca2 = ca
      BY <3>2
    <3> HIDE DEF ca, ca2, st, st2, cl, cl2
    <3> QED
      BY <2>1, <2>2, <3>3
  <2> QED
    BY <2>3, <2>4
<1> QED
  BY <1>3, <1>4

\* The safety part of StoreSpec: nothing is cached once a rank has stored, and
\* storing moves into the file all that the rank put, where a reader finds it,
\* and leaves what the other ranks stored as it was.
StoreSafe == Store!Init /\ [][Store!Next]_(Store!vars)

THEOREM StoresSafely == Spec => StoreSafe
<1>1. Init => Store!Init
  <2> SUFFICES ASSUME Init PROVE Store!Init
    OBVIOUS
  <2>1. \A r \in Rank : Cached(r) = {}
    <3> SUFFICES ASSUME NEW r \in Rank, NEW x \in Cached(r) PROVE FALSE
      OBVIOUS
    <3>1. PICK v \in Var : x \in {v} \X (ToSet(cache[r][v].buf) \ {None})
      BY DEF Cached
    <3>2. cache[r][v].buf = [i \in 1 .. 0 |-> None]
      BY DEF Init, NoVarBuf
    <3>3. ToSet(cache[r][v].buf) = {}
      BY <3>2 DEF ToSet
    <3> QED
      BY <3>1, <3>3
  <2>2. HasStored = {}
    BY DEF Init, HasStored
  <2> QED
    BY <2>1, <2>2 DEF Store!Init
<1>2. /\ BlobType /\ SumInv /\ PutsInv' /\ CacheInv /\ CachedInv /\ CachedInv'
      /\ StoredInv /\ StoredInv' /\ [Next]_vars
      => [Store!Next]_(Store!vars)
  <2> SUFFICES ASSUME BlobType, SumInv, PutsInv', CacheInv, CachedInv, CachedInv',
                      StoredInv, StoredInv', [Next]_vars
               PROVE  [Store!Next]_(Store!vars)
    OBVIOUS
  <2>1. CASE UNCHANGED vars \/ Combine
    <3>1. UNCHANGED <<cache, data, pc, start>>
      BY <2>1 DEF vars, ctlVars, putVars, fileVars, Combine
    <3>2. \A r \in Rank : Cached(r)' = Cached(r) /\ Readable(r)' = Readable(r)
      BY <3>1 DEF Cached, Readable, Puts, Offset
    <3>3. HasStored' = HasStored
      BY <3>1 DEF HasStored
    <3> QED
      BY <3>2, <3>3 DEF Store!vars
  <2>2. CASE \E r \in Rank : RankNext(r)
    BY <2>2, RankMapped
  <2> QED
    BY <2>1, <2>2 DEF Next, Finished
<1>3. BlobType /\ CacheInv => CachedInv
  BY CachedIs DEF CachedInv
<1> QED
  BY <1>1, <1>2, <1>3, StoredIs, BlobTyped, SumsHold, PutsHold, StartsHold, CachesHold,
     DataHold, PTL DEF Spec, StoreSafe
=============================================================================
