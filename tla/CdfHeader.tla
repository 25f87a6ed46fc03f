------------------------------ MODULE CdfHeader ------------------------------
(***************************************************************************)
(* The header object in which the HDF5 blob driver keeps what a case       *)
(* defines, and its packing into one buffer in the CDF-5 format            *)
(* (src/src/drivers/blob_ncmpio.c).                                        *)
(*                                                                         *)
(* The size of the buffer comes from one traversal of the object           *)
(* (hdr_len_...), its contents from a second one (hdr_put_...) that moves  *)
(* a pointer and checks nothing.  Both are described by lengths in bytes;  *)
(* what the bytes say is left out, and so are names but for their lengths. *)
(***************************************************************************)
EXTENDS Integers, Sequences

CONSTANTS
  Name,     \* names of dimensions, variables and attributes
  NameLen,  \* strlen() of each
  ArrayGrowBy  \* NC_ARRAY_GROWBY, 64 in the code

ASSUME HeaderAssumption ==
  /\ NameLen \in [Name -> Nat]
  /\ ArrayGrowBy \in Nat \ {0}

X_ALIGN      == 4
NC_UNLIMITED == 0
NC_GLOBAL    == 0  \* variables are numbered from 1

\* _RNDUP(x, X_ALIGN)
RndUp(x) == ((x + X_ALIGN - 1) \div X_ALIGN) * X_ALIGN

\* The sum a loop over a list adds up.
Total(s) ==
  LET sum[k \in 0 .. Len(s)] == IF k = 0 THEN 0 ELSE sum[k - 1] + s[k]
  IN  sum[Len(s)]

XType == {"byte", "char", "short", "int", "float", "double", "int64"}

\* e3sm_io_xlen_nc_type(): the bytes of an element.
XLen(t) ==
  CASE t \in {"byte", "char"} -> 1
    [] t = "short"            -> 2
    [] t \in {"int", "float"} -> 4
    [] OTHER                  -> 8

\* x_len_NC_attrV(): the bytes of the values of an attribute, padded; by a
\* fault without the padding.
AttrVUnpadded(t, n) == n * XLen(t)
XLenAttrV(t, n) ==
  CASE t \in {"byte", "char"} -> RndUp(n)
    [] t = "short"            -> (n + (n % 2)) * 2
    [] t \in {"int", "float"} -> n * 4
    [] OTHER                  -> n * 8

-----------------------------------------------------------------------------
(* The object: arrays of dimensions, variables and attributes; attrs holds *)
(* the global attributes in its first place and behind them those of each  *)
(* variable.                                                               *)

NoArray == [value |-> <<>>, alloc |-> 0]

\* An array that is full by its length alone is reallocated, then the new
\* element stored behind the last.
Stored(a, x) ==
  LET n == Len(a.value)
  IN  [value |-> Append(a.value, x),
       alloc |-> IF n % ArrayGrowBy = 0 THEN n + ArrayGrowBy ELSE a.alloc]

NoHeader == [dims |-> NoArray, vars |-> NoArray, attrs |-> <<NoArray>>]

\* What the driver is asked to define.
DimCall == [op : {"dim"}, name : Name, size : Nat]
VarCall == [op : {"var"}, name : Name, type : XType, dims : Seq(Nat)]
AttCall == [op : {"att"}, var : Nat, name : Name, type : XType, nelems : Nat]
DefCall == DimCall \cup VarCall \cup AttCall

\* blob_ncmpio_add_dim()
AddDim(h, c) ==
  [h EXCEPT !.dims = Stored(@, [name |-> c.name, size |-> c.size])]

\* blob_ncmpio_add_var()
AddVar(h, c) ==
  [h EXCEPT !.vars  = Stored(@, [name |-> c.name, type |-> c.type, dims |-> c.dims]),
            !.attrs = Append(@, NoArray)]

\* blob_ncmpio_put_att() refuses a name that the variable uses.
FindAttr(h, c) ==
  \E i \in DOMAIN h.attrs[c.var + 1].value : h.attrs[c.var + 1].value[i].name = c.name
PutAttr(h, c) ==
  [h EXCEPT !.attrs[c.var + 1] =
     Stored(@, [name |-> c.name, type |-> c.type, nelems |-> c.nelems,
                xsz |-> XLenAttrV(c.type, c.nelems)])]

\* A header object as these operations make it.
Dim  == [name : Name, size : Nat]
VarT == [name : Name, type : XType, dims : Seq(Nat)]
Attr == [name : Name, type : XType, nelems : Nat, xsz : Nat]

Header ==
  [dims : [value : Seq(Dim), alloc : Nat], vars : [value : Seq(VarT), alloc : Nat],
   attrs : Seq([value : Seq(Attr), alloc : Nat])]

-----------------------------------------------------------------------------
(* ncmpio_hdr_len_NC(): a count or a number takes 8 bytes, a tag or a type *)
(* takes 4.                                                                *)

HdrLenName(n) == 8 + RndUp(NameLen[n])
HdrLenDim(d)  == HdrLenName(d.name) + 8
HdrLenAttr(a) == HdrLenName(a.name) + 4 + 8 + a.xsz

HdrLenAttrs(as) == 4 + 8 + Total([i \in DOMAIN as.value |-> HdrLenAttr(as.value[i])])

\* Name, number of dimensions, their IDs, attributes, type, vsize, begin.
HdrLenVar(v, as) ==
  HdrLenName(v.name) + 8 + 8 * Len(v.dims) + HdrLenAttrs(as) + 4 + 8 + 8

HdrLen(h) ==
  4 + 8 + (4 + 8 + Total([i \in DOMAIN h.dims.value |-> HdrLenDim(h.dims.value[i])]))
        + HdrLenAttrs(h.attrs[1])
        + (4 + 8 + Total([i \in DOMAIN h.vars.value |->
                            HdrLenVar(h.vars.value[i], h.attrs[i + 1])]))

\* The buffer blob_ncmpio_pack_NC() allocates.
BufLen(h) == RndUp(HdrLen(h))

-----------------------------------------------------------------------------
(* ncmpio_hdr_put_NC(): the bytes by which each step moves the pointer.    *)

Padding(n) == IF n % X_ALIGN = 0 THEN 0 ELSE X_ALIGN - (n % X_ALIGN)

HdrPutName(n) == 8 + NameLen[n] + Padding(NameLen[n])
HdrPutDim(d)  == HdrPutName(d.name) + 8

\* The values, and zeros as far as xsz goes beyond them.
HdrPutAttrV(a) ==
  LET sz == a.nelems * XLen(a.type)
  IN  sz + IF a.xsz - sz > 0 THEN a.xsz - sz ELSE 0
HdrPutAttr(a) == HdrPutName(a.name) + 4 + 8 + HdrPutAttrV(a)

\* An empty list is written as a tag and a count of 0.
HdrPutAttrs(as) == 4 + 8 + Total([i \in DOMAIN as.value |-> HdrPutAttr(as.value[i])])

HdrPutVar(v, as) ==
  HdrPutName(v.name) + 8 + 8 * Len(v.dims) + HdrPutAttrs(as) + 4 + 8 + 8

HdrPut(h) ==
  4 + 8 + (4 + 8 + Total([i \in DOMAIN h.dims.value |-> HdrPutDim(h.dims.value[i])]))
        + HdrPutAttrs(h.attrs[1])
        + (4 + 8 + Total([i \in DOMAIN h.vars.value |->
                            HdrPutVar(h.vars.value[i], h.attrs[i + 1])]))

-----------------------------------------------------------------------------
(* What makes packing safe. *)

\* Arrays are stored to within their allocation.
WithinAlloc(a) == Len(a.value) <= a.alloc
ArraysFit(h) ==
  /\ WithinAlloc(h.dims) /\ WithinAlloc(h.vars)
  /\ \A i \in DOMAIN h.attrs : WithinAlloc(h.attrs[i])

\* The second traversal ends where the first one ended, and that is the end
\* of the buffer: nothing is written behind it and no byte is left as
\* malloc() gave it.
PacksExactly(h) == HdrPut(h) = HdrLen(h) /\ HdrLen(h) = BufLen(h)
=============================================================================
