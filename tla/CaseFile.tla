------------------------------ MODULE CaseFile ------------------------------
(***************************************************************************)
(* One process writes a history file of a case, and a process of a later   *)
(* run with the same map reads it: e3sm_io_case::def_var(), inq_var()      *)
(* (src/src/cases/e3sm_io_case.cpp), the write buffers (utils.cpp), and    *)
(* the loops of var_wr_case() and var_rd_case() over all variables of the  *)
(* schemas in FCase, GCase and ICase.                                      *)
(*                                                                         *)
(* Writer and reader know the file by two separate lists of hundreds of    *)
(* variables, in different orders.  Here they meet: what is looked up      *)
(* must be in the file, what is read must be what was written, and the     *)
(* buffers, whose lengths are added up while defining, must hold what the  *)
(* loops post.  The other processes matter only through the communicator's *)
(* root, which alone writes the variables that are not partitioned.        *)
(***************************************************************************)
EXTENDS Integers, Sequences, FiniteSets, FCase, GCase, ICase

CONSTANTS
  MapDims,     \* decom.dims of each case's map
  RootCount,   \* decom.count of the root rank, for each case ...
  OtherCount,  \* ... and of another rank
  NBlobs,      \* ranks of the subfile in blob I/O
  MaxNreqs,    \* decom.max_nreqs, the same for all decompositions
  Ffreqs,      \* flush frequencies, after wr_test() clipped them
  NRecs        \* cmeta->nrecs

ASSUME FileAssumption ==
  /\ NBlobs \in Nat /\ MaxNreqs \in Nat
  /\ NRecs \in Nat \ {0}
  /\ Ffreqs \subseteq 1 .. NRecs

BufGap == 10  \* BUF_GAP

-----------------------------------------------------------------------------
(* The schemas. *)

Files == {<<"F", "h0">>, <<"F", "h1">>, <<"G", "h0">>, <<"I", "h0">>, <<"I", "h1">>}

Written ==
  [f \in Files |-> CASE f[1] = "F" -> FDefined(f[2])
                     [] f[1] = "G" -> GDefined(f[2])
                     [] f[1] = "I" -> IDefined(f[2])]
LookedUp ==
  [f \in Files |-> CASE f[1] = "F" -> FInquired(f[2])
                     [] f[1] = "G" -> GInquired(f[2])
                     [] f[1] = "I" -> IInquired(f[2])]
NVars ==
  [f \in Files |-> CASE f[1] = "F" -> FNVars(f[2])
                     [] f[1] = "G" -> GNVars(f[2])
                     [] f[1] = "I" -> INVars(f[2])]
GlobalAttrs ==
  [f \in Files |-> CASE f[1] = "F" -> FGlobalAttrs(f[2])
                     [] f[1] = "G" -> GGlobalAttrs(f[2])
                     [] f[1] = "I" -> IGlobalAttrs(f[2])]
DimLen     == [F |-> FDimLen(MapDims.F), G |-> GDimLen(MapDims.G), I |-> IDimLen(MapDims.I)]
GlobalDims == [F |-> FGlobalDims, G |-> GGlobalDims, I |-> IGlobalDims]

\* The file's variables, and by name.
Listed(f) == {Written[f][j] : j \in DOMAIN Written[f]}
Names == [f \in Files |-> {Written[f][j].name : j \in DOMAIN Written[f]}]
InFile ==
  [f \in Files |-> [n \in Names[f] |->
     Written[f][CHOOSE j \in DOMAIN Written[f] : Written[f][j].name = n]]]

Product(s) ==
  LET product[k \in 0 .. Len(s)] == IF k = 0 THEN 1 ELSE product[k - 1] * s[k]
  IN  product[Len(s)]
Lengths(case, dims) == [k \in DOMAIN dims |-> DimLen[case][dims[k]]]

\* The map is one of the case: each decomposition has the dimensions that
\* blob I/O records for it as the global ones.
ASSUME MapAssumption ==
  \A case \in {"F", "G", "I"} :
    /\ \A d \in DOMAIN GlobalDims[case] :
         /\ MapDims[case][d] \in Seq(Nat)
         /\ MapDims[case][d] = Lengths(case, GlobalDims[case][d])
    /\ RootCount[case] \in [DOMAIN GlobalDims[case] -> Nat]
    /\ OtherCount[case] \in [DOMAIN GlobalDims[case] -> Nat]

-----------------------------------------------------------------------------
VARIABLES
  run,     \* the parameters of the process, see Runs
  phase,   \* where it is: "def", "post", "inq", "get", "closed", "done"
  i,       \* the variable that is next
  rec,     \* rec_no
  buflen,  \* lengths of the buffers: wr_buf.fix_txt_buflen, ...
  ptr,     \* how far the loops have advanced in each: fix_txt_buf_ptr, ...
  posted,  \* the requests posted in this record: name, decomposition, type
  last,    \* where the buffer of the last request ends in the one block of
           \* memory that holds all buffers
  nattrs   \* cmeta->num_attrs

vars == <<run, phase, i, rec, buflen, ptr, posted, last, nattrs>>

\* layout: where the data go, and whether the driver copies them at once
\* (blob I/O of HDF5); root: rank 0 of the file's communicator; gap: 0, or
\* BUF_GAP with -m.
Runs ==
  [file : Files, layout : {"canonical", "blob", "copied"},
   root : BOOLEAN, gap : {0, BufGap}, ffreq : Ffreqs]

Case == run.file[1]
Blob == run.layout # "canonical"
Count == IF run.root THEN RootCount[Case] ELSE OtherCount[Case]

\* The order of the buffers in one block, and the size of an element.
Buffers == << <<"fix", "char">>, <<"fix", "int">>, <<"fix", "double">>, <<"fix", "int64">>,
              <<"rec", "char">>, <<"rec", "int">>, <<"rec", "double">>, <<"rec", "int64">> >>
Buf     == {Buffers[k] : k \in DOMAIN Buffers}
Size(b) == CASE b[2] = "char" -> 1 [] b[2] = "int" -> 4 [] OTHER -> 8

\* The address of the free part of buffer b: the buffers before it in the
\* block, and what has been posted of its own.
Position(b) == CHOOSE k \in DOMAIN Buffers : Buffers[k] = b
Address(b) ==
  LET end[k \in 0 .. Len(Buffers)] ==
        IF k = 0 THEN 0 ELSE end[k - 1] + buflen[Buffers[k]] * Size(Buffers[k])
  IN  end[Position(b) - 1] + ptr[b] * Size(b)

(* The metadata of a variable, var_meta. *)
IsRec(v)  == v.dims # <<>> /\ v.dims[1] = "time"
VLen(v)   == IF v.decomp >= 0 THEN Count[v.decomp + 1]
             ELSE Product(Lengths(Case, v.dims))
BufOf(v)  == <<IF IsRec(v) THEN "rec" ELSE "fix", v.itype>>
Request(v) == <<v.name, v.decomp, v.itype>>

\* What inq_var() makes of entry q of the reader's list: the dimensions come
\* from the file, the decomposition and the type in memory from the list.
Inquire(q) == [name |-> q.name, dims |-> InFile[run.file][q.name].dims,
               itype |-> q.itype, decomp |-> q.decomp]

Entries == IF phase \in {"def", "post"} THEN Written[run.file] ELSE LookedUp[run.file]
Meta    == IF phase \in {"def", "post"} THEN Entries[i] ELSE Inquire(Entries[i])

\* The loops post variable v in record r: partitioned ones on every rank, the
\* others on the root, fixed-size ones with the first record.  There is no
\* branch for MPI_LONG_LONG.
IsPosted(v, r) ==
  /\ v.decomp >= 0 \/ run.root
  /\ IsRec(v) \/ r = 0
  /\ v.itype # "int64"

-----------------------------------------------------------------------------
(* Defining. *)

NoBuf == [b \in Buf |-> 0]

Init ==
  /\ run \in Runs
  /\ phase = "def"
  /\ i = 0 /\ rec = 0
  /\ buflen = NoBuf /\ ptr = NoBuf
  /\ posted = {} /\ last = 0
  /\ nattrs = 0

\* Global attributes and, in blob I/O, what describes the decompositions:
\* three more global attributes, five variables for each decomposition that
\* the buffers are extended for on the root, and their six attributes.
DefHeader ==
  LET nd == Len(GlobalDims[Case]) IN
  /\ phase = "def" /\ i = 0
  /\ i' = 1
  /\ nattrs' = nattrs + GlobalAttrs[run.file] + (IF Blob THEN 3 + 6 * nd ELSE 0)
  /\ buflen' = IF Blob /\ run.root
               THEN [buflen EXCEPT
                       ![<<"fix", "int">>] = @ + nd * (2 * (NBlobs + run.gap)
                                                   + 2 * (NBlobs * MaxNreqs + run.gap)),
                       ![<<"fix", "int64">>] = @ + nd * (NBlobs + run.gap)]
               ELSE buflen
  /\ UNCHANGED <<run, phase, rec, ptr, posted, last>>

Enlarged(v) == [buflen EXCEPT ![BufOf(v)] = @ + VLen(v) + run.gap]

\* def_var() and the attribute macros after it; in blob I/O a partitioned
\* variable keeps its decomposition and dimensions in two attributes.
DefVar ==
  /\ phase = "def" /\ i \in DOMAIN Entries
  /\ i' = i + 1
  /\ buflen' = IF Meta.decomp >= 0 \/ run.root THEN Enlarged(Meta) ELSE buflen
  /\ nattrs' = nattrs + Cardinality(Meta.attrs)
                      + (IF Blob /\ Meta.decomp >= 0 THEN 2 ELSE 0)
  /\ UNCHANGED <<run, phase, rec, ptr, posted, last>>

\* wr_buf_malloc(): drivers that refer to the buffers until they are flushed
\* need room for ffreq records.
AllocatedOnce(len) == len  \* a fault: room for one record
Allocated(len) ==
  [b \in Buf |-> IF b[1] = "rec" /\ run.layout # "copied"
                 THEN len[b] * run.ffreq ELSE len[b]]

EndDef ==
  /\ phase \in {"def", "inq"} /\ i = Len(Entries) + 1
  /\ phase' = IF phase = "def" THEN "post" ELSE "get"
  /\ i' = 1
  /\ buflen' = Allocated(buflen)
  /\ UNCHANGED <<run, rec, ptr, posted, last, nattrs>>

-----------------------------------------------------------------------------
(* Posting, the same loop for put and get. *)

Post ==
  /\ phase \in {"post", "get"} /\ i \in DOMAIN Entries
  /\ i' = i + 1
  /\ IF IsPosted(Meta, rec)
     THEN /\ ptr' = [ptr EXCEPT ![BufOf(Meta)] = @ + VLen(Meta) + run.gap]
          /\ posted' = posted \cup {Request(Meta)}
          /\ last' = Address(BufOf(Meta)) + VLen(Meta) * Size(BufOf(Meta))
     ELSE UNCHANGED <<ptr, posted, last>>
  /\ UNCHANGED <<run, phase, rec, buflen, nattrs>>

\* The pointers of the record buffers return to the front with the first
\* record after a flush, or with every record if the driver copies.
Reset(r) == run.layout = "copied" \/ r % run.ffreq = 0

NextRecord ==
  /\ phase \in {"post", "get"} /\ i = Len(Entries) + 1
  /\ rec + 1 < NRecs
  /\ rec' = rec + 1 /\ i' = 1
  /\ posted' = {} /\ last' = 0
  /\ ptr' = [b \in Buf |-> IF b[1] = "rec" /\ Reset(rec + 1) THEN 0 ELSE ptr[b]]
  /\ UNCHANGED <<run, phase, buflen, nattrs>>

Close ==
  /\ phase \in {"post", "get"} /\ i = Len(Entries) + 1
  /\ rec + 1 = NRecs
  /\ phase' = IF phase = "post" THEN "closed" ELSE "done"
  /\ i' = 0 /\ rec' = 0
  /\ buflen' = NoBuf /\ ptr' = NoBuf
  /\ posted' = {} /\ last' = 0
  /\ nattrs' = 0
  /\ UNCHANGED run

-----------------------------------------------------------------------------
(* Inquiring, by a process of another run: rd_test() reads the canonical   *)
(* layout only.                                                            *)

Open ==
  /\ phase = "closed" /\ run.layout = "canonical"
  /\ \E r \in Runs : /\ r.file = run.file /\ r.layout = "canonical"
                     /\ run' = r
  /\ phase' = "inq" /\ i' = 1
  /\ nattrs' = GlobalAttrs[run.file]
  /\ UNCHANGED <<rec, buflen, ptr, posted, last>>

\* inq_var() extends the buffers on every rank, also for what the rank does
\* not read.
InqVar ==
  /\ phase = "inq" /\ i \in DOMAIN Entries
  /\ i' = i + 1
  /\ buflen' = Enlarged(Meta)
  /\ nattrs' = nattrs + Cardinality(Entries[i].attrs)
  /\ UNCHANGED <<run, phase, rec, ptr, posted, last>>

Next == DefHeader \/ DefVar \/ EndDef \/ Post \/ NextRecord \/ Close \/ Open \/ InqVar

Spec == Init /\ [][Next]_vars

-----------------------------------------------------------------------------
(* Properties. *)

\* The buffers, whose lengths def_var() and inq_var() add up, hold all the
\* loops post until the pointers return: the loops skip what the rank does
\* not write and the definitions skip it too, by conditions of their own.
BuffersSuffice == phase \in {"post", "get"} => \A b \in Buf : ptr[b] <= buflen[b]

\* Every variable and attribute inq_*_case() asks for is in the file that
\* def_*_case() defined, and is read with the macro it was put with (the
\* macros of the text attributes read into a buffer of characters, ...).
LookupsSucceed ==
  phase = "inq" /\ i \in DOMAIN Entries =>
    /\ Entries[i].name \in Names[run.file]
    /\ Entries[i].attrs \subseteq InFile[run.file][Entries[i].name].attrs

\* What a rank reads in a record is what a rank in its place wrote: the same
\* variables, each once, with the same decomposition and type in memory,
\* although the reader's list has them in another order.
ReadAsWritten ==
  /\ phase \in {"post", "get"} /\ i \in DOMAIN Entries /\ IsPosted(Meta, rec)
       => Request(Meta) \notin posted
  /\ phase = "get" /\ i = Len(Entries) + 1
       => posted = {Request(v) : v \in {w \in Listed(run.file) : IsPosted(w, rec)}}

\* A partitioned variable has the shape of the decomposition it is given to,
\* so that the requests made for the decomposition fit it, and the replay
\* utility can restore it.
DecompositionFits ==
  phase = "def" /\ i \in DOMAIN Entries /\ Meta.decomp >= 0 =>
    Lengths(Case, IF IsRec(Meta) THEN Tail(Meta.dims) ELSE Meta.dims)
      = MapDims[Case][Meta.decomp + 1]

\* The rule of header_def_F_case.cpp:322-326 for one contiguous buffer: the
\* order of the definitions (fixed-size before record variables; char, int,
\* double) makes the requests of a record ascend in memory without -m.
PostsAscend ==
  phase = "post" /\ i \in DOMAIN Entries /\ IsPosted(Meta, rec) /\ run.gap = 0 =>
    Address(BufOf(Meta)) >= last

\* The totals that comments and the documentation give: the scalars, fixed-
\* size and not partitioned variables (header_def_F_case.cpp:310-318, _G_
\* :903-906, _I_ :228-237), and of docs/INSTALL.md:468-474 and 504-509 the
\* users of each decomposition and the attributes of the F case (I case:
\* header_def_I_case.cpp:138-143). Writer and reader assert the number of
\* variables: varp - vars + 1 == cfg.nvars + nvars_decomp.
Documented ==
  [f \in Files |->
     CASE f = <<"F", "h0">> -> [scalar |-> 6, fixed |-> 15, none |-> 27, D |-> <<1, 323, 63>>]
       [] f = <<"F", "h1">> -> [scalar |-> 6, fixed |-> 15, none |-> 27, D |-> <<1, 22, 1>>]
       [] f[1] = "G" -> [scalar |-> 0, fixed |-> 11, none |-> 11, D |-> <<>>]
       [] f = <<"I", "h0">> -> [scalar |-> 0, fixed |-> 18, none |-> 14,
                                D |-> <<465, 75, 4, 1, 1>>]
       [] f = <<"I", "h1">> -> [scalar |-> 0, fixed |-> 10, none |-> 14, D |-> <<>>]]

HeaderTotals ==
  phase \in {"def", "inq"} /\ i = Len(Entries) + 1 =>
    LET Number(P(_)) == Cardinality({v \in Listed(run.file) : P(v)})
        doc == Documented[run.file]
    IN  /\ Len(Entries) = NVars[run.file]
        /\ Number(LAMBDA v : v.dims = <<>>) = doc.scalar
        /\ Number(LAMBDA v : ~IsRec(v)) = doc.fixed
        /\ Number(LAMBDA v : v.decomp < 0) = doc.none
        /\ \A d \in DOMAIN doc.D : Number(LAMBDA v : v.decomp = d - 1) = doc.D[d]
        /\ Case = "F" /\ ~Blob => nattrs = IF run.file[2] = "h0" THEN 1421 ELSE 142
=============================================================================
