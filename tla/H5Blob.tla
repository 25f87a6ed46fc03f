------------------------------- MODULE H5Blob --------------------------------
(***************************************************************************)
(* The HDF5 blob driver (src/src/drivers/e3sm_io_driver_h5blob.cpp) run by *)
(* the ranks of one subfile, each executing the program of VarWrCase.      *)
(*                                                                         *)
(* The definitions of the case go into a header object in memory, a copy   *)
(* on every rank (CdfHeader).  put_vara() copies every write into a        *)
(* per-variable cache; enddef(), wait() and expand_rec_size() do nothing;  *)
(* close() sums the cached bytes over the ranks, gives every rank a        *)
(* contiguous region of one byte array in rank order, packs the header and *)
(* the cache, and lets every rank write its region and rank 0 the header.  *)
(*                                                                         *)
(* The state begins when the file is created.                              *)
(***************************************************************************)
EXTENDS Collectives, CdfHeader, SequencesExt, FiniteSetsExt

CONSTANTS
  PutLen,     \* PutLen[r][v]: bytes of one put of variable v by rank r
  Grow,       \* records by which a variable's cache grows (64 in the code)
  Schemas     \* the definitions of a case: sequences of calls

ASSUME H5BlobAssumption ==
  /\ PutLen \in [Rank -> [Var -> Nat]]
  /\ Grow \in Nat \ {0}

\* A schema defines the variables of the case, each after its dimensions and
\* before its attributes; a record variable is one whose first dimension is
\* unlimited, IS_RECVAR.
CallsOf(s, op)   == SelectSeq(s, LAMBDA c : c.op = op)
CallsTo(s, k, op) == CallsOf(SubSeq(s, 1, k), op)

ASSUME SchemaAssumption ==
  \A s \in Schemas :
    /\ s \in Seq(DefCall)
    /\ Len(CallsOf(s, "var")) = NVars
    /\ \A k \in DOMAIN s :
         LET dims == CallsTo(s, k, "dim")
             n    == Len(CallsTo(s, k, "var"))
         IN  /\ s[k].op = "att" => s[k].var <= n
             /\ s[k].op = "var" =>
                  /\ \A i \in DOMAIN s[k].dims : s[k].dims[i] \in DOMAIN dims
                  /\ n \in RecVar <=> /\ s[k].dims # <<>>
                                     /\ dims[s[k].dims[1]].size = NC_UNLIMITED

VARIABLES
  nc,        \* fp->header: this rank's copy of the header object
  defs,      \* the definitions the rank has still to make
  headerLen, \* close(): header_len, the size of the packed header
  pc,        \* where each rank is
  rec,       \* rec_no, -1 while it posts the fixed-size variables
  cur,       \* the last variable it posted in this step
  cache,     \* fp->vars: per variable nalloc, nrecs and the cached records
  totalLen,  \* fp->total_len
  numrecs,   \* ncp->numrecs of this rank's copy of the header
  psum,      \* MPI: prefix sums of the contributions to a reduction
  red,       \* MPI: how many contributions it has summed
  sum,       \* close(): bytes of all ranks
  start,     \* close(): where this rank's region begins
  data,      \* dataset data_blob: the byte at every offset (at first none)
  header,    \* dataset header_blob: the number of records it states
  amount     \* put_amount of this rank

hdrVars  == <<nc, defs, headerLen>>
ctlVars  == <<pc, rec, cur, calls>>
putVars  == <<cache, totalLen, numrecs>>
mpiVars  == <<psum, red>>
fileVars == <<data, header, amount>>
vars     == <<hdrVars, ctlVars, putVars, mpiVars, sum, start, fileVars>>

-----------------------------------------------------------------------------
(* Data. A byte of the file is named by who wrote it and what it is of.    *)

None == -1                \* nothing cached, or nothing computed yet
Hole == <<>>              \* a byte of data_blob nobody wrote

Bytes(r, v, k) == [b \in 1 .. PutLen[r][v] |-> <<r, v, k, b>>]

NoVarBuf == [nalloc |-> 0, nrecs |-> 0, buf |-> [i \in 1 .. 0 |-> None]]

\* Faults of the cache: it grows one record too late; it grows without its
\* memory being reallocated.
GrownLate(c, s) ==
  IF s <= c.nalloc THEN c
  ELSE [nalloc |-> c.nalloc + Grow,
        nrecs  |-> c.nrecs,
        buf    |-> [i \in 1 .. c.nalloc + Grow |->
                      IF i <= c.nalloc THEN c.buf[i] ELSE None]]
GrownInName(c, s) == IF s # c.nalloc THEN c
                     ELSE [c EXCEPT !.nalloc = @ + Grow]

\* realloc() of the cache of a record variable: the old records are kept,
\* the new places hold nothing.
Grown(c, s) ==
  IF s # c.nalloc THEN c
  ELSE [nalloc |-> c.nalloc + Grow,
        nrecs  |-> c.nrecs,
        buf    |-> [i \in 1 .. c.nalloc + Grow |->
                      IF i <= c.nalloc THEN c.buf[i] ELSE None]]

\* The two errors put_vara() raises on a record variable, and the store
\* behind the end of the cache that neither of them excludes.
Throws(c, s)   == s > c.nalloc + Grow \/ c.nrecs = s + 1
Overruns(c, s) == s >= Grown(c, s).nalloc

\* The records of a variable, and those of the header, once record s is put.
\* A fault takes the header's for the number of the last one.
VarRecs(n, s)  == IF s + 1 > n THEN s + 1 ELSE n
LastRecs(n, s) == IF n < s THEN s ELSE n
NumRecs(n, s)  == IF n < s + 1 THEN s + 1 ELSE n

PutRecord(c, s) ==
  LET g == Grown(c, s)
  IN  [nalloc |-> g.nalloc,
       nrecs  |-> VarRecs(g.nrecs, s),
       buf    |-> [g.buf EXCEPT ![s + 1] = s]]

PutFixed(c) ==
  IF c.nalloc = 0
  THEN [nalloc |-> 1, nrecs |-> 0, buf |-> [i \in 1 .. 1 |-> 0]]
  ELSE [nalloc |-> c.nalloc, nrecs |-> 0, buf |-> [c.buf EXCEPT ![1] = 0]]

\* How many places of a cached variable close() copies: the first always,
\* the others up to nrecs. A fault forgets the first.
PlacesUpToNrecs(c) == c.nrecs
PlacesOf(c) == IF c.nrecs > 1 THEN c.nrecs ELSE 1

\* What close() packs for rank r: the written variables by ID, the records
\* of each in order.
Packed(r) ==
  LET place(v, i) == IF cache[r][v].buf[i] = None THEN <<>>
                     ELSE Bytes(r, v, cache[r][v].buf[i])
      var(v)      == IF cache[r][v].nalloc = 0 THEN <<>>
                     ELSE FlattenSeq([i \in 1 .. PlacesOf(cache[r][v]) |->
                                        place(v, i)])
  IN  FlattenSeq([v \in Var |-> var(v)])

-----------------------------------------------------------------------------
Init ==
  /\ \E s \in Schemas : defs = [r \in Rank |-> s]
  /\ nc        = [r \in Rank |-> NoHeader]
  /\ headerLen = [r \in Rank |-> 0]
  /\ pc       = [r \in Rank |-> "post"]
  /\ rec      = [r \in Rank |-> -1]
  /\ cur      = [r \in Rank |-> 0]
  /\ calls    = [r \in Rank |-> <<>>]
  /\ cache    = [r \in Rank |-> [v \in Var |-> NoVarBuf]]
  /\ totalLen = [r \in Rank |-> 0]
  /\ numrecs  = [r \in Rank |-> 0]
  /\ psum     = [i \in 0 .. NProcs |-> 0]
  /\ red      = 0
  /\ sum      = [r \in Rank |-> None]
  /\ start    = [r \in Rank |-> None]
  /\ data     = <<>>
  /\ header   = None
  /\ amount   = [r \in Rank |-> 0]

-----------------------------------------------------------------------------
(* The definitions: no rank waits for another, and each starts to post when *)
(* it has made its own.                                                     *)

Defines(r, op) == defs[r] # <<>> /\ Head(defs[r]).op = op

Defined(r, h) ==
  /\ nc' = [nc EXCEPT ![r] = h]
  /\ defs' = [defs EXCEPT ![r] = Tail(@)]
  /\ UNCHANGED <<headerLen, ctlVars, putVars, mpiVars, sum, start, fileVars>>

DefDim(r) == Defines(r, "dim") /\ Defined(r, AddDim(nc[r], Head(defs[r])))
DefVar(r) == Defines(r, "var") /\ Defined(r, AddVar(nc[r], Head(defs[r])))

\* A name that is in use is an error that ends the definitions.
PutAtt(r) ==
  /\ Defines(r, "att")
  /\ ~FindAttr(nc[r], Head(defs[r]))
  /\ Defined(r, PutAttr(nc[r], Head(defs[r])))

-----------------------------------------------------------------------------
(* The posting loops.                                                      *)

PutVara(r) ==
  /\ defs[r] = <<>>
  /\ pc[r] = "post"
  /\ \E v \in Var :
       /\ IsNext(v, r, rec[r], cur[r])
       /\ cur' = [cur EXCEPT ![r] = v]
       /\ totalLen' = [totalLen EXCEPT ![r] = @ + PutLen[r][v]]
       /\ \/ /\ v \notin RecVar
             /\ cache' = [cache EXCEPT ![r][v] = PutFixed(@)]
             /\ UNCHANGED <<pc, numrecs>>
          \/ /\ v \in RecVar
             /\ LET c == cache[r][v]
                    s == rec[r]
                IN  IF Throws(c, s) \/ Overruns(c, s)
                    THEN /\ pc' = [pc EXCEPT ![r] = IF Throws(c, s)
                                                    THEN "thrown"
                                                    ELSE "overrun"]
                         /\ UNCHANGED <<cache, numrecs>>
                    ELSE /\ cache' = [cache EXCEPT ![r][v] = PutRecord(@, s)]
                         /\ numrecs' = [numrecs EXCEPT ![r] = NumRecs(@, s)]
                         /\ UNCHANGED pc
  /\ UNCHANGED <<hdrVars, rec, calls, mpiVars, sum, start, fileVars>>

\* The next time step, or the barrier before the file is closed.
NextStep(r) ==
  IF rec[r] + 1 < NRecs
  THEN /\ pc'  = [pc EXCEPT ![r] = "post"]
       /\ rec' = [rec EXCEPT ![r] = @ + 1]
       /\ cur' = [cur EXCEPT ![r] = 0]
       /\ UNCHANGED calls
  ELSE /\ pc' = [pc EXCEPT ![r] = "sync"]
       /\ Enter(r, "barrier")
       /\ UNCHANGED <<rec, cur>>

EndStep(r) ==
  /\ defs[r] = <<>>
  /\ pc[r] = "post"
  /\ Remaining(r, rec[r], cur[r]) = {}
  /\ IF FlushAfter(rec[r])
     THEN /\ pc' = [pc EXCEPT ![r] = "flush"]
          /\ Enter(r, "barrier")
          /\ UNCHANGED <<rec, cur>>
     ELSE NextStep(r)
  /\ UNCHANGED <<hdrVars, putVars, mpiVars, sum, start, fileVars>>

\* Leaving the barrier of a flush; the driver's wait() does nothing.
Flush(r) ==
  /\ pc[r] = "flush"
  /\ AllEntered(r)
  /\ NextStep(r)
  /\ UNCHANGED <<hdrVars, putVars, mpiVars, sum, start, fileVars>>

-----------------------------------------------------------------------------
(* close().                                                                *)

\* Out of the barrier and into MPI_Allreduce.
BeginClose(r) ==
  /\ pc[r] = "sync"
  /\ AllEntered(r)
  /\ pc' = [pc EXCEPT ![r] = "reduce"]
  /\ Enter(r, "allreduce")
  /\ UNCHANGED <<hdrVars, rec, cur, putVars, mpiVars, sum, start, fileVars>>

\* MPI sums the contributions, here in rank order (addition commutes); the
\* partial sums are those MPI_Exscan yields, which gets the same arguments.
Combine ==
  /\ red < NProcs
  /\ pc[red] = "reduce"
  /\ psum' = [psum EXCEPT ![red + 1] = psum[red] + totalLen[red]]
  /\ red' = red + 1
  /\ UNCHANGED <<hdrVars, ctlVars, putVars, sum, start, fileVars>>

EndAllreduce(r) ==
  /\ pc[r] = "reduce"
  /\ red = NProcs
  /\ sum' = [sum EXCEPT ![r] = psum[NProcs]]
  /\ pc' = [pc EXCEPT ![r] = "exscan"]
  /\ Enter(r, "exscan")
  /\ UNCHANGED <<hdrVars, rec, cur, putVars, mpiVars, start, fileVars>>

\* MPI_Exscan leaves the receive buffer of rank 0 as it was: close() has set
\* it to 0. Faults: an inclusive scan in its place; no scan at all.
ScanInclusive(r) == psum[r + 1]
ScanForgotten(r) == 0
Exscan(r) == IF r = 0 THEN 0 ELSE psum[r]

\* Every rank packs its copy of the header and frees it.
EndExscan(r) ==
  /\ pc[r] = "exscan"
  /\ \A q \in Rank : q < r => HasEntered(q, r)
  /\ start' = [start EXCEPT ![r] = Exscan(r)]
  /\ headerLen' = [headerLen EXCEPT ![r] = BufLen(nc[r])]
  /\ nc' = [nc EXCEPT ![r] = NoHeader]
  /\ pc' = [pc EXCEPT ![r] = "create"]
  /\ Enter(r, "H5Dcreate")
  /\ UNCHANGED <<defs, rec, cur, putVars, mpiVars, sum, fileVars>>

\* H5Dcreate2 is collective: the datasets get the extent the ranks computed.
\* A fault lets a rank that has nothing to write skip the collective write.
CreateSkipsEmpty(r) ==
  /\ pc[r] = "create"
  /\ AllEntered(r)
  /\ data' = IF DOMAIN data = {} THEN [o \in 0 .. sum[r] - 1 |-> Hole] ELSE data
  /\ IF totalLen[r] = 0
     THEN pc' = [pc EXCEPT ![r] = "head"] /\ UNCHANGED calls
     ELSE pc' = [pc EXCEPT ![r] = "write"] /\ Enter(r, "H5Dwrite")
  /\ UNCHANGED <<hdrVars, rec, cur, putVars, mpiVars, sum, start, header, amount>>
CreateDatasets(r) ==
  /\ pc[r] = "create"
  /\ AllEntered(r)
  /\ data' = IF DOMAIN data = {} THEN [o \in 0 .. sum[r] - 1 |-> Hole] ELSE data
  /\ pc' = [pc EXCEPT ![r] = "write"]
  /\ Enter(r, "H5Dwrite")
  /\ UNCHANGED <<hdrVars, rec, cur, putVars, mpiVars, sum, start, header, amount>>

\* The hyperslab [start, start + count) of data_blob takes the packed bytes.
Region(r) == start[r] .. start[r] + totalLen[r] - 1

\* Pack the cache and write it.  The assertion on the packed length stops
\* the rank when it fails.
WriteBlob(r) ==
  /\ pc[r] = "write"
  /\ LET packed == Packed(r)
     IN  IF Len(packed) # totalLen[r]
         THEN /\ pc' = [pc EXCEPT ![r] = "aborted"]
              /\ UNCHANGED <<cache, data, amount>>
         ELSE /\ data' = [o \in DOMAIN data |->
                            IF o \in Region(r) THEN packed[o - start[r] + 1]
                            ELSE data[o]]
              /\ amount' = [amount EXCEPT ![r] = @ + totalLen[r]]
              /\ cache' = [cache EXCEPT ![r] = [v \in Var |-> NoVarBuf]]
              /\ pc' = [pc EXCEPT ![r] = "head"]
  /\ UNCHANGED <<hdrVars, rec, cur, calls, totalLen, numrecs, mpiVars, sum, start,
                 header>>

\* Rank 0 alone writes the header it packed, and counts it; a fault counts it
\* on every rank.
HeaderOnAll(r)  == headerLen[r]
HeaderAmount(r) == IF r = 0 THEN headerLen[r] ELSE 0

\* The header; then H5Fclose.
WriteHeader(r) ==
  /\ pc[r] = "head"
  /\ header' = IF r = 0 THEN numrecs[r] ELSE header
  /\ amount' = [amount EXCEPT ![r] = @ + HeaderAmount(r)]
  /\ pc' = [pc EXCEPT ![r] = "fclose"]
  /\ Enter(r, "H5Fclose")
  /\ UNCHANGED <<hdrVars, rec, cur, putVars, mpiVars, sum, start, data>>

EndClose(r) ==
  /\ pc[r] = "fclose"
  /\ AllEntered(r)
  /\ pc' = [pc EXCEPT ![r] = "done"]
  /\ UNCHANGED <<hdrVars, rec, cur, calls, putVars, mpiVars, sum, start, fileVars>>

RankNext(r) ==
  \/ DefDim(r) \/ DefVar(r) \/ PutAtt(r)
  \/ PutVara(r) \/ EndStep(r) \/ Flush(r)
  \/ BeginClose(r) \/ EndAllreduce(r) \/ EndExscan(r)
  \/ CreateDatasets(r) \/ WriteBlob(r) \/ WriteHeader(r) \/ EndClose(r)

\* The run is over: the file is closed on every rank.
Finished ==
  /\ \A r \in Rank : pc[r] = "done"
  /\ UNCHANGED vars

Next == (\E r \in Rank : RankNext(r)) \/ Combine \/ Finished

Spec == Init /\ [][Next]_vars

\* Every rank is a running process, and MPI makes progress.
Fairness == (\A r \in Rank : WF_vars(RankNext(r))) /\ WF_vars(Combine)

FairSpec == Spec /\ Fairness
-----------------------------------------------------------------------------
(* Properties.                                                             *)

PC == {"post", "flush", "sync", "reduce", "exscan", "create", "write", "head",
       "fclose", "done", "thrown", "overrun", "aborted"}

Call == {"barrier", "allreduce", "exscan", "H5Dcreate", "H5Dwrite", "H5Fclose"}

VarBuf == [nalloc : Nat, nrecs : Nat, buf : Seq(Nat \cup {None})]

IsVarBuf(c) == c \in VarBuf /\ Len(c.buf) = c.nalloc

HeaderType ==
  /\ nc \in [Rank -> Header]
  /\ defs \in [Rank -> Seq(DefCall)]
  /\ headerLen \in [Rank -> Nat]

BlobType ==
  /\ pc \in [Rank -> PC]
  /\ rec \in [Rank -> Step]
  /\ cur \in [Rank -> 0 .. NVars]
  /\ calls \in [Rank -> Seq(Call)]
  /\ cache \in [Rank -> [Var -> VarBuf]]
  /\ \A r \in Rank : \A v \in Var : IsVarBuf(cache[r][v])
  /\ totalLen \in [Rank -> Nat]
  /\ numrecs \in [Rank -> Nat]
  /\ psum \in [0 .. NProcs -> Nat]
  /\ red \in 0 .. NProcs
  /\ sum \in [Rank -> Nat \cup {None}]
  /\ start \in [Rank -> Nat \cup {None}]
  /\ header \in Nat \cup {None}
  /\ amount \in [Rank -> Nat]

\* Every variable holds a value of its kind.
TypeOK == HeaderType /\ BlobType

\* The posting loops stay inside what put_vara() supports: no rank runs into
\* its two errors ("non-sequential write", "over write"), nor writes past
\* the end of the cache of a record variable when it crosses a multiple of
\* the growth step, which the code checks nowhere.
PutsAccepted == \A r \in Rank : pc[r] \notin {"thrown", "overrun"}

\* The assertion of close(): packing the cache copies exactly the bytes that
\* put_vara() counted, record by record, in fp->total_len.
PackedIsCounted == \A r \in Rank : pc[r] # "aborted"

\* The regions of the ranks that know theirs do not overlap, follow the rank
\* order, and lie inside the extent every rank gives to data_blob.
RegionsDisjoint ==
  \A q, r \in Rank :
    start[q] # None /\ start[r] # None =>
      /\ q < r => start[q] + totalLen[q] <= start[r]
      /\ start[r] + totalLen[r] <= sum[r]
      /\ sum[q] = sum[r]

\* A closed file has no hole, and the header rank 0 wrote from its own copy
\* of the metadata states the records that every rank's region holds.
FileComplete ==
  (\A r \in Rank : pc[r] = "done") =>
    /\ \A o \in DOMAIN data : data[o] # Hole
    /\ \A r \in Rank : \A v \in RecVar : \A k \in 0 .. NRecs - 1 :
         Posts(r, v) /\ PutLen[r][v] > 0 =>
           <<r, v, k, 1>> \in {data[o] : o \in DOMAIN data}
    /\ \A o \in DOMAIN data : data[o][2] \in RecVar => data[o][3] < header

\* The write amounts the ranks report add up to the bytes of both datasets;
\* all ranks gave the header's the same extent, as a collective call needs.
AmountsAddUp ==
  (\A r \in Rank : pc[r] = "done") =>
    \A q \in Rank : Total([i \in 1 .. NProcs |-> amount[i - 1]])
                      = Cardinality(DOMAIN data) + headerLen[q]

\* However the header is defined, the arrays it is kept in are large enough,
\* and packing it writes the buffer to its end and not beyond: the two
\* traversals of blob_ncmpio.c agree on every name, value and list.
HeaderPacks == \A r \in Rank : ArraysFit(nc[r]) /\ PacksExactly(nc[r])

\* Every rank gets through close(): no collective call waits for ever.
AllClose == <>(\A r \in Rank : pc[r] = "done")

-----------------------------------------------------------------------------
(* Refinement of BlobStore. A reader finds a put by summing the lengths of *)
(* the puts of the same rank before it, variable by variable.              *)

\* The records a rank puts of a variable.
RecsOf(r, v) == IF ~Posts(r, v) THEN 0 ELSE IF v \in RecVar THEN NRecs ELSE 1

Puts(r) == {p \in Var \X (0 .. NRecs) : PutLen[r][p[1]] > 0 /\ p[2] < RecsOf(r, p[1])}

Offset(r, p) ==
  start[r] + Total([v \in 1 .. p[1] - 1 |-> RecsOf(r, v) * PutLen[r][v]])
           + p[2] * PutLen[r][p[1]]

Readable(r) ==
  {p \in Puts(r) : \A b \in 1 .. PutLen[r][p[1]] :
     /\ Offset(r, p) + b - 1 \in DOMAIN data
     /\ data[Offset(r, p) + b - 1] = <<r, p[1], p[2], b>>}

HasStored == {r \in Rank : pc[r] \in {"head", "fclose", "done"}}

Cached(r) ==
  UNION {{v} \X (ToSet(cache[r][v].buf) \ {None}) : v \in {w \in Var : PutLen[r][w] > 0}}

Store == INSTANCE BlobStore WITH
  Proc   <- Rank,
  Put    <- Var \X (0 .. NRecs),
  cached <- [r \in Rank |-> Cached(r)],
  stored <- [r \in Rank |-> IF r \in HasStored THEN Readable(r) ELSE {}],
  closed <- HasStored

\* Blob I/O through the driver keeps BlobStore's promise.
StoreSpec == Store!Spec
=============================================================================
