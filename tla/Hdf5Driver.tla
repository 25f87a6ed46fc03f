------------------------------ MODULE Hdf5Driver ------------------------------
(***************************************************************************)
(* The drivers of the canonical and the log layout that end in HDF5        *)
(* (src/src/drivers/e3sm_io_driver_hdf5*.cpp, e3sm_io_driver_nc4.cpp).     *)
(* Their ranks execute the program of VarWrCase; every time step begins by *)
(* extending the record datasets.  They differ in what a put does:         *)
(*                                                                         *)
(*   hdf5      writes at once, put_vara() independently, put_varn() in one *)
(*             collective H5Dwrite, whether or not a rank has a part       *)
(*             (varn_expand());                                            *)
(*   hdf5_md   queues the selection and the user's buffer (post_varn());   *)
(*             wait() hands the queue to one collective H5Dwrite_multi     *)
(*             (flush_multidatasets());                                    *)
(*   hdf5_log  hands the requests to the Log VOL, which keeps them until   *)
(*             wait() calls the collective H5Fflush;                       *)
(*   netcdf4   writes its requests at once, one by one and independently;  *)
(*             it extends a variable by writing a cell with any content.   *)
(*                                                                         *)
(* A dataset is flattened to elements 0, 1, ... of each of its records;    *)
(* the file holds, at each of them, the buffer element last written there. *)
(***************************************************************************)
EXTENDS Collectives, SequencesExt, FiniteSetsExt

CONSTANTS
  Apis,    \* the drivers to run
  VarLen,  \* VarLen[v]: elements of (a record of) variable v
  Scalar,  \* the variables that have no dimension
  Reqs     \* Reqs[r][v]: offset and length of the requests of rank r in a
           \* partitioned variable, as the decomposition map lists them

ASSUME Hdf5DriverAssumption ==
  /\ Apis \subseteq {"hdf5", "hdf5_md", "hdf5_log", "netcdf4"}
  /\ VarLen \in [Var -> Nat]
  /\ Scalar \subseteq Var \ (RecVar \cup Partitioned)
  /\ \A v \in Scalar : VarLen[v] = 1
  /\ Reqs \in [Rank -> [Var -> Seq([off : Nat, len : Nat \ {0}])]]
  /\ \A v \in Partitioned : \A r, q \in Rank :
       \A i \in DOMAIN Reqs[r][v], j \in DOMAIN Reqs[q][v] :
         LET a == Reqs[r][v][i]
             b == Reqs[q][v][j]
         IN  /\ a.off + a.len <= VarLen[v]
             /\ \/ <<r, i>> = <<q, j>>
                \/ a.off + a.len <= b.off
                \/ b.off + b.len <= a.off

VARIABLES
  api,     \* the -a option
  pc,      \* where each rank is
  rec,     \* rec_no, -1 while it posts the fixed-size variables
  cur,     \* the last variable it posted in this step
  extent,  \* records of the record datasets, as this rank has them
  queue,   \* what is given to the library and not written yet: the request
           \* of the H5Dwrite the rank is in, the driver's vectors
           \* wdset_ids, wdset_space_ids, wmem_space_ids and wbufs, or
           \* what the Log VOL keeps
  file,    \* the elements of the datasets
  amount   \* amount_WR of this rank

vars == <<calls, api, pc, rec, cur, extent, queue, file, amount>>

-----------------------------------------------------------------------------
(* What a call asks for.                                                   *)

None  == <<>>
Dummy == <<"dummy">>  \* what the cell holds that extends a variable

\* main() does not let hdf5_md flush several records at a time; a fault does.
OptionFfreq == Ffreq
MainFfreq   == IF api = "hdf5_md" /\ Ffreq > 1 THEN 1 ELSE Ffreq

FlushNow(k) == FlushEvery(Clipped(MainFfreq), k)

\* read_decomp() sorts the requests by offset. -q leaves them as they are.
Unsorted(q) == q
Sorted(q)   == CHOOSE s \in [DOMAIN q -> ToSet(q)] :
                 \A i, j \in DOMAIN q : i < j => s[i].off < s[j].off

\* The requests of one call, and the elements of the dataset in the order in
\* which the buffer supplies them.
Requests(r, v) == IF v \in Partitioned THEN Sorted(Reqs[r][v])
                  ELSE <<[off |-> 0, len |-> VarLen[v]]>>
Elements(q)    == FlattenSeq([i \in 1 .. Len(q) |->
                    [j \in 1 .. q[i].len |-> q[i].off + j - 1]])

RecOf(k) == IF k < 0 THEN 0 ELSE k

\* What a put selects: post_varn() nothing of a scalar. A fault skips the
\* first request.
SelectsLater(r, v) == IF v \in Scalar /\ api = "hdf5_md" THEN <<>>
                      ELSE Elements(SubSeq(Requests(r, v), 2, Len(Requests(r, v))))
Selected(r, v)     == IF v \in Scalar /\ api = "hdf5_md" THEN <<>>
                      ELSE Elements(Requests(r, v))

Init ==
  /\ api \in Apis
  /\ calls  = [r \in Rank |-> <<>>]
  /\ pc     = [r \in Rank |-> "post"]
  /\ rec    = [r \in Rank |-> -1]
  /\ cur    = [r \in Rank |-> 0]
  /\ extent = [r \in Rank |-> 0]
  /\ queue  = [r \in Rank |-> <<>>]
  /\ file   = [v \in Var |-> [k \in 0 .. NRecs |->
                 [p \in 0 .. VarLen[v] - 1 |-> None]]]
  /\ amount = [r \in Rank |-> 0]

-----------------------------------------------------------------------------
(* The posting loops.                                                      *)

\* A request that selects nothing leaves nothing to write; a fault queues it
\* as well.
QueuedAlways(q, e) == Append(q, e)
Queued(q, e)       == IF e.sel = <<>> THEN q ELSE Append(q, e)

\* hdf5: put_varn() is in a collective H5Dwrite, put_vara() in one of its own.
\* A fault leaves out the ranks that select nothing.
EntersIfAny(r, v) ==
  IF api = "hdf5" /\ v \in Partitioned /\ Selected(r, v) # <<>>
  THEN Enter(r, "H5Dwrite") ELSE UNCHANGED calls
EntersWrite(r, v) ==
  IF api = "hdf5" /\ v \in Partitioned THEN Enter(r, "H5Dwrite") ELSE UNCHANGED calls

\* put_vara() and put_varn(): post_varn(), the Log VOL's H5Dwrite and
\* H5Dwrite_n, or the beginning of an H5Dwrite or of nc_put_vara().
PutVar(r) ==
  /\ pc[r] = "post"
  /\ \E v \in Var :
       /\ IsNext(v, r, rec[r], cur[r])
       /\ cur' = [cur EXCEPT ![r] = v]
       /\ LET sel == Selected(r, v)
          IN  /\ queue' = [queue EXCEPT ![r] = Queued(@,
                   [var |-> v, rec |-> RecOf(rec[r]), sel |-> sel,
                    inside |-> v \notin RecVar \/ rec[r] < extent[r]])]
              /\ amount' = [amount EXCEPT ![r] = @ + Len(sel)]
       /\ EntersWrite(r, v)
  /\ pc' = [pc EXCEPT ![r] = IF api \in {"hdf5", "netcdf4"} THEN "dwrite" ELSE "post"]
  /\ UNCHANGED <<api, rec, extent, file>>

\* The next time step, which first extends the datasets, or the barrier
\* before the file is closed.
NextStep(r) ==
  IF rec[r] + 1 < NRecs
  THEN /\ pc'  = [pc EXCEPT ![r] = "extend"]
       /\ rec' = [rec EXCEPT ![r] = @ + 1]
       /\ Enter(r, "H5Dset_extent")
  ELSE /\ pc' = [pc EXCEPT ![r] = "sync"]
       /\ Enter(r, "barrier")
       /\ UNCHANGED rec

\* expand_rec_size(rec_no + 1); a fault forgets the increment.
ExtendShort(e, k) == IF e < k THEN k ELSE e
Extended(e, k)    == IF e < k + 1 THEN k + 1 ELSE e

\* All ranks of netcdf4 write the cell in one collective nc_put_var1, which
\* ends in the file before one of them goes on; independently they would end
\* one after the other.
IndependentOut(r) == api = "netcdf4"
FirstOut(r)       == api = "netcdf4" /\ \A q \in Rank : extent[q] <= rec[r]
CellWritten(k) ==
  [v \in Var |-> IF v \in RecVar /\ VarLen[v] > 0
                 THEN [file[v] EXCEPT ![k][0] = Dummy] ELSE file[v]]

Extend(r) ==
  /\ pc[r] = "extend"
  /\ AllEntered(r)
  /\ file' = IF FirstOut(r) THEN CellWritten(rec[r]) ELSE file
  /\ extent' = [extent EXCEPT ![r] = Extended(@, rec[r])]
  /\ pc' = [pc EXCEPT ![r] = "post"]
  /\ cur' = [cur EXCEPT ![r] = 0]
  /\ UNCHANGED <<api, calls, rec, queue, amount>>

EndStep(r) ==
  /\ pc[r] = "post"
  /\ Remaining(r, rec[r], cur[r]) = {}
  /\ IF FlushNow(rec[r])
     THEN /\ pc' = [pc EXCEPT ![r] = "flush"]
          /\ Enter(r, "barrier")
          /\ UNCHANGED rec
     ELSE NextStep(r)
  /\ UNCHANGED <<api, cur, extent, queue, file, amount>>

-----------------------------------------------------------------------------
(* wait().                                                                 *)

\* Nothing for hdf5 and netcdf4; flush_multidatasets() calls H5Dwrite_multi if something
\* is queued; H5Fflush for the Log VOL.
BeginFlush(r) ==
  /\ pc[r] = "flush"
  /\ AllEntered(r)
  /\ \/ /\ api \in {"hdf5", "netcdf4"} \/ (api = "hdf5_md" /\ queue[r] = <<>>)
        /\ NextStep(r)
     \/ /\ api = "hdf5_md" /\ queue[r] # <<>>
        /\ pc' = [pc EXCEPT ![r] = "multi"]
        /\ Enter(r, "H5Dwrite_multi")
        /\ UNCHANGED rec
     \/ /\ api = "hdf5_log"
        /\ pc' = [pc EXCEPT ![r] = "fflush"]
        /\ Enter(r, "H5Fflush")
        /\ UNCHANGED rec
  /\ UNCHANGED <<api, cur, extent, queue, file, amount>>

\* What one request writes: the Log VOL and netcdf4 take its parts in the order
\* of the buffer; otherwise the selection, the union of the hyperslabs, is traversed
\* in the order of the file, and the buffer in its own.
BufferPlace(e, p) ==
  IF api \in {"hdf5_log", "netcdf4"} THEN CHOOSE i \in DOMAIN e.sel : e.sel[i] = p
  ELSE Cardinality({x \in ToSet(e.sel) : x <= p})
Image(r, e) == [p \in ToSet(e.sel) |-> <<r, e.var, e.rec, BufferPlace(e, p)>>]

\* HDF5 refuses a request whose selection and buffer differ in size, or that
\* leaves the extent the dataset had when the request was posted.
Refused(e) == Cardinality(ToSet(e.sel)) # Len(e.sel) \/ ~e.inside

Written(r, q) ==
  [v \in Var |-> [k \in 0 .. NRecs |->
     [p \in DOMAIN file[v][k] |->
        LET hit == {i \in DOMAIN q : /\ q[i].var = v /\ q[i].rec = k
                                     /\ p \in ToSet(q[i].sel)}
        IN  IF hit = {} THEN file[v][k][p] ELSE Image(r, q[Max(hit)])[p]]]]

\* The end of the library's call, collective but for the H5Dwrite of put_vara()
\* and nc_put_vara().
Independent(r) == pc[r] = "dwrite" /\ (api = "netcdf4" \/ cur[r] \notin Partitioned)

EndWrite(r) ==
  /\ pc[r] \in {"dwrite", "multi", "fflush"}
  /\ Independent(r) \/ AllEntered(r)
  /\ IF \E i \in DOMAIN queue[r] : Refused(queue[r][i])
     THEN /\ pc' = [pc EXCEPT ![r] = "failed"]
          /\ UNCHANGED <<calls, rec, queue, file>>
     ELSE /\ file' = Written(r, queue[r])
          /\ queue' = [queue EXCEPT ![r] = <<>>]
          /\ IF pc[r] = "dwrite"
             THEN pc' = [pc EXCEPT ![r] = "post"] /\ UNCHANGED <<calls, rec>>
             ELSE NextStep(r)
  /\ UNCHANGED <<api, cur, extent, amount>>

-----------------------------------------------------------------------------
(* close().                                                                *)

BeginClose(r) ==
  /\ pc[r] = "sync"
  /\ AllEntered(r)
  /\ pc' = [pc EXCEPT ![r] = "fclose"]
  /\ Enter(r, "H5Fclose")
  /\ UNCHANGED <<api, rec, cur, extent, queue, file, amount>>

EndClose(r) ==
  /\ pc[r] = "fclose"
  /\ AllEntered(r)
  /\ pc' = [pc EXCEPT ![r] = "done"]
  /\ UNCHANGED <<api, calls, rec, cur, extent, queue, file, amount>>

RankNext(r) ==
  \/ PutVar(r) \/ Extend(r) \/ EndStep(r) \/ BeginFlush(r)
  \/ EndWrite(r) \/ BeginClose(r) \/ EndClose(r)

\* The run is over: the file is closed on every rank.
Finished ==
  /\ \A r \in Rank : pc[r] = "done"
  /\ UNCHANGED vars

Next == (\E r \in Rank : RankNext(r)) \/ Finished

Spec == Init /\ [][Next]_vars

\* Every rank is a running process.
FairSpec == Spec /\ \A r \in Rank : WF_vars(RankNext(r))
-----------------------------------------------------------------------------
(* Properties.                                                             *)

PC == {"post", "dwrite", "extend", "flush", "multi", "fflush", "failed", "sync",
       "fclose", "done"}

Call == {"barrier", "H5Dset_extent", "H5Dwrite", "H5Dwrite_multi", "H5Fflush",
         "H5Fclose"}

Request == [var : Var, rec : Nat, sel : Seq(Nat) \ {<<>>}, inside : BOOLEAN]

\* Every variable holds a value of its kind; nothing empty is ever queued.
TypeOK ==
  /\ api \in Apis
  /\ calls \in [Rank -> Seq(Call)]
  /\ pc \in [Rank -> PC]
  /\ rec \in [Rank -> Step]
  /\ cur \in [Rank -> 0 .. NVars]
  /\ extent \in [Rank -> 0 .. NRecs]
  /\ queue \in [Rank -> Seq(Request)]
  /\ \A v \in Var : \A k \in 0 .. NRecs :
       DOMAIN file[v][k] = 0 .. VarLen[v] - 1

\* HDF5 accepts every request: the program extends the datasets before
\* it selects the records of a time step, on every rank.
RequestsAccepted == \A r \in Rank : pc[r] # "failed"

\* "Do not support same dataset appears twice or more in a single call"
\* (src/src/e3sm_io.c:406-417): no dataset is twice in the queue that
\* H5Dwrite_multi() gets.
NoDatasetTwice ==
  \A r \in Rank : \A i, j \in DOMAIN queue[r] :
    pc[r] = "multi" /\ queue[r][i].var = queue[r][j].var => i = j

\* What the program wants of the dataset's elements: element p of record k of
\* variable v is the one of its buffer that the map lists in that place.
Wanted(r, v, k) ==
  LET elems == Elements(Requests(r, v))
  IN  IF Posts(r, v) /\ (v \in RecVar => k < NRecs) /\ (v \notin RecVar => k = 0)
      THEN {<<elems[i], <<r, v, k, i>>>> : i \in DOMAIN elems}
      ELSE {}

AllWanted == UNION {Wanted(r, v, k) : r \in Rank, v \in Var, k \in 0 .. NRecs}

\* A closed file holds everything the ranks put, each element where the
\* decomposition map places it: a posted request is "later flushed at wait()"
\* (src/src/drivers/e3sm_io_driver_hdf5_md.cpp:114). The ranks report it all.
FileComplete ==
  (\A r \in Rank : pc[r] = "done") =>
    \A r \in Rank :
      LET places == {x \in Var \X (0 .. NRecs) \X AllWanted :
                       x[3] \in Wanted(r, x[1], x[2])}
      IN  /\ \A x \in places : file[x[1]][x[2]][x[3][1]] = x[3][2]
          /\ amount[r] = Cardinality(places)

\* Every rank gets through close(): no collective call waits for ever.
AllClose == <>(\A r \in Rank : pc[r] = "done")

-----------------------------------------------------------------------------
(* Refinement of DeferredStore.                                            *)

Posted(r) == UNION {{<<queue[r][i].var, queue[r][i].rec, p>> :
                       p \in ToSet(queue[r][i].sel)} : i \in DOMAIN queue[r]}

Stored(r) == UNION {{<<v, k, w[1]>> :
                       w \in {u \in Wanted(r, v, k) : file[v][k][u[1]] = u[2]}} :
                       v \in Var, k \in 0 .. NRecs}

Store == INSTANCE DeferredStore WITH
  Proc   <- Rank,
  Put    <- Var \X Nat \X Nat,
  posted <- [r \in Rank |-> Posted(r)],
  stored <- [r \in Rank |-> Stored(r)]

\* The driver keeps DeferredStore's promise.
StoreSpec == Store!Spec
=============================================================================
