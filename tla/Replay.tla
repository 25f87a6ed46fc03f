------------------------------- MODULE Replay -------------------------------
(***************************************************************************)
(* pnetcdf_blob_replay (src/utils/pnetcdf_blob_replay.c): the processes of *)
(* a later run read the subfiles of SubFiles, each node's processes one    *)
(* subfile, and write one file in canonical layout together.               *)
(*                                                                         *)
(* Two collective worlds meet here: the processes of a node wait for their *)
(* reads together, all processes wait for the writes.  Every process takes *)
(* the blob whose number is its rank on its node.  utils/README.md:298-300 *)
(* asks for "the same number of MPI processes that produced the subfiles"; *)
(* the program warns if their number is not the recorded one.  The model   *)
(* lets them be fewer, as many or more, on any nodes.                      *)
(***************************************************************************)
EXTENDS SubFiles

CONSTANT Replays  \* placements of the replaying processes

ASSUME ReplayAssumption ==
  \A p \in Replays : /\ IsFiniteSet(DOMAIN p) /\ DOMAIN p # {}
                     /\ DOMAIN p = 0 .. Cardinality(DOMAIN p) - 1

VARIABLES
  rplace,  \* the node of each process
  rpc,
  rid,     \* subfile_ID ...
  rnsub,   \* ... and num_subfiles
  dec,     \* what set_decomp() has read, of each process
  shape,   \* the names of the dimensions of each variable in the output file
  krec,    \* the record each process works on, -1: the fixed-size variables
  igets,   \* pending reads: variable, record, first place, number, buffer
  buf,     \* the buffer, a function from positions to values
  iputs,   \* pending writes: variable, record, buffer
  warned   \* the world's root has printed a warning

rvars == <<rplace, rpc, rid, rnsub, dec, shape, krec, igets, buf, iputs, warned>>
vars  == <<wvars, rvars>>

P == DOMAIN rplace
NodesOfP == {OnNode(rplace, p) : p \in P}
RAt(S, l) == \A p \in S : rpc[p] = l
RGo(S, l) == rpc' = [p \in P |-> IF p \in S THEN l ELSE rpc[p]]

\* A canonical file is not replayed.
InitReplay ==
  /\ rplace \in Replays
  /\ layout = "canonical" => rplace = place
  /\ rpc = [p \in P |-> "split"]
  /\ rid = [p \in P |-> 0] /\ rnsub = [p \in P |-> 0]
  /\ dec = [p \in P |-> <<>>]
  /\ shape = <<>>
  /\ krec = [p \in P |-> -1]
  /\ igets = [p \in P |-> {}] /\ iputs = [p \in P |-> {}]
  /\ buf = [p \in P |-> <<>>]
  /\ warned = FALSE

Init == InitWrite /\ InitReplay

\* split_comm(), as in calc_metadata(), and its broadcast.
RSplit ==
  /\ Written /\ layout = "blob"
  /\ RAt(P, "split") /\ RGo(P, "bcast")
  /\ rnsub' = [p \in P |-> Cardinality(Colour(rplace, p))]
  /\ rid'   = [p \in P |-> RankIn(Colour(rplace, p), p)]
  /\ UNCHANGED <<wvars, rplace, dec, shape, krec, igets, buf, iputs, warned>>

RBcast(S) ==
  /\ RAt(S, "bcast") /\ RGo(S, "open")
  /\ rnsub' = [p \in P |-> IF p \in S THEN FromRoot(rnsub, rplace)[p] ELSE rnsub[p]]
  /\ rid'   = [p \in P |-> IF p \in S THEN FromRoot(rid, rplace)[p] ELSE rid[p]]
  /\ UNCHANGED <<wvars, rplace, dec, shape, krec, igets, buf, iputs, warned>>

\* A missing subfile aborts all processes.
ROpen(S) ==
  /\ RAt(S, "open")
  /\ IF \A p \in S : rid[p] \in DOMAIN subfile
     THEN RGo(S, "create") ELSE RGo(P, "aborted")
  /\ UNCHANGED <<wvars, rplace, rid, rnsub, dec, shape, krec, igets, buf, iputs, warned>>

\* The output file is created by all; then the root compares the numbers of
\* processes and subfiles with those recorded.
WarnOfSubfiles(h) == h.nsubfiles # rnsub[0]  \* a fault: of subfiles only
WarnOf(h) == h.nprocs # Cardinality(P) \/ h.nsubfiles # rnsub[0]
RCreate ==
  /\ RAt(P, "create") /\ RGo(P, "decomp")
  /\ warned' = WarnOf(subfile[rid[0]].header)
  /\ UNCHANGED <<wvars, rplace, rid, rnsub, dec, shape, krec, igets, buf, iputs>>

\* set_decomp() turns the pairs into start and count vectors.
ReplayStarts(pairs, dims) == [i \in 1 .. Len(pairs) |-> ReplayCoord(pairs[i][1], dims)]

\* set_decomp(): collective reads of the entries of the process's blob. If
\* a process has no blob its read fails and it leaves; the others wait for it
\* in the next collective read.
ReadDecomp(S) ==
  LET h == subfile[rid[CHOOSE p \in S : TRUE]].header
      b(p) == SubRank(rplace, p)
      failed == {p \in S : b(p) >= h.nblobs}
  IN  /\ RAt(S, "decomp")
      /\ rpc' = [p \in P |-> IF p \notin S THEN rpc[p]
                             ELSE IF failed = {} THEN "define"
                             ELSE IF p \in failed THEN "failed" ELSE "blocked"]
      /\ dec' = [p \in P |-> IF p \notin S \/ failed # {} THEN dec[p]
                   ELSE [d \in Decomp |-> [start |-> h.start[d][b(p)], count |-> h.count[d][b(p)],
                                           pairs |-> h.pairs[d][b(p)],
                                           starts |-> ReplayStarts(h.pairs[d][b(p)], Dims[d])]]]
      /\ UNCHANGED <<wvars, rplace, rid, rnsub, shape, krec, igets, buf, iputs, warned>>

\* copy_dims() skips the dimensions of blob I/O, so the others may get new
\* IDs; set_vars() defines the variables with the IDs of the subfile.
NewID(dims, j) == Cardinality({k \in 1 .. j : dims[k] \notin ToSet(BlobDims)})
Copies(dims) ==
  [n \in 1 .. NewID(dims, Len(dims)) |->
     dims[CHOOSE k \in DOMAIN dims : dims[k] \notin ToSet(BlobDims) /\ NewID(dims, k) = n]]
RDefine ==
  LET dims  == subfile[rid[0]].header.dims
      ID(n) == CHOOSE j \in DOMAIN dims : dims[j] = n
  IN  /\ RAt(P, "define") /\ RGo(P, "read")
      /\ shape' = [v \in DOMAIN Vars |-> [i \in DOMAIN Vars[v].dims |->
                     LET j == ID(CaseDims[Vars[v].dims[i]])
                     IN  IF j \in DOMAIN Copies(dims) THEN Copies(dims)[j] ELSE <<"error", 0>>]]
      /\ UNCHANGED <<wvars, rplace, rid, rnsub, dec, krec, igets, buf, iputs, warned>>

-----------------------------------------------------------------------------
(* Copying, first the fixed-size variables and then record by record.      *)

\* The variables process p copies, in the order of their IDs, and where the
\* data of each begins in the buffer.
Copied(p) ==
  {v \in DOMAIN Vars : /\ Vars[v].rec <=> krec[p] >= 0
                       /\ Vars[v].decomp > 0 \/ p = 0}
Length(p, v) == IF Vars[v].decomp = 0 THEN 1 ELSE dec[p][Vars[v].decomp].count
Before(p, v) == Total([w \in {w \in Copied(p) : w < v} |-> Length(p, w)])
Record(p) == IF krec[p] < 0 THEN 0 ELSE krec[p]

\* One iget per variable: all of a variable that is not partitioned, or the
\* process's blob.
PostReads(p) ==
  /\ rpc[p] = "read" /\ RGo({p}, "wait_in")
  /\ igets' = [igets EXCEPT ![p] =
       {[var |-> v, rec |-> Record(p), at |-> Before(p, v),
         from |-> IF Vars[v].decomp = 0 THEN 0 ELSE dec[p][Vars[v].decomp].start,
         n |-> Length(p, v)] : v \in Copied(p)}]
  /\ UNCHANGED <<wvars, rplace, rid, rnsub, dec, shape, krec, buf, iputs, warned>>

\* Where the data is in the subfile.
Stored(g, i) == <<g.var, g.rec, IF Vars[g.var].decomp = 0 THEN <<>> ELSE g.from + i>>

WaitReads(S) ==
  /\ RAt(S, "wait_in") /\ RGo(S, "write")
  /\ buf' = [p \in P |-> IF p \notin S THEN buf[p]
       ELSE Over(Put(UNION {{<<g.at + i, subfile[rid[p]].data[Stored(g, i)]>> : i \in 0 .. g.n - 1} :
                            g \in igets[p]}), buf[p])]
  /\ igets' = [p \in P |-> IF p \in S THEN {} ELSE igets[p]]
  /\ UNCHANGED <<wvars, rplace, rid, rnsub, dec, shape, krec, iputs, warned>>

\* One iput per variable, its data at the place the reads left it.
PostWrites(p) ==
  /\ rpc[p] = "write" /\ RGo({p}, "wait_out")
  /\ iputs' = [iputs EXCEPT ![p] =
       {[var |-> v, rec |-> Record(p), at |-> Before(p, v)] : v \in Copied(p)}]
  /\ UNCHANGED <<wvars, rplace, rid, rnsub, dec, shape, krec, igets, buf, warned>>

\* What the flush of process p stores: successive elements of the buffer in
\* the cells of the pairs.
CellsTo(w, p) ==
  IF Vars[w.var].decomp = 0 THEN << <<>> >>
  ELSE Cells(dec[p][Vars[w.var].decomp].starts, dec[p][Vars[w.var].decomp].pairs)
DataOf(p) ==
  UNION {{<< <<w.var, w.rec, CellsTo(w, p)[j]>>, buf[p][w.at + j - 1] >> :
            j \in DOMAIN CellsTo(w, p)} : w \in iputs[p]}

\* All processes flush the output file.
WaitWrites ==
  /\ RAt(P, "wait_out")
  /\ RGo(P, IF krec[0] = NRecs - 1 THEN "close" ELSE "read")
  /\ file' = Over(Put(UNION {DataOf(p) : p \in P}), file)
  /\ iputs' = [p \in P |-> {}]
  /\ krec' = [p \in P |-> IF krec[p] = NRecs - 1 THEN krec[p] ELSE krec[p] + 1]
  /\ UNCHANGED <<layout, place, pc, nsub, id, start, count, nelems, maxReqs, posted, subfile,
                 rplace, rid, rnsub, dec, shape, igets, buf, warned>>

RClose ==
  /\ RAt(P, "close") /\ RGo(P, "done")
  /\ UNCHANGED <<wvars, rplace, rid, rnsub, dec, shape, krec, igets, buf, iputs, warned>>

NextReplay ==
  \/ RSplit \/ RCreate \/ RDefine \/ WaitWrites \/ RClose
  \/ \E S \in NodesOfP : RBcast(S) \/ ROpen(S) \/ ReadDecomp(S) \/ WaitReads(S)
  \/ \E p \in P : PostReads(p) \/ PostWrites(p)

Next == (NextWrite /\ UNCHANGED rvars) \/ NextReplay

Spec == Init /\ [][Next]_vars

\* MPI processes that can continue do so. No behaviour has a cycle, so
\* fairness of the whole is enough.
FairSpec == Spec /\ WF_vars(Next)

-----------------------------------------------------------------------------
(* Properties. *)

Done == IF layout = "canonical" THEN Written ELSE RAt(P, "done")

TypeOK ==
  /\ layout \in {"canonical", "blob"}
  /\ place \in Placements /\ rplace \in Replays
  /\ \A r \in Rank : pc[r] \in {"calc", "split", "bcast", "scan", "post", "wait", "flushed", "closed"}
  /\ DOMAIN subfile \subseteq Nat
  /\ DOMAIN file \subseteq DOMAIN Want
  /\ krec \in [P -> -1 .. NRecs - 1]
  /\ \A p \in P : DOMAIN buf[p] \subseteq Nat

\* A replay that ends, and does not say that processes or subfiles are fewer
\* or more than recorded, has made the file that canonical I/O would have
\* written, in the shape of the case. With as many processes the only check
\* of their placement is that a process without a blob fails.
CompleteOrWarned ==
  Done => \/ /\ file = Want
             /\ layout = "blob" => \A v \in DOMAIN Vars : \A i \in DOMAIN shape[v] :
                                     shape[v][i] = CaseDims[Vars[v].dims[i]]
          \/ warned

\* Nothing wrong is ever written and nothing is written twice with different
\* data, in whatever order ranks and nodes go on.
Canonical ==
  INSTANCE CanonicalFile WITH closed <- Done
WritesCanonically == Canonical!Spec

\* If every node has as many processes as the subfile with its number has
\* blobs, waiting by node for reads and by all for writes does not block.
Sizes(p) == [n \in 0 .. Cardinality({OnNode(p, r) : r \in DOMAIN p}) - 1 |->
               Cardinality(OnNode(p, CHOOSE r \in DOMAIN p :
                              SubRank(p, r) = 0 /\ RankIn(Colour(p, r), r) = n))]
SameNodes == layout = "blob" => Sizes(place) = Sizes(rplace)
Terminates == SameNodes => <>Done
=============================================================================
