------------------------------ MODULE SubFiles ------------------------------
(***************************************************************************)
(* Who writes what where: calc_metadata() (src/src/calc_metadata.c) and    *)
(* the requests that var_wr_case() makes of it for the PnetCDF driver.     *)
(*                                                                         *)
(* In canonical layout a rank writes its requests, offset-length pairs of  *)
(* flattened arrays, to the cells of one file.  In blob layout the ranks   *)
(* of a compute node share a subfile, in which every rank's part of a      *)
(* variable is one contiguous blob; where it starts is an exclusive scan   *)
(* over the node's communicator, and the subfile's number is the rank of   *)
(* the node's root among the roots.  The order in which requests are       *)
(* posted and flushed is the subject of PncDriver: here a rank posts all   *)
(* of them and one flush stores them.                                      *)
(***************************************************************************)
EXTENDS Offsets, FiniteSets, SequencesExt

CONSTANTS
  Rank,       \* 0 .. n - 1, the ranks of io_comm
  Placements, \* ways to put them on compute nodes, functions from Rank
  Dims,       \* decom.dims of each decomposition
  Reqs,       \* Reqs[d][r]: the offset-length pairs of rank r
  DimNames,   \* the dimensions of the case, in the order of their IDs
  Vars,       \* the climate variables: [rec |-> .., decomp |-> .., dims |->
              \* ..], decomposition 0 is none, dims are IDs
  NRecs

Decomp == DOMAIN Dims
Steps  == 0 .. NRecs - 1

\* The elements of an array that a rank's requests list.
Elements(pairs) ==
  FlattenSeq([i \in 1 .. Len(pairs) |-> [j \in 1 .. pairs[i][2] |-> pairs[i][1] + j - 1]])
Listed(d) == UNION {ToSet(Elements(Reqs[d][r])) : r \in Rank}

\* What read_decomp() delivers: no element belongs to two requests, and no
\* request crosses a row (see Decomp); elements without an owner are holes.
ASSUME SubFilesAssumption ==
  /\ IsFiniteSet(Rank) /\ Rank # {} /\ Rank = 0 .. Cardinality(Rank) - 1
  /\ \A p \in Placements : DOMAIN p = Rank
  /\ Dims \in Seq(Seq(Nat \ {0})) /\ \A d \in Decomp : Len(Dims[d]) \in 1 .. 3
  /\ \A d \in Decomp, r \in Rank :
       /\ Reqs[d][r] \in Seq(Nat \X (Nat \ {0}))
       /\ \A i \in DOMAIN Reqs[d][r] :
            /\ \E c \in Index(Dims[d]) : RowMajor(c, Dims[d]) = Reqs[d][r][i][1]
            /\ (Reqs[d][r][i][1] % Dims[d][Len(Dims[d])]) + Reqs[d][r][i][2] <= Dims[d][Len(Dims[d])]
  /\ \A d \in Decomp, q, r \in Rank :
       \A i \in DOMAIN Elements(Reqs[d][q]), j \in DOMAIN Elements(Reqs[d][r]) :
         Elements(Reqs[d][q])[i] = Elements(Reqs[d][r])[j] => q = r /\ i = j
  /\ DimNames \in Seq(STRING \ {"nblobs"})
  /\ \A i, j \in DOMAIN DimNames : DimNames[i] = DimNames[j] => i = j
  /\ Vars \in Seq([rec : BOOLEAN, decomp : {0} \cup Decomp, dims : Seq(DOMAIN DimNames)])
  /\ NRecs \in Nat

-----------------------------------------------------------------------------
(* Cells of the canonical file.                                            *)

Cells(starts, pairs) ==
  FlattenSeq([i \in 1 .. Len(pairs) |-> RequestCells(starts[i], pairs[i][2])])
Starts(pairs, dims) == [i \in 1 .. Len(pairs) |-> Coord(pairs[i][1], dims)]

\* What the file is to hold: element e of variable v in record k, at the
\* place of e in row-major order, if e belongs to a rank.
RecordsOf(v) == IF Vars[v].rec THEN Steps ELSE {0}
Owned(d)     == {c \in Index(Dims[d]) : RowMajor(c, Dims[d]) \in Listed(d)}
CellsOf(v) ==
  {<<v, k, c>> : k \in RecordsOf(v),
                 c \in IF Vars[v].decomp = 0 THEN {<<>>} ELSE Owned(Vars[v].decomp)}
Want ==
  [c \in UNION {CellsOf(v) : v \in DOMAIN Vars} |->
     IF c[3] = <<>> THEN <<c[1], c[2], 0>>
     ELSE <<c[1], c[2], RowMajor(c[3], Dims[Vars[c[1]].decomp])>>]

\* def_F_case(), def_G_case(), def_I_case() add the dimensions of blob I/O
\* behind those of the case.
CaseDims == [i \in DOMAIN DimNames |-> <<DimNames[i], 0>>]
BlobDims == << <<"nblobs", 0>> >> \o [d \in Decomp |-> <<"nelems", d>>]
                                \o [d \in Decomp |-> <<"max_nreqs", d>>]
SubfileDims == CaseDims \o BlobDims

-----------------------------------------------------------------------------
(* Communicators: MPI orders the ranks of a split by their old ranks.      *)

RankIn(S, r) == Cardinality({q \in S : q < r})
OnNode(p, r) == {q \in DOMAIN p : p[q] = p[r]}
SubRank(p, r) == RankIn(OnNode(p, r), r)
SubRoot(p, r) == CHOOSE q \in OnNode(p, r) : SubRank(p, q) = 0
\* MPI_Comm_split() with a colour for the roots and one for all the others.
Colour(p, r) == {q \in DOMAIN p : (SubRank(p, q) = 0) = (SubRank(p, r) = 0)}

-----------------------------------------------------------------------------
VARIABLES
  layout,   \* cfg->strategy
  place,    \* the node of each rank
  pc,
  nsub,     \* cfg->num_subfiles ...
  id,       \* ... and subfile_ID, of each rank
  start,    \* decom->start, count, nelems and max_nreqs, of each
  count,    \* decomposition and rank
  nelems,
  maxReqs,
  posted,   \* the variables with requests posted and not flushed
  subfile,  \* the subfiles by their number
  file      \* the canonical file

wvars == <<layout, place, pc, nsub, id, start, count, nelems, maxReqs, posted, subfile, file>>

Zero == [d \in Decomp |-> [r \in Rank |-> 0]]

\* What is stored, and what is there after storing it over something.
Put(pairs) == [c \in {p[1] : p \in pairs} |-> (CHOOSE p \in pairs : p[1] = c)[2]]
Over(new, old) ==
  [c \in DOMAIN new \cup DOMAIN old |-> IF c \in DOMAIN new THEN new[c] ELSE old[c]]

InitWrite ==
  /\ layout \in {"canonical", "blob"}
  /\ place \in Placements
  /\ pc = [r \in Rank |-> IF layout = "blob" THEN "split" ELSE "calc"]
  /\ nsub = [r \in Rank |-> 0] /\ id = [r \in Rank |-> 0]
  /\ start = Zero /\ count = Zero /\ nelems = Zero /\ maxReqs = Zero
  /\ posted = [r \in Rank |-> {}]
  /\ subfile = <<>> /\ file = <<>>

At(S, l) == \A r \in S : pc[r] = l
Go(S, l) == pc' = [r \in Rank |-> IF r \in S THEN l ELSE pc[r]]
Nodes == {OnNode(place, r) : r \in Rank}

\* blob_metadata(): the two splits. A rank that is no root gets the number
\* and size of a communicator of the others, which the broadcast replaces.
Split ==
  /\ At(Rank, "split") /\ Go(Rank, "bcast")
  /\ nsub' = [r \in Rank |-> Cardinality(Colour(place, r))]
  /\ id'   = [r \in Rank |-> RankIn(Colour(place, r), r)]
  /\ UNCHANGED <<layout, place, start, count, nelems, maxReqs, posted, subfile, file>>

FromRoot(f, p) == [r \in DOMAIN p |-> f[SubRoot(p, r)]]

Bcast(S) ==
  /\ At(S, "bcast") /\ Go(S, "scan")
  /\ nsub' = [r \in Rank |-> IF r \in S THEN FromRoot(nsub, place)[r] ELSE nsub[r]]
  /\ id'   = [r \in Rank |-> IF r \in S THEN FromRoot(id, place)[r] ELSE id[r]]
  /\ UNCHANGED <<layout, place, start, count, nelems, maxReqs, posted, subfile, file>>

CountOf(d, r) == Len(Elements(Reqs[d][r]))

\* The sum of the values of f.
Total(f) == Cardinality(UNION {{x} \X (1 .. f[x]) : x \in DOMAIN f})
SumOver(d, S) == Total([q \in S |-> CountOf(d, q)])

\* MPI_Exscan() leaves rank 0 alone, whose start was set to 0; a fault
\* scans the ranks of all nodes.
ScanAll(d, S, r) == SumOver(d, {q \in Rank : q < r})
Exscan(d, S, r) == SumOver(d, {q \in S : q < r})

\* The counts, and the three reductions over the node's ranks.
Reduced(S, old, new) ==
  [d \in Decomp |-> [r \in Rank |-> IF r \in S THEN new[d][r] ELSE old[d][r]]]
Scan(S) ==
  /\ At(S, "scan") /\ Go(S, "post")
  /\ count'   = Reduced(S, count,   [d \in Decomp |-> [r \in S |-> CountOf(d, r)]])
  /\ start'   = Reduced(S, start,   [d \in Decomp |-> [r \in S |-> Exscan(d, S, r)]])
  /\ nelems'  = Reduced(S, nelems,  [d \in Decomp |-> [r \in S |-> SumOver(d, S)]])
  /\ maxReqs' = Reduced(S, maxReqs, [d \in Decomp |-> [r \in S |-> Max({Len(Reqs[d][q]) : q \in S})]])
  /\ UNCHANGED <<layout, place, nsub, id, posted, subfile, file>>

\* calc_metadata() of the canonical layout: counts and start vectors.
Calc(r) ==
  /\ pc[r] = "calc" /\ Go({r}, "post")
  /\ count' = [d \in Decomp |-> [count[d] EXCEPT ![r] = CountOf(d, r)]]
  /\ UNCHANGED <<layout, place, nsub, id, start, nelems, maxReqs, posted, subfile, file>>

\* The data a rank has of variable v, and where it goes: to the cells of its
\* requests, or to its blob.
Posts(v, r) == Vars[v].decomp > 0 \/ (IF layout = "blob" THEN SubRank(place, r) ELSE r) = 0
ElementsOf(v, r) == IF Vars[v].decomp = 0 THEN <<0>> ELSE Elements(Reqs[Vars[v].decomp][r])
PlaceOf(v, r) ==
  LET d == Vars[v].decomp
  IN  IF d = 0 THEN << <<>> >>
      ELSE IF layout = "canonical" THEN Cells(Starts(Reqs[d][r], Dims[d]), Reqs[d][r])
      ELSE [i \in 1 .. count[d][r] |-> start[d][r] + i - 1]

Post(r) ==
  /\ pc[r] = "post" /\ Go({r}, "wait")
  /\ posted' = [posted EXCEPT ![r] = {v \in DOMAIN Vars : Posts(v, r)}]
  /\ UNCHANGED <<layout, place, nsub, id, start, count, nelems, maxReqs, subfile, file>>

\* What the flush of rank r stores.
Data(r) ==
  UNION {{<< <<v, k, PlaceOf(v, r)[i]>>, <<v, k, ElementsOf(v, r)[i]>> >> :
            k \in RecordsOf(v), i \in DOMAIN PlaceOf(v, r)} : v \in posted[r]}

\* The flush of the canonical file by all ranks.
FlushFile ==
  /\ layout = "canonical"
  /\ At(Rank, "wait") /\ Go(Rank, "flushed")
  /\ file' = Put(UNION {Data(r) : r \in Rank})
  /\ posted' = [r \in Rank |-> {}]
  /\ UNCHANGED <<layout, place, nsub, id, start, count, nelems, maxReqs, subfile>>

\* A blob for every rank of the node; a fault takes the last rank for their
\* number.
LastRank(S) == Cardinality(S) - 1
NBlobs(S)   == Cardinality(S)

\* The subfile of a node: dimensions, the global attributes, the
\* decomposition variables, to which every rank writes its row, and data.
Header(S) ==
  LET Blob   == 0 .. Cardinality(S) - 1
      who(b) == CHOOSE r \in S : RankIn(S, r) = b
  IN  [dims |-> SubfileDims, nblobs |-> NBlobs(S), nprocs |-> Cardinality(Rank),
       nsubfiles |-> nsub[who(0)],
       nelems |-> [d \in Decomp |-> nelems[d][who(0)]],
       start |-> [d \in Decomp |-> [b \in Blob |-> start[d][who(b)]]],
       count |-> [d \in Decomp |-> [b \in Blob |-> count[d][who(b)]]],
       pairs |-> [d \in Decomp |-> [b \in Blob |-> Reqs[d][who(b)]]]]

\* The flush of a subfile; its name is made of subfile_ID.
FlushSubfile(S) ==
  /\ layout = "blob"
  /\ At(S, "wait") /\ Go(S, "flushed")
  /\ LET names == {id[r] : r \in S} IN
       subfile' = Over([n \in names |->
                          [header |-> Header(S),
                           data |-> Put(UNION {Data(r) : r \in {q \in S : id[q] = n}})]], subfile)
  /\ posted' = [r \in Rank |-> IF r \in S THEN {} ELSE posted[r]]
  /\ UNCHANGED <<layout, place, nsub, id, start, count, nelems, maxReqs, file>>

\* Closing, by the ranks that share a file.
Close(S) ==
  /\ At(S, "flushed") /\ Go(S, "closed")
  /\ UNCHANGED <<layout, place, nsub, id, start, count, nelems, maxReqs, posted, subfile, file>>

NextWrite ==
  \/ Split \/ FlushFile
  \/ \E S \in Nodes : Bcast(S) \/ Scan(S) \/ FlushSubfile(S)
  \/ \E S \in IF layout = "blob" THEN Nodes ELSE {Rank} : Close(S)
  \/ \E r \in Rank : Calc(r) \/ Post(r)

Written == At(Rank, "closed")

-----------------------------------------------------------------------------
(* Properties. *)

\* The blobs of a subfile follow each other from 0 to D*.nelems without
\* holes, and D*.nelems "across all subfiles is equal to the size of original
\* dimension decomposed" (docs/BLOB_IO.md:29-31), its holes aside; no rank has
\* more pairs than fit a row of D*.offsets; and the subfile's number is that of
\* no other node and below num_subfiles.
Counted == {r \in Rank : pc[r] \notin {"split", "bcast", "scan"}}
BlobsTile ==
  layout = "blob" =>
    /\ \A r \in Counted, d \in Decomp :
         /\ SubRank(place, r) = 0 => start[d][r] = 0
         /\ \A q \in OnNode(place, r) :
              /\ SubRank(place, q) = SubRank(place, r) + 1
                   => start[d][q] = start[d][r] + count[d][r]
              /\ start[d][q] + count[d][q] <= nelems[d][r]
         /\ Len(Reqs[d][r]) <= maxReqs[d][r]
    /\ Counted = Rank => \A d \in Decomp :
         Total([r \in {SubRoot(place, q) : q \in Rank} |-> nelems[d][r]]) = Cardinality(Listed(d))
    /\ \A q, r \in {w \in Rank : pc[w] \notin {"split", "bcast"}} :
         /\ id[q] = id[r] <=> place[q] = place[r]
         /\ id[r] \in 0 .. nsub[r] - 1
=============================================================================
