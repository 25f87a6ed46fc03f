-------------------------------- MODULE Decomp --------------------------------
(***************************************************************************)
(* The way of a decomposition map from the PIO library's .dat file to the  *)
(* requests of the benchmark's ranks: dat2decomp                           *)
(* (src/utils/dat2decomp.cpp, add_decomp()) merges the element offsets of  *)
(* each process into offset-length pairs, optionally hands the elements no *)
(* process writes to the processes as requests for fill values, and stores *)
(* all pairs in one list; read_decomp() (src/src/read_decomp.cpp) gives    *)
(* every rank the pairs of a block of processes, sorts and merges them.    *)
(***************************************************************************)
EXTENDS Partition, SequencesExt

CONSTANTS
  DecompProcs,  \* processes the map was made for (decomp_nprocs)
  MaxProcs,     \* the benchmark runs on 1 .. MaxProcs ranks
  GSize,        \* elements of the decomposed array
  DimX,         \* its least significant dimension
  Maps,         \* the .dat files: per process the elements it owns, counted from
                \* 1; what is 0 or exceeds GSize is no element
  Options       \* combinations of dat2decomp -f (fill) and of -u (write fill)

DProc   == 0 .. DecompProcs - 1
Element == 0 .. GSize - 1

\* No process owns what another owns: the map says who computes an element.
\* dat2decomp runs over the end of a line that names no element.
ASSUME DecompAssumption ==
  /\ DecompProcs \in Nat \ {0}
  /\ MaxProcs \in Nat \ {0}
  /\ DimX \in Nat \ {0}
  /\ GSize \in Nat /\ GSize % DimX = 0
  /\ \A m \in Maps :
       /\ m \in [DProc -> Seq(Nat)]
       /\ \A p \in DProc : m[p] # <<>> => \E i \in DOMAIN m[p] : m[p][i] \in 1 .. GSize
       /\ \A p, q \in DProc : \A i \in DOMAIN m[p], j \in DOMAIN m[q] :
            m[p][i] = m[q][j] /\ m[p][i] \in 1 .. GSize => <<p, i>> = <<q, j>>
  /\ Options \subseteq [fill : BOOLEAN, write : BOOLEAN]

VARIABLES
  map,     \* the .dat file
  opt,     \* the options
  nprocs,  \* ranks of the benchmark's run
  file,    \* the decomposition file: Dx.nreqs, Dx.fill_starts and the pairs of
           \* Dx.offsets and Dx.lengths
  reqs     \* disps and blocklens of the ranks that have read it

vars == <<map, opt, nprocs, file, reqs>>

Rank == 0 .. nprocs - 1
None == [nreqs |-> <<>>, fillStarts |-> <<>>, list |-> <<>>]

-----------------------------------------------------------------------------
(* Requests.                                                               *)

Req(o, l) == [off |-> o, len |-> l]

Elements(q) == q.off .. q.off + q.len - 1

\* One loop merges in both programs: a request joins the last one unless it
\* lies behind its end, or begins a row of the array; by a fault, rows do not
\* matter.
JoinsRows(last, q) == q.off <= last.off + last.len
Joins(last, q)     == q.off % DimX # 0 /\ q.off <= last.off + last.len

\* dat2decomp is exact: it leaves alone what begins before the end, too.
Follows(last, q) == q.off % DimX # 0 /\ q.off = last.off + last.len
Fits(exact, last, q) == IF exact THEN Follows(last, q) ELSE Joins(last, q)

Merged(exact, s) ==
  LET merged[n \in 0 .. Len(s)] ==
        IF n = 0 THEN <<>>
        ELSE LET m == merged[n - 1]
             IN  IF m # <<>> /\ Fits(exact, m[Len(m)], s[n])
                 THEN [m EXCEPT ![Len(m)] = Req(@.off, @.len + s[n].len)]
                 ELSE Append(m, s[n])
  IN  merged[Len(s)]

\* qsort() by offset: the place a request comes to; a fault leaves the requests
\* as they are.
AsRead(s) == s
Place(s, i) ==
  Cardinality({j \in DOMAIN s : s[j].off < s[i].off \/ (s[j].off = s[i].off /\ j <= i)})
Sorted(s) == [k \in 1 .. Len(s) |-> s[CHOOSE i \in DOMAIN s : Place(s, i) = k]]

-----------------------------------------------------------------------------
(* dat2decomp.                                                             *)

\* The members of T in a list.
Kept(s, T) == FlattenSeq([i \in 1 .. Len(s) |-> IF s[i] \in T THEN <<s[i]>> ELSE <<>>])

\* The elements a process lists, counted from 0; a fault keeps the Fortran
\* indices.
ListedFortran(s) == Kept(s, 1 .. GSize)
Listed(s)        == Kept([i \in 1 .. Len(s) |-> s[i] - 1], Element)

OwnedBy(m, p) == ToSet(Listed(m[p]))
Owned(m)      == UNION {OwnedBy(m, p) : p \in DProc}

Singles(s) == [i \in 1 .. Len(s) |-> Req(s[i], 1)]

\* The gaps, in the order of the array.
Gaps(m) ==
  Merged(TRUE, Singles(Kept([i \in 1 .. GSize |-> i - 1], Element \ Owned(m))))

\* The requests of process p, and the gaps it fills.
Real(m, p) == Merged(TRUE, Singles(Listed(m[p])))
Fill(m, p) ==
  LET n == Len(Gaps(m))
  IN  SubSeq(Gaps(m), PartStart(n, DecompProcs, p) + 1,
             PartStart(n, DecompProcs, p) + PartCount(n, DecompProcs, p))

Converted(m, fill) ==
  LET all == [p \in DProc |-> Real(m, p) \o IF fill THEN Fill(m, p) ELSE <<>>]
  IN  [nreqs      |-> [p \in DProc |-> Len(all[p])],
       fillStarts |-> [p \in DProc |-> Len(Real(m, p))],
       list       |-> FlattenSeq([i \in 1 .. DecompProcs |-> all[i - 1]])]

\* add_decomp(), without -s and -r.
Convert ==
  /\ file = None
  /\ file' = Converted(map, opt.fill)
  /\ UNCHANGED <<map, opt, nprocs, reqs>>

-----------------------------------------------------------------------------
(* read_decomp().                                                          *)

\* The numbers of requests the reader goes by.
Counts == IF opt.write THEN file.nreqs ELSE file.fillStarts

\* The processes whose requests rank r carries out.
Carries(r) == Part(DecompProcs, nprocs, r)

\* start and count of the hyperslab of Dx.offsets and Dx.lengths: the requests
\* before those of process p.
Before(p) == LET sum[q \in 0 .. DecompProcs] ==
                   IF q = 0 THEN 0 ELSE sum[q - 1] + Counts[q - 1]
             IN  sum[p]
Slab(r)   == LET start == PartStart(DecompProcs, nprocs, r)
             IN  SubSeq(file.list, Before(start) + 1,
                        Before(start + PartCount(DecompProcs, nprocs, r)))

\* Default options: sort and merge.
ReadDecomp(r) ==
  /\ file # None
  /\ r \notin DOMAIN reqs
  /\ reqs' = [q \in DOMAIN reqs \cup {r} |->
                IF q = r THEN Merged(FALSE, Sorted(Slab(r))) ELSE reqs[q]]
  /\ UNCHANGED <<map, opt, nprocs, file>>

-----------------------------------------------------------------------------
\* With -f, a process without requests makes dat2decomp pass an uninitialised
\* pointer to realloc(): such inputs are left out.
Init ==
  /\ map \in Maps
  /\ opt \in Options
  /\ opt.fill => \A p \in DProc : map[p] # <<>>
  /\ nprocs \in 1 .. MaxProcs
  /\ file = None
  /\ reqs = [r \in {} |-> <<>>]

\* The ranks have read the map.
Finished ==
  /\ DOMAIN reqs = Rank
  /\ UNCHANGED vars

Next == Convert \/ (\E r \in Rank : ReadDecomp(r)) \/ Finished

Spec == Init /\ [][Next]_vars
-----------------------------------------------------------------------------
(* Properties.                                                             *)

Request == [off : Element, len : 1 .. GSize]

\* Every variable holds a value of its kind: no request is empty or begins
\* outside the array.
TypeOK ==
  /\ map \in [DProc -> Seq(Nat)]
  /\ opt \in Options
  /\ nprocs \in 1 .. MaxProcs
  /\ file = None \/ /\ file.nreqs \in [DProc -> Nat]
                    /\ file.fillStarts \in [DProc -> Nat]
                    /\ file.list \in Seq(Request)
  /\ \A r \in DOMAIN reqs : reqs[r] \in Seq(Request)

\* The requests that write element e, as pairs of a rank and an index.
Writers(e) ==
  {w \in UNION {{r} \X DOMAIN reqs[r] : r \in Rank} : e \in Elements(reqs[w[1]][w[2]])}

\* Every element a process of the map owns is written once, by the rank that
\* carries out the requests of this process, whatever the number of ranks
\* (src/src/read_decomp.cpp:184-193). The others are written once with -u;
\* otherwise "writes stop at" Dx.fill_starts, "without filling the missing
\* elements" (src/src/read_decomp.cpp:257-262).
EachOnce ==
  DOMAIN reqs = Rank =>
    /\ \A p \in DProc : \A e \in OwnedBy(map, p) :
         \E w \in Writers(e) : Writers(e) = {w} /\ p \in Carries(w[1])
    /\ \A e \in Element \ Owned(map) :
         IF opt.fill /\ opt.write THEN \E w \in Writers(e) : Writers(e) = {w}
         ELSE Writers(e) = {}

\* "Any pair of disps[][i] and blocklens[][i] is within the size of the least
\* significant dimension" (src/src/read_decomp.cpp:103-105): the hyperslabs
\* that set_starts_counts() makes of the pairs stay in one row.
OneRow ==
  \A r \in DOMAIN reqs : \A i \in DOMAIN reqs[r] :
    (reqs[r][i].off % DimX) + reqs[r][i].len <= DimX

\* contig_nreqs is the "number of true noncontiguous requests": they ascend,
\* as MPI file views need them, and no two of them in one row touch.
Noncontiguous ==
  \A r \in DOMAIN reqs : \A i, j \in DOMAIN reqs[r] :
    i < j => \/ reqs[r][i].off + reqs[r][i].len < reqs[r][j].off
             \/ /\ reqs[r][i].off + reqs[r][i].len = reqs[r][j].off
                /\ reqs[r][j].off % DimX = 0
=============================================================================
