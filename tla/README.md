# TLA+ models of E3SM-IO

E3SM-IO is a benchmark of the I/O of the E3SM climate model. A run reads a
decomposition map (which process of a production run owned which elements of
the decomposed arrays), builds the requests of each MPI rank from it, and writes
the history files of the F, G or I case through one of several libraries, in
canonical layout (every variable is one array) or in blob layout (every rank's
writes form one contiguous blob of a subfile).

This directory models the parts of the program whose correctness depends on
order: the ranks that post writes and meet in collective calls, the caches,
queues and buffers between a put and the file, the subfiles and the utility that
merges them, the lists of variables that writer and reader must agree on, the
order of the tests of a run, and the arithmetic that decides who writes what.
TLC checks small instances. TLAPS proves for all values of the constants: the
main invariants of the HDF5 blob driver with its header, of the PnetCDF driver
with its write buffers and of the four canonical drivers of HDF5 and NetCDF-4,
that each of them implements its abstract specification (safety), that the
conversion and reading of decomposition maps loses nothing, that subfiles and their
replay make the file that canonical I/O would have made, and that a run leaves the
files it was asked for. Paths below are relative to the parent of the repository's
top directory `src/`, as in `PROJECT.json`.

## 1. The system

| component | state | operations | talks to |
|---|---|---|---|
| `main()` `src/src/e3sm_io.c` | the configuration | parses options, adjusts the flush frequency (`-y`), calls the next three | all |
| map reader `read_decomp()` | `disps`, `blocklens`, `contig_nreqs` per map and rank | partition of the map's processes, hyperslab read, sort, merge | dat2decomp, through the file |
| `calc_metadata()` | `sub_comm`, `subfile_ID`, blob `start`/`count`, start/count vectors | communicator split, exclusive scan, conversion of offsets | MPI |
| case: `wr_test()`, `var_wr_case()`, `def_var()` | `vars[]`, `wr_buf`, request counters | define the schema, allocate buffers, post fixed-size then record variables, flush, close | a driver |
| schema `header_def_*`, `header_inq_*` | none | the list of 414/51 (F), 52 (G), 560/552 (I) variables, once for writing and once for reading | `def_var()`, `inq_var()` |
| HDF5 blob driver | per variable a cache of records, `total_len`, a NetCDF header | `put_vara` caches, `close` packs and writes | MPI, HDF5, `blob_ncmpio` |
| HDF5 drivers (canonical, multi-dataset, Log VOL) | extents of datasets, queues of selections | `put_vara`/`put_varn`, `expand_rec_size`, `wait`, `close` | HDF5 |
| read program `rd_test()`, `var_rd_case()`, `inq_var()` | as the writer | inquire the variables of an existing file, read them in the same loops | a driver |
| core `e3sm_io_core()`, `e3sm_io_get_driver()` | the configuration's `api` | detect the input's format, read test, write test, choice of the driver | all ranks, by a broadcast |
| PnetCDF driver | none of its own; PnetCDF's pending requests | `put_vara`/`put_varn` (non-blocking), `wait`, `close` | PnetCDF |
| NetCDF-4 driver | extents of variables | writes at once, independently; `expand_rec_size` writes a cell | NetCDF |
| ADIOS driver | library state | as above | ADIOS |
| `blob_ncmpio` | dimensions, attributes, variables | growth of lists, length and packing of the header | HDF5 blob driver |
| `dat2decomp` (and `dat2nc`, `decomp_copy`) | per process the offset-length pairs | converts `.dat` maps to the file `read_decomp()` reads | |
| `pnetcdf_blob_replay` | blobs and their requests | reads subfiles, writes one canonical file | PnetCDF |

`PROJECT.json` lists every component with its status, including the ones that
are not modelled, each with the reason.

What is hard in this code:

* **Collective calls.** There are no threads; the concurrency is that of the
  ranks. A rank that skips a collective call because it has nothing to write,
  or makes one more, blocks all the others. A test on as many ranks as the map
  has processes never sees a rank without work.
* **Deferred writes.** A put returns before its data is in the file. In between
  the program changes what the put refers to: the buffer pointer returns to the
  front, the start vectors move to the next record, the dataset grows.
* **Boundaries.** Flush frequency against number of records, the growth step of
  the cache, the number of ranks against the number of the map's processes,
  rows of an array against merged requests.
* **Two traversals that must agree.** The lengths counted by puts and the bytes
  packed by close; the request counts that lay out a list and those that index
  it; the list of variables of the writer and of the reader.

There is no recovery in the program (a failed call ends the run) and nothing is
retried, so there are no models of crashes.

Correctness, component by component:

* case + drivers: every posted element is in the closed file, once, from the
  right rank and record; collective calls match; every rank finishes.
* HDF5 blob driver: regions of ranks are disjoint and without holes; the
  header covers every record; the assertion on the packed length holds.
* write buffers: a pending request's part of a buffer is inside it and shared
  with no other pending request.
* map reader + dat2decomp: every element a process owns is written exactly once
  by the rank that stands in for it; requests ascend and never cross a row.
* schema: whatever the reader looks up is in the file, and it reads what a rank
  in its place wrote, though its list is another one in another order; every
  partitioned variable has the shape of its decomposition; the buffers that
  are measured while defining hold what the loops post.
* subfile metadata + replay: blobs follow each other without holes; merged, they
  are the file that canonical I/O would have written, or the user is warned.
* core: the driver of every test is the right one on every rank; a run leaves
  the files it was asked for.
* header packer: the packed length is the computed one, and the arrays of the
  header object grow in time.

## 2. Modules

| module | models | source |
|---|---|---|
| `VarWrCase` | what each rank posts in which step, when it flushes (pure operators) | `var_wr_case.cpp`, `wr_test()` |
| `Collectives` | the collective calls a rank has entered | MPI and the libraries (external) |
| `H5Blob` | the HDF5 blob driver, run by the ranks of a subfile | `e3sm_io_driver_h5blob.cpp` |
| `CdfHeader` | the header object of that driver, its packed size and its packing (pure operators) | `blob_ncmpio.c` |
| `Hdf5Driver` | the canonical, multi-dataset and Log VOL drivers of HDF5, and the NetCDF-4 driver | `e3sm_io_driver_hdf5.cpp`, `_hdf5_md.cpp`, `_hdf5_log.cpp`, `_nc4.cpp`, the flush frequency in `main()` |
| `PncDriver` | the PnetCDF driver and the write buffers | `e3sm_io_driver_pnc.cpp`, `def_var()`, `wr_buf_malloc()` |
| `Partition`, `Decomp` | conversion and reading of a decomposition map | `dat2decomp.cpp`, `read_decomp.cpp` |
| `CaseSchema`, `FCase`, `GCase`, `ICase` | the variables of the five history files, as written and as looked up | `header_def_*`, `header_inq_*`, the macros of `e3sm_io_case.hpp` |
| `CaseFile` | a process writes a history file, another reads it | `e3sm_io_case.cpp`, `utils.cpp`, the loops of `var_wr_case.cpp` and `var_rd_case.cpp` |
| `Offsets` | from flattened offsets to start and count vectors | `calc_metadata.c`, `pnetcdf_blob_replay.c` |
| `SubFiles` | who writes what where, canonical and blob layout | `calc_metadata.c` |
| `Replay` | the merging of subfiles | `pnetcdf_blob_replay.c` |
| `Core` | a run as a whole | `e3sm_io.c`, `e3sm_io_core.cpp`, `e3sm_io_driver.cpp`, `rd_test()`, `wr_test()` |
| `BlobStore` | abstract: what blob I/O promises | |
| `DeferredStore` | abstract: what non-blocking writes promise | |
| `CanonicalFile` | abstract: what writing one regular file promises | |
| `H5BlobProofs`, `Hdf5Proofs`, `PncProofs`, `CoreProofs`, `MapProofs`, `ReplayProofs`, `CaseFileProofs` | theorems | |
| `PrefixSums` | lemmas they share: sums over a list, concatenation, numbers of members below a bound, division, and induction | |
| `MC*` | instances for TLC | |

`H5Blob`, `Hdf5Driver` and `PncDriver` each extend `Collectives`, which extends
`VarWrCase`: the program is written once and executed against three drivers,
as in the code, where `var_wr_case()` calls an `e3sm_io_driver`. `CaseFile`
is the same program seen from the other side: one process, but all variables of
the cases, and the reader; `SubFiles` gives the ranks their places and requests, and `Replay`
extends it by the processes of a later run. `Core` is the frame: which driver
meets which file.

### The program (`VarWrCase`)

A rank runs through steps -1, 0, ..., `NRecs` - 1. Step -1 posts the
decomposition and fixed-size variables, step k the record variables of time
step k, each in the order of their IDs (`IsNext`). Variables without a
decomposition are posted by the root only (`Posts`). `Clipped` is what
`wr_test()` makes of the flush frequency and `EffFfreq` the result; `FlushEvery`
is the condition of the flush for a given frequency, `FlushAfter` the same for
`EffFfreq`. `CaseAssumption` leaves out `-y 0`, with which the
program divides by zero.

A collective call is two actions: a rank *enters* it (`Enter` appends to
`calls[r]`) and leaves it when every rank has entered as many calls
(`AllEntered`). That is the weakest synchronisation the libraries guarantee for
these calls, except for `MPI_Exscan`, which a rank may leave as soon as the lower ranks
have entered. Calls entered at the same place must be of the same kind; this is
not built into the model but the invariant `CallsMatch`.

The barriers of the flush and before the close are part of the program. The
barrier at the start, and the timers, are left out.

### HDF5 blob driver (`H5Blob`)

`cache[r][v]` is `fp->vars[v]`: `nalloc`, `nrecs`, and in `buf` the number of
the record cached at each place. `PutVara` is `put_vara()`: the
count of bytes, the growth of the cache (`Grown`), the two `throw`s about the
record's number, the number of records of the variable and of the header. Left
out are two exits that no posting loop reaches: the `throw` for a put of more
than one record (`e3sm_io_driver_h5blob.cpp:543-544`; every put of a record has a `count[0]`
of 1) and the return of -1 for other type conversions than from double to float
(`:531-534`; the schemas have no other). A `throw` ends in the state
"thrown", a store behind the end of the cache in "overrun", a failed assertion
in "aborted"; that none is reachable is a property. `close()` is cut at its
collective calls: `BeginClose`, `EndAllreduce`, `EndExscan`, `CreateDatasets`,
`WriteBlob`, `WriteHeader`, `EndClose`. `Combine` is MPI summing up the
contributions, one rank at a time. The file is a function from offsets to
named bytes: who wrote it, of which variable, record and position. `Grow` is 64
in the code; a small value makes the cache grow within a short run.

The state begins with the file created. Each rank then makes the definitions of
the case (`defs`, one of `Schemas`) in its own copy of the header object `nc`, by
`DefDim`, `DefVar` and `PutAtt`, and starts to post when none is left;
`SchemaAssumption` relates the definitions to the variables of `VarWrCase`.
`CdfHeader` describes the object by what its size depends on: the arrays with
their allocation (`Stored` is the growth of an array by `ArrayGrowBy`, 64 in the
code), the lengths of names, the types and numbers of values of attributes. The
operators `HdrLen...` are the traversal that computes the size, `HdrPut...` the
one that moves a pointer through the buffer. `EndExscan` packs (`headerLen`) and
frees the object; `headerLen` is the extent of `header_blob` and what rank 0
counts as written.

### Canonical HDF5 and NetCDF-4 drivers (`Hdf5Driver`)

Four drivers run the same program, chosen by `api`:

* `hdf5`: `put_vara()` is an independent `H5Dwrite`, `put_varn()` a collective
  one that every rank enters whether or not it has a part (`EntersWrite`).
* `hdf5_md`: `post_varn()` pushes dataset, selection and the user's buffer to
  five vectors; `wait()` is `flush_multidatasets()`.
* `hdf5_log`: the Log VOL keeps the requests until `wait()` calls `H5Fflush`.
* `netcdf4`: every request is written at once and independently; `wait()` does
  nothing.

`queue[r]` holds what the library has got and not written. `PutVar` is a put,
`Extend` is `expand_rec_size()` on all record datasets (one collective call of
the model stands for the sequence of `H5Dset_extent` or `nc_put_var1` calls, one
per dataset in the same order on every rank), `BeginFlush` the beginning of
`wait()`, `EndWrite` the end of any write, and `EndStep`, `BeginClose`,
`EndClose` are the program. `MainFfreq` is the flush frequency as `main()`
passes it on: 1 for `hdf5_md` if the option is greater. HDF5's part is external:
a selection is a set traversed in file order (`Image`); a request whose
selection has not as many elements as its buffer, or that was made outside the
extent, is refused. `Sorted` is the order `read_decomp()` leaves the requests in: no
two begin at the same offset, as no element has two owners and none is empty
(`Hdf5DriverAssumption`), so ascending offsets determine it. Each element of the file holds the name of the buffer element last
written to it, so a permutation within a request is visible.

The NetCDF-4 driver extends a variable by writing a cell with any content in the
new record (`Dummy`). All ranks write the same cell of the same record, the
first one of the dataset, and then one of them writes the real element there. By the
MPI standard alone these two writes, of different ranks and without a
synchronisation of the file between them, may take effect in either order. The model takes
ROMIO's behaviour, in which a collective write is in the file before a rank
leaves it (`FirstOut`); the mutation `IndependentOut` shows that `StoreSpec`
rests on it.

### PnetCDF driver and write buffers (`PncDriver`)

`DefVar` is `def_var()` as far as it adds to the buffer lengths, on every rank
for every variable; `Allocate` is `wr_buf_malloc()` for a driver that keeps
references to the buffers. `Iput` posts a non-blocking request on the next part
of the variable's buffer and advances the pointer as the macros do; `NextStep`
returns the record pointers to the front when the code does (`PtrAt`). PnetCDF
is external: it copies the start vectors, requests of length zero are complete at once, `ncmpi_wait_all()`
completes everything pending, `ncmpi_close()` gives up what is left.

### Decomposition maps (`Partition`, `Decomp`)

A map is a function from processes to the elements they list. `Convert` is
`add_decomp()` of dat2decomp: drop what is no element, shift to start at 0,
merge adjacent elements within a row, hand the gaps to the processes in blocks
if filling is on, and concatenate. `ReadDecomp(r)` is `read_decomp()` on rank
r: its block of processes, the hyperslab of the pairs, sort, merge.

Assumed of maps: no element has two owners, and a process that lists anything
lists an element (dat2decomp reads past the end of the line otherwise). With
gap filling every process must list something (dat2decomp passes an
uninitialised pointer to `realloc()` otherwise).

### Schemas and history files (`CaseSchema`, `FCase`, `GCase`, `ICase`, `CaseFile`)

Each history file has two lists in the code, one in `header_def_*` for the writer and one in
`header_inq_*` for the reader; the modules keep them apart (`FDefined`,
`FInquired`, and likewise for G and I), in the order of the code, a run of
variables that differ in their names only in one line. A list is the
concatenation of parts (`FDef1`, `FInq1`, ...), each a few dozen lines of the
code; the parts end where both lists have named the same variables, so that
they can be compared one by one. An entry has name, dimensions, type in the file, type
in memory, decomposition, and the attributes as pairs of name and macro. Texts
and values of attributes are left out.

`CaseFile` extends the three schemas and lets one process go through the writer's list (`DefHeader`,
`DefVar`: buffer lengths and number of attributes), `EndDef` (`wr_buf_malloc()`),
the posting loops (`Post`, `NextRecord`), and `Close`; then a process of another
run, root or not, with any flush frequency and gap, opens the file (canonical
layout only, as `rd_test()` demands), looks up every variable of the reader's
list (`InqVar`) and reads in the same loops. `Address` is where the free part of a
buffer is in the one block of memory that holds them all. `layout` is
"canonical", "blob", or "copied": the blobs of the HDF5 driver, which copies what is
posted at once, so that the buffers need room for one record only.

### Subfiles and their replay (`Offsets`, `SubFiles`, `Replay`)

`Split`, `Bcast`, `Scan` are `blob_metadata()`: the two communicator splits
(MPI orders the ranks of a split by their old ranks), the broadcast from each
node's root, the scan and the reductions over a node. `Calc` is
`calc_metadata()` of the canonical layout. How requests are posted and flushed
is the subject of `PncDriver`; here a rank posts all of them (`Post`) and one
flush stores them (`FlushFile`, `FlushSubfile`), at the cells of the canonical
file or at the blob's places in the subfile. An element that no request lists is a
hole: it is in no blob, and the cell of the canonical file stays as it is (`Owned`).

`Replay` runs on a placement of its own. `RSplit` and `RBcast` are
`split_comm()`, `ROpen` opens the subfile with the node's number (a missing one
aborts), `RCreate` creates the output and compares the recorded numbers of
processes and subfiles, `ReadDecomp` is `set_decomp()` (a process without a blob
fails, the others of its node wait for it), `RDefine` is `copy_dims()` and
`set_vars()` (without the lengths of dimensions it keeps, see section 5), and `PostReads`, `WaitReads`, `PostWrites`, `WaitWrites` copy the
fixed-size variables and every record. Reads are collective on a node, writes
over all processes. Ranks of a node that are in a collective call take one joint
step; between two calls they are interleaved.

`CanonicalFile` is the promise: what is in the file is what was wanted there,
nothing is taken back, and the file is closed complete unless a warning was
given.

### A run (`Core`)

Every rank executes `Main` (which combinations of `-a` and `-x` are accepted),
`Detect` (rank 0 looks at the first input file, the others go on to the
broadcast), `Bcast`, `RdTest`, then for every history file `ReadFile` and
`UnlinkInput`, `EndRead` (the option's API is restored), `WrTest`, and for every
file `WriteFile` and `UnlinkOutput`. `Together` is the condition for a
collective call to complete: all ranks are in it, with the same library and the
same file. An error ends all ranks, as `MPI_Abort()` does. Files are
abstracted to their formats.

## 3. Runs

| run | instance | distinct states | what it shows |
|---|---|---|---|
| `h5blob` | 3 ranks, 4 variables, 4 records, flush every 3, growth 2, a schema of 11 calls | 9789 | all properties of `H5Blob`, refinement of `BlobStore`, termination |
| `hdf5_drivers` | all four drivers, 3 ranks with unsorted maps, 4 variables, 2 records, `-y 2` | 1136 | all properties of `Hdf5Driver`, refinement of `DeferredStore`, termination |
| `pnc` | 3 ranks, 6 variables of 2 types, 4 records, flush every 3, gap 1 | 4223 | all properties of `PncDriver`, refinement of `DeferredStore`, termination |
| `decomp` | all maps of a 2x3 array, 3 processes, 1-4 ranks, filled or not | 421294 | all properties of `Decomp` |
| `case_file` | all five history files, root and another rank, 3 layouts, gap or none, flush every 1 or 2 of 3 records | 209432 | writer and reader agree, buffers suffice, requests ascend, totals of the documentation |
| `replay` | 3 ranks on 4 placements over 2 nodes, replayed by 2-4 processes on any of them; 5 variables, arrays of 1-3 dimensions, the last with a hole, 2 records | 3696 | the properties of `SubFiles` and `Replay`, refinement of `CanonicalFile`, termination |
| `core` | 2 ranks, every option, input files of every format, missing or alien | 48960 | the files a run leaves, termination |
| `hdf5_md_empty_rank` | `hdf5_md` alone, one rank without requests | | violates `CallsMatch` |
| `hdf5_md_scalar` | `hdf5_md` alone, variable 2 has no dimension | | violates `FileComplete` |
| `hdf5_md_flush_once` | `hdf5_md` alone, `-y -1` | | violates `NoDatasetTwice` |
| `decomp_skip_fill` | maps filled and read without fill, 2x2 array | | violates `EachOnce` |
| `core_input_deleted` | a read test without `-k` | | violates `InputKept` |

The last five are disagreements between the code and its own comments and
documents:

1. `flush_multidatasets()` skips the collective write when the queue is empty
   (`e3sm_io_driver_hdf5_md.cpp:32`), although a rank without requests "MUST
   participate the collective I/O subroutines" (`read_decomp.cpp:190-192`). Such
   a rank appears when the benchmark runs on more ranks than the map has
   processes. The instance passes with `hdf5` and `hdf5_log`.
2. `post_varn()` never queues a dataset without dimensions
   (`e3sm_io_driver_hdf5_md.cpp:142, 162`). The F case has six such variables
   (`header_def_F_case.cpp:332-348, 371`). The other drivers write them.
3. `main()` limits the flush frequency of hdf5_md to 1 only if it is greater
   than 1 (`e3sm_io.c:414`); -1 passes and becomes the number of records.
4. Without `-u`, `read_decomp()` indexes the list of pairs by sums of
   `Dx.fill_starts` (`read_decomp.cpp:286-292`), but with `-f` dat2decomp lays
   it out by `Dx.nreqs`. Only the first rank's pairs are where it looks.
5. `var_rd_case()` ends with the deletion of its file unless `-k` was given
   (`var_rd_case.cpp:450`): a read test deletes its input, and when the read of
   the second history file fails the first is already gone. `-k` is documented as
   "Keep the output files when program exits" (`e3sm_io.c:157`,
   `docs/INSTALL.md:181`).

Other things met on the way, without a run:

* A comment says that the driver for a canonical HDF5 input is the one of `-a`
  (`e3sm_io_driver.cpp:191-197`); the code sets the API to `hdf5`, and
  `rd_test()` refuses it. So the read queue of the multi-dataset driver is
  never used on a file of a known format.
* A comment gives 28 global attributes for the I case; the code puts 27 (h0) and
  29 (h1). The macros that put and get one double as an attribute do not count it,
  and `num_attrs` is set to zero once, so that with `-i` and `-o` the report of
  the write test counts both. `HeaderTotals` counts as the code does.
* The length of the fixed-size buffers includes the decomposition variables of
  blob I/O, which are not written from them. It is never too short.
* The posting loops have no branch for `MPI_LONG_LONG`; no variable needs it.
* `read_decomp()` warns that fill mode is not yet supported, or not with another
  number of processes (`read_decomp.cpp:273-284`), when `-u` meets a map with gaps
  in the canonical layout. It then carries out the fill requests all the same, each
  once: `EachOnce` holds in the run with `-u`.
* In the replay and in `put_varn()` of the Log VOL driver a process without requests
  writes the first element of an array of length zero.

### Bounds, and why they are enough

* Ranks: the root, a rank with work and (in `h5blob`, `hdf5_drivers`, `pnc`) one
  without. The code distinguishes no other roles; prefix sums need three ranks
  to tell an exclusive from an inclusive or a missing scan in the middle. `core`
  has rank 0, which detects, and one that does not.
* Variables: at least one of every combination of fixed-size/record and
  partitioned/root-only that the driver treats differently, and in `pnc` two
  partitioned ones around a root-only one that share a buffer, and one
  decomposition variable, whose data lies elsewhere. `case_file` has them all.
* Records: flush frequency 3 with 4 records gives one full and one incomplete
  period; in `h5blob` growth 2 makes the cache grow twice, the second time with
  records to keep. Two periods of 2 and 1 records in `case_file`.
* The schema of `h5blob` has names of every length modulo the alignment, padded
  and unpadded attribute values, an attribute without values, variables of none,
  one and two dimensions, and with arrays that grow by two, arrays of variables
  and of attributes that grow twice. Its ranks define at any time, also while
  others post or wait.
* `hdf5_drivers`: two records are enough for a dataset to be extended twice and
  for a flush to follow a flush; `-y 2` shows that `main()` reduces it to 1.
* `decomp`: two rows of three elements give every shape of gap (inside a row,
  at its end, across the boundary, a whole row); 1-4 ranks for three processes
  cover one rank for all, a remainder, equality, and idle ranks. Each process
  lists its elements in ascending order or in descending order between zeros
  and numbers beyond the array.
* `case_file`: the dimensions of each map are all different, so that a
  decomposition of the wrong shape shows; counts differ between decompositions
  and between the two ranks, some are zero.
* `replay`: two nodes give all placements of three ranks, one, two or three on
  a node, also interleaved; two to four replaying processes are fewer, as many and
  more. One rank has no part of the array of three dimensions, and one element of it
  belongs to no rank.
* `core`: every combination of options; the two input files may differ in
  format, and either may be missing.

Deadlock is checked except in `case_file`, where a process's run simply ends,
and in `replay`, where a replay on processes without a blob really stops:
`Terminates` says when it must not. Everywhere else the only state that may
repeat is the end of the run (`Finished`).

### Fairness

`FairSpec` adds weak fairness for every rank (an MPI process that can continue
does so) and, in `H5Blob`, for `Combine` (MPI makes progress on a reduction all
ranks have entered). In `Core` a rank's fairness includes the collective calls
it takes part in. No fairness is put on single actions: a rank has one
enabled action at a time. In `Replay`, whose joint steps belong to several
ranks, it is weak fairness of the whole next-state relation: no behaviour has a
cycle, so it only says that the run goes on while something can. This is what
`AllClose`, `AllEnd`, `Terminates` and the liveness part of the abstract
specifications use.

### Refinement

`BlobStore`: puts are cached per process; once a process has stored, nobody
caches; storing moves exactly what was cached into the file and leaves the
others' data intact. `H5Blob` implements it with `stored` mapped to the puts a
reader *finds* at the offsets computed from lengths, so a region in the wrong
place is a violation although some bytes are there.

`DeferredStore`: a flush stores exactly what its process has posted, stored
data stays, nothing stored is posted again, and every post is flushed in the
end. `Hdf5Driver` implements it element by element, with `stored` mapped to the
elements that hold what the program wanted there; `PncDriver` request by request.

`CanonicalFile` is implemented by `SubFiles` alone (canonical layout) and by
`SubFiles` followed by `Replay` (blob layout): the same cells, and nothing
wrong in any of them at any time.

### Faults

Each property of a passing run has a mutation of a modelled definition that
violates it (`mutants` in `PROJECT.json`): the mutated forms are the operators
the modules introduce as faults, for instance `OneRecord` (buffers sized for one
record), `ScanInclusive` or `WaitUnlessIdle`. No action uses them.

## 4. Proofs

`H5BlobProofs` proves, for `Spec` of `H5Blob` and every value of the constants
that satisfies `CaseAssumption`, `H5BlobAssumption`, `HeaderAssumption` and `SchemaAssumption`:

* `TypeCorrect`: `[]TypeOK`.
* `PutsAreAccepted`: `[]PutsAccepted`. The property is not inductive. `PutsInv`
  says what the cache looks like in the middle of the posting loops: a record
  variable already posted in this time step has one record more than one that
  is still to come, and its cache has at least that many places, so the
  next record index is at most `nalloc`, never beyond it, and differs from the
  last one. This is why the guard `start[0] > nalloc + 64`, which would let
  larger indices through, does no harm.
* `RegionsAreDisjoint`: `[]RegionsDisjoint`. `SumInv` says that `psum[i]` is the
  sum of the first i contributions as far as they are combined, that
  `totalLen` no longer changes once a rank is in `close()`, and that `start` and
  `sum` are the prefix sums. Disjointness follows from the monotony of prefix
  sums, a lemma proved by induction over the state (as part of the invariant),
  not over the data.
* `CallsAgree`: `[]CallsMatch`. `CallInv` gives for every rank the number of
  calls it has entered as a function of where it is, and the call at each
  place as a function of the place alone; two ranks then agree wherever both
  have entered.
* `HeadersPack`: `[]HeaderPacks`. `HeadInv` says that every rank's object is one
  that the driver's operations make (`Made`): an allocation is a multiple of the
  growth step and holds the array, each variable has its array of attributes,
  and the space of an attribute is the one its type and number ask for.

* `PackedAsCounted`: `[]PackedIsCounted`, the assertion of `close()`. `CacheInv` says
  what a rank keeps: in the cache of a variable the records it has put so far, in
  their order (`Holds`), as many as its place in the loops tells (`SoFar`);
  `fp->total_len` is the sum over the variables of that number times the length of
  a put. That packing yields `Blob`, of that length, is `PackedIsBlob`; it rests on
  the lengths and elements of a flattened sequence, which `PrefixSums` proves to
  be given by prefix sums (`ConcatLengths`, `ConcatElements`).
* `FileIsComplete`: `[]FileComplete`. `DataInv` says that the regions adjoin, that the
  dataset has the extent of all of them once it is created, and that the region of each
  rank that has written holds its `Blob`, which no other rank's write disturbs
  (`OtherData`, by `SumInv`). No hole is left because the regions of all ranks
  cover the extent (`WrittenFile`). The header states enough records because
  every rank counts the records of all its variables, those with no bytes included.
* `AmountsAreExact`: `[]AmountsAddUp`. `AmountInv` says what a rank has counted by where
  it is. That all ranks give the header's dataset the same extent is `DefInv`:
  each rank has carried out as many calls of one schema as it has left behind,
  and the header object after i calls is a function of i (`History`).
* `StoresSafely`: every step is a step of `BlobStore` or a stutter. `CachedIs` says
  that what is cached is what has been put so far, `StoredIs` that a rank which has
  written can read back all its puts where `Offset` looks for them.

It also proves that the two traversals agree on such an object, of any size
(`TraversalsAgree`): part by part, a name takes what rounding its length up adds,
an attribute's values and their padding take the space that was computed for
them, and every part is a multiple of four bytes, so rounding the total up adds
nothing. The sums over lists are recursive functions; that they are prefix sums,
hence natural numbers and multiples of four, is proved by `SetInduction`.

`PncProofs` proves, for `Spec` of `PncDriver` and every value of the constants
that satisfies `CaseAssumption` and `PncDriverAssumption`:

* `CallsAgree`: `[]CallsMatch`, by the same argument; the number of flushes before
  a step (`Flushes`, `FlushesProperties`) places every barrier and wait.
* `BuffersStayIntact`: `[]BuffersIntact`. That no two pending requests overlap
  is not inductive: nothing in it says where the pointer is. The invariant
  speaks of one rank at a time. `LenInv` says that a buffer's length is the sum
  over the variables of what `def_var()` adds, times the flush frequency once
  allocated; `PtrInv` that the pointer is at (number of records since the last
  flush) times (what a record uses) plus (what the variables up to the last
  one use); `PendInv` that each pending request begins where its variable and record
  put it, and belongs to the current flush period. Sums over variables are
  functions (`Prefix`) whose existence and monotony are proved in `PrefixSums`,
  by an induction over sets of natural numbers (`SetInduction`) since the
  library's induction theorems take an operator. `Skipped` relates the
  variables to the loops, which pass over those a rank does not post. The
  heart is `Periods`: a period ends with a flush exactly when the pointers
  return. Together with the products this gives disjoint parts inside the
  buffer (`PartsInOrder`).
* `StoresSafely`: every step is a step of `DeferredStore` or a stutter, for at least
  one record. `StoreInv` adds that what is stored belongs to earlier steps and
  that nothing is pending at the close. Without records the statement is
  false: nobody waits for the fixed-size variables.
* `FileIsComplete`: `[]FileComplete`, for at least one record for the same reason.
  `PutInv` says that what is pending and what is stored are disjoint and together the
  puts the rank has made (`Made`), and that no two pending requests are of the same
  put; so what a wait counts is what it adds to the stored elements (`SumInv`).
* `TypeCorrect`: `[]TypeOK`; the amounts are numbers because a pending request has
  finitely many elements (`AmountInv`).

`CoreProofs` proves `FilesAreAsAsked` (`[]FilesAsAsked`), for every number of
ranks, build and set of input files. The property speaks of the files only; the
invariant also says which files each rank has still to do (`ListInv`, `SubInv`),
that nothing has happened if `main()` refuses (`Refused`, `InputInv`), that rank 0
has the option's API whenever it writes (`ApiInv`), and which output files there
are for each place rank 0 may be at (`OutputInv`).

`Hdf5Proofs` proves, for `Spec` of `Hdf5Driver`, any set of its four drivers and
every value of the constants that satisfies `CaseAssumption` and
`Hdf5DriverAssumption`:

* `TypeCorrect` and `RequestsAreAccepted`: `[]TypeOK` and `[]RequestsAccepted`. The
  invariant `IInv` says where a rank may be (`PlaceInv`: the extents follow the
  steps, a rank leaves a step only when it has posted all of it, and it is in no call
  of another driver), that each queued request was posted, selects what the
  program wants and is inside the extent (`QueueInv`), and that what was posted
  is in the queue or in the file, and only that is in the file (`KeptInv`).
  `Done` says what a rank has posted by where it is.
* `StoresSafely`: every step of the four drivers is a step of `DeferredStore` or a
  stutter (`StepMaps`). A write leaves alone what other ranks wrote because the parts
  are disjoint (`PartsDisjoint`), and puts each element of the buffer in its
  place because the parts ascend, so that the order in which HDF5 traverses a
  selection is the order of the buffer (`ImageInOrder`). That rests on what the
  maps are: sorted, disjoint requests, flattened (`SortedOrders`,
  `ElementsIncrease`). The cell with which netcdf4 extends a dataset comes
  before every element of that record (`DummyIsNobodys`).
* `FileIsComplete`: `[]FileComplete`. `AmountInv` adds that a rank's amount is the
  number of places it has put. Hypotheses: at least one record (without one nobody
  flushes the fixed-size variables), and no variable without dimensions when
  `hdf5_md` may run. The second is what the run `hdf5_md_scalar` violates.
* `DatasetsOnce`: `[]NoDatasetTwice`, if hdf5_md flushes in every step
  (`FlushesOften`: `-y` is not -1, or there is one record); `Distinct` is the
  invariant. The hypothesis is what `hdf5_md_flush_once` violates.
* `CallsAgree`: `[]CallsMatch`. The program of collective calls depends on the driver:
  `StepLen` is the number of calls of a step, `Start` their sum. Hypothesis: with
  `hdf5_md` every rank has a request in a variable of every record
  (`AllHaveParts`), so that no rank finds its queue empty at a flush
  (`SomethingQueued`). That is what `hdf5_md_empty_rank` violates; the other
  three drivers need no hypothesis.

`MapProofs` proves of the partition in `read_decomp()`, for all n and p:
the blocks adjoin and end at n (`BlocksAdjoin`), are disjoint (`BlocksDisjoint`)
and cover everything (`BlocksCover`).

Of `Decomp` it proves all four properties, for every map, size of the array, set of
options and number of ranks that satisfy the assumptions on the constants:
`RequestsWellFormed` (`[]TypeOK`), `RequestsInOneRow` (`[]OneRow`),
`RequestsNoncontiguous` (`[]Noncontiguous`) and `ElementsWrittenOnce`
(`[]EachOnce`). The invariant `ReadInv` says of the requests a rank has read that no
two overlap, that each stays in its row, that no two could be one, and which
elements they cover together. The argument follows these facts (`Apart`,
`Covered`, `Maximal`) through every step between the map and the requests:
merging in dat2decomp and again in `read_decomp()`, sorting, cutting a hyperslab
out of the file, joining the processes' lists, dropping the gaps. Two of
them hold for a reason that is not local: a merge keeps rows apart only because the
requests ascend, and two requests of *different* processes become
neighbours only after the sort, so `Noncontiguous` rests on the second merge
and `OneRow` on its test for the end of a row. `ElementsWrittenOnce` has the hypothesis
that gaps which were filled are also written; without it the file says elements
exist that nobody writes, which is what `decomp_skip_fill` violates. The other
three have none. With `-u`, the canonical layout and gaps, rank 0 prints that fill
mode is not (yet) supported (`read_decomp.cpp:273-284`), and the code goes on: the
gaps are written, once, as the theorem says. The message changes no state.

`ReplayProofs` first proves of arrays of one to three dimensions of any size that
the start vector of an offset is the cell at that place of the row-major order
(`CoordIsPlace`, `CoordInside`), that the replay's own formula agrees with the
writer's (`ReplayAgrees`), and that a request within a row covers with its start
and count vectors exactly the elements from its offset on (`RequestIsRow`).
These are facts about integers; the code computes in `int`, which is enough as
long as the product of two dimensions fits. A decomposition file stores offsets as
`int`, so the elements of an array too large for that could not be named in one.

Then, for `Spec` of `Replay` and every value of the constants that satisfies
`SubFilesAssumption` and `ReplayAssumption` (any number of ranks and of replaying
processes on any nodes, any requests that share no element and stay in their rows,
with holes or without, any variables and records):

* `MetadataRight`: `[]BlobsTile`. `Metadata` says what `calc_metadata()` has
  given a rank in each phase: that a rank waiting for the broadcast has the rank
  and the size of *its* communicator, the right ones on roots only, and that after
  the scan the numbers are sums over the ranks of the node. The sum over all
  subfiles is taken node by node (`Total`).
* `ReplayComplete`: `[]CompleteOrWarned`. The property speaks of the end only; the
  invariant `RInv` follows the data there. `Stores`: the subfile of a node whose
  ranks have flushed holds every rank's blob and row of the header. `Control`: which
  phases all processes enter together, and that they all copy the same record.
  `RNumbers`: the processes of a node have its number and find its subfile, and a
  warning was given exactly if one of the two numbers differs. `Decoding`: a
  process that has read its decompositions has those of one rank (`Source`), the one
  with the same place on the node of the same number. `Shapes`: removing the
  dimensions of blob I/O leaves the IDs of the others, because those were added last.
  `Transfers`: the buffer of a process holds the data of its variables one after the
  other, so that what is written from a place is what was read to it. `Filed`: what
  is in the output file is right, and the records that are past are there for
  every process. At the end every process has a rank; if the recorded number of
  processes is that of the replay, two processes never having the same rank,
  every rank has its process (`PartnersOnto`, by counting), so every cell
  is written. That is why the warning needs no look at how the processes are
  spread over the nodes.
* `ReplayTypes`: `[]TypeOK`, from the same invariant.
* `ReplayIsCanonical`: `Spec => WritesCanonically`, the whole of the abstract
  specification, which has no fairness: for the canonical layout by the flush that
  writes the file at once, for blob layout by the flushes of the replay.

`CaseFileProofs` proves, for `Spec` of `CaseFile` and every value of the constants
that satisfies `FileAssumption` and `MapAssumption` (any lengths of the dimensions,
counts of the ranks, number of records, flush frequencies and blobs), five of its
six properties. `MapAssumption` says that each decomposition has the dimensions
that the case's header gives as its global ones (`GlobalDims`), from which the lengths
of the file's dimensions are taken in turn (`FDimLen`, ...): a map of another case or
grid is not an input the benchmark is meant for, and it checks nothing of the kind.

The first part is about the lists themselves, `FilesMatch`: in each of the five files
the writer's and the reader's list are lists of the same variables, no name occurs
twice in either, and the types in memory, decompositions and attributes that the reader
gives agree with those of the writer (`Matched`). Lists of several hundred entries
cannot be compared as a whole, nor can what a recursive definition computes from them be
proved, so the comparison follows their construction. `Says` is what is known of
a part of a writer's list: its names, what it shows of each, the shapes of its
variables, and between which places in memory its buffers lie, in ascending
order; `Asks` the same of a reader's; `Alike` is a part that both lists have.
`SaysJoins`, `AsksJoins` and `PairExtends` put parts together, provided their names
are disjoint, which is a fact about strings for each pair of parts (`FFront`, ...).
Parts in the same order on both sides are compared as they stand (`FList2`, ...);
the others, where the reader's order differs, by the sets of what they show.
`ShapesFit` adds that each listed shape with a decomposition is that of the decomposition.

The second part is the process. Everything it has at any moment is a function of its
parameters and of its place in the list: `List` is the list it goes through, `MetaOf`
an entry as the loops see it, `Share` what an entry adds to a buffer, `Total` the
prefix sums of it. None of the properties is inductive; `IInv` is:

* `LengthInv`: a buffer is at least as long as the shares of the entries defined or
  looked up so far, and once allocated as the shares of all of them times the records
  it must keep (`Room`: the flush frequency, or 1 if the driver copies);
* `PointerInv`: the pointer of a record buffer is at most the number of records kept since
  the last flush (`Kept`) times the shares of all entries, plus those of the entries
  of this record; that of a fixed-size buffer at most what the first record uses;
* `PostedInv`: the requests of a record are those of the entries before the next one;
* `LastInv`: the last request ends no later than the place where the next request
  into some buffer would start, and no entry still to come has an earlier buffer.

* `BuffersAreSufficient`: `[]BuffersSuffice`, from the first two. The conditions under
  which the loops post an entry are not those under which it has a share, but they
  imply them: `def_var()` makes room where the entry may be posted, in whichever
  record, `inq_var()` on every rank.
* `LookupsAlwaysSucceed`: `[]LookupsSucceed`; `ReadsAreAsWritten`: `[]ReadAsWritten`, from
  `PostedInv` and `FilesMatch`.
* `DecompositionsFit`: `[]DecompositionFits`, from `ShapesFit`.
* `PostsAlwaysAscend`: `[]PostsAscend`, from `LastInv`, and from `BuffersSuffice`: the
  next buffer begins behind the one before only if that one has not run over.

Only model-checked: liveness (`AllClose`, `AllEnd`, `Terminates`) and the fairness of
the abstract specifications `BlobStore` and `DeferredStore`, which are out of the
prover's reach, like `ENABLED`. Of the safety properties only `HeaderTotals` of
`CaseFile` is left to TLC: it counts the variables and attributes of five given
lists, which depend on no constant, so the run, which has all files and
layouts, is a proof of it; counting sets of hundreds of records is not something the
provers do.

## 5. Not modelled, and why

* `-y 0` (division by zero), `-q` (unsorted requests), dat2decomp `-s` and `-r`.
* `-r 0`: the record loop does not run, so the fixed-size requests are never
  waited for.
* Failures of library calls and the error exits of `var_wr_case()`.
* That PnetCDF copies start vectors of pending requests is taken for granted.
* The bytes of the header in the HDF5 blob driver except its number of records;
  so the sizes and positions of variables that it states. The cast of its
  size to `int` (`blob_ncmpio.c:693`) is left out, which is right below 2 GiB.
* The lengths of dimensions that `set_vars()` of the replay keeps. `dims[]` of a
  variable has room for three (`pnetcdf_blob_replay.c:58`), and the code stores as
  many as the variable has (`:480-481`, `:510-513`): the fourth of a
  four-dimensional variable lands on the ID and the number of dimensions of the next
  one, which are set after it. The layout of memory is not modelled.
* The texts and values of attributes; which names and types a case really gives
  its attributes is known to `CaseSchema` only by macro, so the schema of `h5blob`
  is not one of the cases. `HeadersPack` is about all of them.
* The reads of the drivers: `CaseFile` reads by the program, not by a library.
* In `Core`: `HDF5_VOL_CONNECTOR` set in the environment, one path for input and
  output, an input file with a good signature that cannot be read.
* ADIOS and the Scorpio wrapper, timing, statistics utilities, dat2nc,
  decomp_copy.

## 6. Plan

In this order, most important first; items 1-8 and 11 are done.

1. `VarWrCase`, `Collectives`, `H5Blob`, `BlobStore`; proofs of types, puts,
   regions and calls.
2. `Hdf5Driver`, `DeferredStore`: multi-dataset, canonical, Log VOL, NetCDF-4.
3. `PncDriver` with the write buffers; proofs of calls, buffers and the step
   refinement of `DeferredStore`.
4. `Partition`, `Decomp`; proofs about the partition and of `Decomp`'s properties.
5. `CaseSchema` and the schemas; `CaseFile`.
6. `Offsets`, `SubFiles`, `Replay`, `CanonicalFile`; proofs about offsets, of
   `BlobsTile` and of the replay's properties and refinement.
7. `Core`; proof of the files it leaves.
8. `CdfHeader`: the two traversals of the header, growth of its lists; proof that
   they agree.
9. Error exits: partial failure of `create`, `enddef`, `wait` in `PncDriver`;
   `NRecs` = 0.
10. Reads of the drivers; the ADIOS driver.
11. Proofs for `CaseFile` with the dimensions and counts of the maps left open, and
    about the ten lists of variables.
