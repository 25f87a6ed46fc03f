-------------------------------- MODULE Core --------------------------------
(***************************************************************************)
(* A run of the benchmark as a whole: main() accepts or refuses the        *)
(* options, e3sm_io_core() carries out the read test (-i) and then the     *)
(* write test (-o), each with the history files -f asks for.               *)
(*                                                                         *)
(* The driver of the read test is that of the input file's format, which   *)
(* rank 0 detects and broadcasts by way of the configuration's api; the    *)
(* driver of the write test is that of the option -a.  A rank that meets   *)
(* an error ends all (DEBUG_ABORT is MPI_Abort() unless the build was      *)
(* configured for debugging).  Files are opened, created and closed by all *)
(* ranks together; what happens in between is the subject of the modules   *)
(* of the drivers and of CaseFile.                                         *)
(***************************************************************************)
EXTENDS Sequences

CONSTANTS
  Rank,    \* contains 0, the rank that detects
  Built,   \* the APIs the build supports, "hdf5_log" if with the Log VOL
  Inputs   \* what the input files may be: functions from Hist to formats

Api      == {"pnetcdf", "netcdf4", "hdf5", "hdf5_md", "hdf5_log", "adios"}
Strategy == {"canonical", "log", "blob"}
Format   == {"CDF", "NC4", "HDF5", "HDF5 log", "BP"}
Hist     == {"h0", "h1"}

ASSUME CoreAssumption ==
  /\ 0 \in Rank
  /\ Built \subseteq Api
  /\ \A f \in Inputs : f \in [Hist -> Format \cup {"other", "absent"}]

\* -a, -x, -f (the files in the order of -1), -i, -o and -k.
Options ==
  [api : Api, strategy : Strategy, hist : {<<"h0">>, <<"h1">>, <<"h0", "h1">>},
   rd : BOOLEAN, wr : BOOLEAN, keep : BOOLEAN]

\* The combinations main() accepts, with the environment's VOL connector unset.
Combines(api, strategy) ==
  CASE api = "pnetcdf"  -> strategy # "log"
    [] api = "netcdf4"  -> strategy = "canonical"
    [] api = "hdf5_md"  -> strategy = "canonical"
    [] api = "hdf5"     -> strategy = "log" => "hdf5_log" \in Built
    [] api = "hdf5_log" -> strategy = "log"
    [] api = "adios"    -> strategy = "blob"
Accepts(o) ==
  /\ o.rd \/ o.wr
  /\ o.api \in Built /\ Combines(o.api, o.strategy)

\* The format of what a driver writes; a driver reads no other.
FormatOf(api, strategy) ==
  CASE api = "pnetcdf"  -> "CDF"
    [] api = "netcdf4"  -> "NC4"
    [] api = "hdf5_md"  -> "HDF5"
    [] api = "hdf5"     -> IF strategy = "log" THEN "HDF5 log" ELSE "HDF5"
    [] api = "hdf5_log" -> "HDF5 log"
    [] api = "adios"    -> "BP"

\* e3sm_io_get_driver(): a format the build does not know leaves api as it is.
Detected(format, api) ==
  CASE format = "CDF" -> "pnetcdf"
    [] format = "HDF5" /\ "hdf5" \in Built -> "hdf5"
    [] format = "HDF5 log" /\ "hdf5" \in Built -> "hdf5_log"
    [] format = "NC4" /\ "netcdf4" \in Built -> "netcdf4"
    [] format = "BP" /\ "adios" \in Built -> "adios"
    [] OTHER -> api

-----------------------------------------------------------------------------
VARIABLES
  opt,     \* the options
  input,   \* the input files as they were
  pc,      \* where each rank is
  api,     \* cfg->api of each rank
  bcast,   \* what rank 0 has broadcast
  todo,    \* the history files each rank has still to read or to write
  store,   \* the files: <<"in", "h0">> ... to formats
  aborted

vars == <<opt, input, pc, api, bcast, todo, store, aborted>>

FileNames == {"in", "out"} \X Hist
Asked     == {opt.hist[i] : i \in DOMAIN opt.hist}
Exists(f) == store[f] # "absent"

Init ==
  /\ opt \in Options /\ input \in Inputs
  /\ pc = [r \in Rank |-> "main"]
  /\ api = [r \in Rank |-> opt.api]
  /\ bcast = "none"
  /\ todo = [r \in Rank |-> <<>>]
  /\ store = [f \in FileNames |-> IF f[1] = "in" THEN input[f[2]] ELSE "absent"]
  /\ aborted = FALSE

Go(r, l) == pc' = [pc EXCEPT ![r] = l]
All(l)   == [r \in Rank |-> l]
Abort    == aborted' = TRUE /\ UNCHANGED <<opt, input, pc, api, bcast, todo, store>>

\* main().
Main(r) ==
  /\ pc[r] = "main"
  /\ IF Accepts(opt)
     THEN /\ Go(r, IF opt.rd THEN "detect" ELSE "write")
          /\ UNCHANGED <<opt, input, api, bcast, todo, store, aborted>>
     ELSE Abort

\* Rank 0 looks into the first file; the others go on to the broadcast.
Detect(r) ==
  /\ pc[r] = "detect"
  /\ LET file == <<"in", Head(opt.hist)>> IN
       IF r = 0 /\ ~Exists(file) THEN Abort
       ELSE /\ Go(r, IF r = 0 THEN "select" ELSE "bcast")
            /\ api' = IF r = 0 THEN [api EXCEPT ![0] = Detected(store[file], opt.api)] ELSE api
            /\ bcast' = IF r = 0 THEN api'[0] ELSE bcast
            /\ UNCHANGED <<opt, input, todo, store, aborted>>

\* What a rank has after the broadcast; a fault leaves it out.
Kept(r)     == api[r]
Received(r) == bcast

Bcast(r) ==
  /\ pc[r] = "bcast" /\ bcast # "none"
  /\ Go(r, "select")
  /\ api' = [api EXCEPT ![r] = Received(r)]
  /\ UNCHANGED <<opt, input, bcast, todo, store, aborted>>

\* The switch of e3sm_io_get_driver(), and the start of rd_test().
RdTest(r) ==
  /\ pc[r] = "select"
  /\ IF api[r] \in Built /\ opt.strategy = "canonical" /\ api[r] # "hdf5"
     THEN /\ Go(r, "open")
          /\ todo' = [todo EXCEPT ![r] = opt.hist]
          /\ UNCHANGED <<opt, input, api, bcast, store, aborted>>
     ELSE Abort

\* All ranks are in the same call of the same library, for the same file.
Together(l) ==
  \A q, r \in Rank : pc[r] = l /\ todo[r] # <<>> /\ todo[q] = todo[r] /\ api[q] = api[r]
File(dir) == <<dir, Head(todo[0])>>

\* var_rd_case() up to its close.
ReadFile ==
  /\ Together("open")
  /\ IF store[File("in")] = FormatOf(api[0], opt.strategy)
     THEN /\ pc' = All("unlink input")
          /\ UNCHANGED <<opt, input, api, bcast, todo, store, aborted>>
     ELSE Abort

\* The exit of var_rd_case() and of var_wr_case(): rank 0 deletes the file.
Unlink(r, dir, l, next) ==
  /\ pc[r] = l
  /\ store' = IF r = 0 /\ ~opt.keep
              THEN [store EXCEPT ![<<dir, Head(todo[r])>>] = "absent"] ELSE store
  /\ todo' = [todo EXCEPT ![r] = Tail(@)]
  /\ Go(r, next)
  /\ UNCHANGED <<opt, input, api, bcast, aborted>>

UnlinkInput(r)  == Unlink(r, "in", "unlink input", "open")
UnlinkOutput(r) == Unlink(r, "out", "unlink output", "create")

\* The api after the read test; a fault does not restore it.
NotRestored(r) == api[r]
Restored(r)    == opt.api

EndRead(r) ==
  /\ pc[r] = "open" /\ todo[r] = <<>>
  /\ api' = [api EXCEPT ![r] = Restored(r)]
  /\ Go(r, IF opt.wr THEN "write" ELSE "done")
  /\ UNCHANGED <<opt, input, bcast, todo, store, aborted>>

\* e3sm_io_get_driver() without a file, and the start of wr_test().
WrTest(r) ==
  /\ pc[r] = "write"
  /\ IF api[r] \in Built
     THEN /\ Go(r, "create")
          /\ todo' = [todo EXCEPT ![r] = opt.hist]
          /\ UNCHANGED <<opt, input, api, bcast, store, aborted>>
     ELSE Abort

\* var_wr_case() up to its close.
WriteFile ==
  /\ Together("create")
  /\ store' = [store EXCEPT ![File("out")] = FormatOf(api[0], opt.strategy)]
  /\ pc' = All("unlink output")
  /\ UNCHANGED <<opt, input, api, bcast, todo, aborted>>

EndWrite(r) ==
  /\ pc[r] = "create" /\ todo[r] = <<>>
  /\ Go(r, "done")
  /\ UNCHANGED <<opt, input, api, bcast, todo, store, aborted>>

Step(r) ==
  \/ Main(r) \/ Detect(r) \/ Bcast(r) \/ RdTest(r) \/ UnlinkInput(r) \/ EndRead(r)
  \/ WrTest(r) \/ UnlinkOutput(r) \/ EndWrite(r)

Ended    == pc = All("done")
Finished == (aborted \/ Ended) /\ UNCHANGED vars

Next ==
  \/ ~aborted /\ (ReadFile \/ WriteFile \/ \E r \in Rank : Step(r))
  \/ Finished

Spec     == Init /\ [][Next]_vars
FairSpec ==
  /\ Spec
  /\ \A r \in Rank : WF_vars(~aborted /\ (Step(r) \/ ReadFile \/ WriteFile))

-----------------------------------------------------------------------------
(* Properties. *)

\* A run that ends leaves what was asked for and nothing else: with -k the
\* history files of -f in the format of -a and -x, also if the same run has
\* read a file of another format; without -k no output file.  No file of
\* another format than the option's is ever there under an output name, nor
\* does a run that main() refuses touch anything.
FilesAsAsked ==
  /\ \A h \in Hist : store[<<"out", h>>] \in {"absent", FormatOf(opt.api, opt.strategy)}
  /\ Ended => \A h \in Hist :
       Exists(<<"out", h>>) <=> opt.wr /\ opt.keep /\ h \in Asked
  /\ opt.keep \/ ~Accepts(opt) => \A h \in Hist : store[<<"in", h>>] = input[h]

\* Every run ends, on all ranks: none waits for the broadcast or in a call of
\* one library while others are in a call of another.
AllEnd == <>(aborted \/ Ended)

\* "-k  Keep the output files when program exits (default: deleted)" (usage()
\* in e3sm_io.c:157, docs/INSTALL.md): the option is about output files, no
\* input file is deleted for want of it.
InputKept == \A h \in Hist : store[<<"in", h>>] = input[h]
=============================================================================
