------------------------------ MODULE VarWrCase ------------------------------
(***************************************************************************)
(* The program every MPI rank runs on one output file: the posting loops   *)
(* of e3sm_io_case::var_wr_case() (src/src/cases/var_wr_case.cpp) and the  *)
(* flush frequency that wr_test() gives it.                                *)
(*                                                                         *)
(* The loops are described by pure operators; the modules of the drivers   *)
(* execute them.  A rank goes through the steps -1, 0, ..., NRecs - 1:     *)
(* step -1 posts the decomposition and fixed-size variables, step k >= 0   *)
(* posts the record variables of time step k.  In every step the variables *)
(* are posted in the order of their IDs.                                   *)
(***************************************************************************)
EXTENDS Integers

CONSTANTS
  NProcs,       \* number of ranks of the file's communicator
  NVars,        \* number of variables, in the order they are defined
  RecVar,       \* the variables that have the record dimension
  Partitioned,  \* the variables every rank writes a part of (decomp_id >= 0,
                \* and the decomposition variables of blob I/O)
  NRecs,        \* cmeta->nrecs
  Ffreq         \* the -y option: flush every Ffreq records, -1: at the end

Rank == 0 .. NProcs - 1
Var  == 1 .. NVars
Step == -1 .. NRecs - 1

\* Ffreq = 0 makes "% cmeta->ffreq" a division by zero: see the README.
ASSUME CaseAssumption ==
  /\ NProcs \in Nat \ {0}
  /\ NVars \in Nat
  /\ RecVar \subseteq Var
  /\ Partitioned \subseteq Var
  /\ NRecs \in Nat
  /\ Ffreq \in (Nat \ {0}) \cup {-1}

-----------------------------------------------------------------------------

\* The flush frequency after wr_test() has clipped it.
Clipped(f) == IF f = -1 \/ f > NRecs THEN NRecs ELSE f
EffFfreq   == Clipped(Ffreq)

\* Variables that are not partitioned are written by the root rank only.
Posts(r, v) == v \in Partitioned \/ r = 0

\* The variables that rank r posts in step k ...
StepVars(r, k) == {v \in Var : Posts(r, v) /\ (v \in RecVar <=> k >= 0)}

\* ... those that follow variable c, and whether v is the next of them.
Remaining(r, k, c) == {v \in StepVars(r, k) : v > c}
IsNext(v, r, k, c) ==
  /\ v \in Remaining(r, k, c)
  /\ \A w \in Remaining(r, k, c) : v <= w

\* Pending requests are flushed every f records and after the last.
FlushEvery(f, k) ==
  /\ k >= 0
  /\ \/ (k + 1) % f = 0
     \/ k + 1 = NRecs
FlushAfter(k) == FlushEvery(EffFfreq, k)
=============================================================================
