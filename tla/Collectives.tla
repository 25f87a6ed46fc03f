----------------------------- MODULE Collectives -----------------------------
(***************************************************************************)
(* The collective calls (MPI, parallel HDF5, PnetCDF) that the ranks of a  *)
(* file's communicator make.  calls[r] are those rank r has entered, in    *)
(* order; the modules of the drivers let a rank leave a call when the      *)
(* library would.                                                          *)
(***************************************************************************)
EXTENDS VarWrCase, Sequences

VARIABLE calls

Enter(r, call) == calls' = [calls EXCEPT ![r] = Append(@, call)]

\* Rank q has entered the call that r is in.
HasEntered(q, r) == Len(calls[q]) >= Len(calls[r])
AllEntered(r)    == \A q \in Rank : HasEntered(q, r)

\* The communicator's collective calls match: no two ranks ever enter a
\* different call at the same place, whatever each of them has to write.
CallsMatch ==
  \A q, r \in Rank : \A i \in DOMAIN calls[q] \cap DOMAIN calls[r] :
    calls[q][i] = calls[r][i]
=============================================================================
