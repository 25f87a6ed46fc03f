----------------------------- MODULE CaseSchema -----------------------------
(***************************************************************************)
(* The words in which the schemas of the cases are written: what one       *)
(* DEF_VAR() or INQ_VAR() with the attribute macros after it               *)
(* (src/src/cases/e3sm_io_case.hpp) says of a variable.                    *)
(*                                                                         *)
(* A schema is a sequence of such entries.  Consecutive variables that     *)
(* differ in their names only are written as one run.  Types are "char",   *)
(* "int", "int64", "double", and "rec" for REC_XTYPE, which main() sets;   *)
(* decompositions are numbered from 0 as in the code and -1 is none.       *)
(* Text, numbers and wording of attributes are left out, their names and   *)
(* the macros that put them are kept.                                      *)
(***************************************************************************)
EXTENDS Integers, Sequences

\* A run of DEF_VAR(name, xtype, nDims, dimids, itype, decomid) ...
Vars(names, dims, xtype, itype, decomp, attrs) ==
  [j \in DOMAIN names |->
     [name |-> names[j], dims |-> dims, xtype |-> xtype, itype |-> itype,
      decomp |-> decomp, attrs |-> attrs]]

\* ... and of INQ_VAR(), which uses the name, itype and decomid only: type
\* and dimensions come from the file.
Inq(names, itype, decomp, attrs) ==
  [j \in DOMAIN names |->
     [name |-> names[j], itype |-> itype, decomp |-> decomp, attrs |-> attrs]]

\* The variables under `if (cfg.hist == h)`.
InBoth(h, hist, vars) == vars  \* a fault: not under the condition
Only(h, hist, vars) == IF h = hist THEN vars ELSE <<>>

(* Attributes: the macro and the name. *)
Txt(names) == {<<"TXT", n>> : n \in names}
U   == Txt({"units"})
L   == Txt({"long_name"})
UL  == U \cup L
LC  == L \cup Txt({"cell_methods"})
ULC == U \cup LC
Standard  == Txt({"standard_name"})
Mixing    == Txt({"mixing_ratio"})
Sampling  == Txt({"Sampling_Sequence"})
Mdims     == {<<"INT", "mdims">>}
Filled    == {<<"FILL", "_FillValue">>, <<"FLT1", "missing_value">>}
FilledInt == {<<"FILL", "_FillValue">>, <<"INT1", "missing_value">>}
=============================================================================
