------------------------------- MODULE MCCore --------------------------------
(* Two ranks, a build without ADIOS and the Log VOL, every option, and input *)
(* files that are alike or of which the second is absent or a NetCDF file.   *)
EXTENDS Core

MCBuilt == {"pnetcdf", "netcdf4", "hdf5", "hdf5_md"}

Kinds    == Format \cup {"other", "absent"}
MCInputs == {[h \in Hist |-> IF h = "h0" THEN a ELSE b] : a \in Kinds, b \in {"CDF", "absent"}}
            \cup {[h \in Hist |-> a] : a \in Kinds}
=============================================================================
