------------------------------- MODULE FCase --------------------------------
(***************************************************************************)
(* Schema of the F (atmosphere) case: the variables of its history files   *)
(* h0 and h1 as def_F_case() defines them (header_def_F_case.cpp) and as   *)
(* inq_F_case() looks them up (header_inq_F_case.cpp), two separate lists. *)
(***************************************************************************)
EXTENDS CaseSchema

\* The lengths of the dimensions, from the dimensions of the decompositions
\* in the map, decom.dims; the time dimension counts one record.
FDimLen(dims) ==
  [time |-> 1, nbnd |-> 2, chars |-> 8,
   lev |-> dims[3][1], ilev |-> dims[3][1] + 1, ncol |-> dims[3][2]]

\* The dimensions decompositions 0, 1 and 2 stand for.
FGlobalDims == << <<"ncol">>, <<"ncol">>, <<"lev", "ncol">> >>

\* Number of global attributes add_gattrs() puts, without those of blob I/O,
\* and get_gattrs() gets.
FGlobalAttrs(hist) == 19

FNVars(hist) == IF hist = "h0" THEN 414 ELSE 51

(* Variables on the columns, and on levels and columns. *)
DefCol(names, attrs)    == Vars(names, <<"time", "ncol">>, "rec", "double", 1, attrs)
DefColLev(names, attrs) == Vars(names, <<"time", "lev", "ncol">>, "rec", "double", 2, attrs)
InqCol(names, attrs)    == Inq(names, "double", 1, attrs)
InqColLevAsCol(names, attrs) == Inq(names, "double", 1, attrs)  \* a fault: decomposition
InqColLev(names, attrs) == Inq(names, "double", 2, attrs)

(* What def_F_case() defines, in its order. *)
FDef1 ==
     Vars(<<"ndbase", "nsbase", "nbdate", "nbsec">>, <<>>, "int", "int", -1, L)
  \o Vars(<<"mdt">>, <<>>, "int", "int", -1, UL)
  \o Vars(<<"lev">>, <<"lev">>, "double", "double", -1, UL \cup Standard \cup
         Txt({"formula_terms", "positive"}))
  \o Vars(<<"hyam", "hybm">>, <<"lev">>, "double", "double", -1, L)
  \o Vars(<<"P0">>, <<>>, "double", "double", -1, UL)
  \o Vars(<<"ilev">>, <<"ilev">>, "double", "double", -1, UL \cup Standard \cup
         Txt({"formula_terms", "positive"}))
  \o Vars(<<"hyai", "hybi">>, <<"ilev">>, "double", "double", -1, L)
  \o Vars(<<"lat", "lon">>, <<"ncol">>, "double", "double", 1, UL)
  \o Vars(<<"area">>, <<"ncol">>, "double", "double", 0, L)
  \o Vars(<<"date_written", "time_written">>, <<"time", "chars">>, "char", "char", -1, {})
  \o Vars(<<"date", "datesec", "ndcur", "nscur", "nsteph">>, <<"time">>, "int", "int", -1, L)
  \o Vars(<<"time">>, <<"time">>, "double", "double", -1, UL \cup Txt({"bounds", "calendar"}))
  \o Vars(<<"time_bnds">>, <<"time", "nbnd">>, "double", "double", -1, L)
  \o Vars(<<"co2vmr", "ch4vmr", "n2ovmr", "f11vmr", "f12vmr">>, <<"time">>, "double", "double",
         -1, L)
  \o Vars(<<"sol_tsi">>, <<"time">>, "double", "double", -1, UL)
FDef2 ==
     DefCol(<<"AEROD_v">>, ULC \cup Filled)
  \o DefColLev(<<"ANRAIN", "ANSNOW">>, ULC \cup Mdims)
  \o DefCol(<<"AODABS">>, LC \cup Filled \cup Standard)
  \o DefCol(<<"AODABSBC", "AODALL", "AODBC", "AODDUST", "AODDUST1", "AODDUST3", "AODDUST4",
         "AODMODE1", "AODMODE2", "AODMODE3", "AODMODE4", "AODNIR">>, LC \cup Filled)
FDef3 ==
     DefCol(<<"AODPOM", "AODSO4", "AODSOA", "AODSS", "AODUV">>, LC \cup Filled)
  \o DefCol(<<"AODVIS">>, LC \cup Filled \cup Standard)
  \o DefColLev(<<"AQRAIN", "AQSNOW">>, ULC \cup Mdims)
  \o DefCol(<<"AQ_DMS", "AQ_H2O2", "AQ_H2SO4", "AQ_O3", "AQ_SO2", "AQ_SOAG">>, ULC)
  \o DefColLev(<<"AREI", "AREL">>, ULC \cup Mdims)
FDef4 ==
     DefColLev(<<"AWNC", "AWNI">>, ULC \cup Mdims)
  \o DefCol(<<"BURDEN1", "BURDEN2", "BURDEN3", "BURDEN4">>, ULC \cup Filled)
  \o DefColLev(<<"CCN3">>, ULC \cup Mdims)
  \o DefCol(<<"CDNUMC">>, ULC)
FDef5 ==
     DefCol(<<"CLDHGH">>, ULC)
FDef6 ==
     DefColLev(<<"CLDICE", "CLDLIQ">>, ULC \cup Mdims \cup Mixing)
FDef7 ==
     DefCol(<<"CLDLOW", "CLDMED">>, ULC)
FDef8 ==
     DefCol(<<"CLDTOT">>, ULC)
  \o DefColLev(<<"CLOUD", "CLOUDFRAC_CLUBB", "CONCLD", "DCQ">>, ULC \cup Mdims)
  \o DefCol(<<"DF_DMS", "DF_H2O2", "DF_H2SO4", "DF_O3", "DF_SO2", "DF_SOAG", "DMS_SRF",
         "DP_KCLDBASE", "DP_MFUP_MAX", "DP_WCLDBASE", "DSTSFMBL">>, ULC)
  \o DefColLev(<<"DTCOND">>, ULC \cup Mdims)
FDef9 ==
     DefCol(<<"DTENDTH", "DTENDTQ">>, ULC)
  \o DefColLev(<<"EXTINCT">>, ULC \cup Filled \cup Mdims)
  \o DefColLev(<<"FICE">>, ULC \cup Mdims)
  \o DefCol(<<"FLDS">>, ULC \cup Filled \cup Sampling \cup Standard)
  \o DefCol(<<"FLNS", "FLNSC">>, ULC \cup Filled \cup Sampling)
FDef10 ==
     DefCol(<<"FLNT">>, ULC \cup Filled \cup Sampling)
FDef11 ==
     DefCol(<<"FLNTC", "FLUT">>, ULC \cup Filled \cup Sampling)
  \o DefCol(<<"FLUTC">>, ULC \cup Filled \cup Sampling \cup Standard)
  \o DefColLev(<<"FREQI", "FREQL", "FREQR", "FREQS">>, ULC \cup Mdims)
  \o DefCol(<<"FSDS", "FSDSC">>, ULC \cup Filled \cup Sampling \cup Standard)
  \o DefCol(<<"FSNS", "FSNSC", "FSNT", "FSNTC">>, ULC \cup Filled \cup Sampling)
FDef12 ==
     DefCol(<<"FSNTOA", "FSNTOAC">>, ULC \cup Filled \cup Sampling)
  \o DefCol(<<"FSUTOA", "FSUTOAC">>, ULC \cup Filled \cup Sampling \cup Standard)
  \o DefCol(<<"F_eff", "H2O2_SRF", "H2SO4_SRF", "H2SO4_sfgaex1", "ICEFRAC">>, ULC)
  \o DefColLev(<<"ICIMR", "ICWMR", "IWC">>, ULC \cup Mdims)
  \o DefCol(<<"LANDFRAC">>, ULC)
  \o DefCol(<<"LHFLX">>, ULC \cup Standard)
  \o DefColLev(<<"LINOZ_DO3">>, ULC \cup Mdims)
FDef13 ==
     DefColLev(<<"LINOZ_DO3_PSC", "LINOZ_O3CLIM", "LINOZ_O3COL">>, ULC \cup Mdims)
  \o DefCol(<<"LINOZ_SFCSINK">>, ULC)
  \o DefColLev(<<"LINOZ_SSO3">>, ULC \cup Mdims)
  \o DefCol(<<"LINOZ_SZA", "LND_MBL">>, ULC)
FDef14 ==
     DefCol(<<"LWCF">>, ULC \cup Filled \cup Sampling \cup Standard)
FDef15 ==
     DefColLev(<<"Mass_bc", "Mass_dst", "Mass_mom", "Mass_ncl", "Mass_pom", "Mass_so4",
         "Mass_soa">>, ULC \cup Mdims)
  \o DefColLev(<<"NUMICE", "NUMLIQ", "NUMRAI", "NUMSNO", "O3">>, ULC \cup Mdims \cup Mixing)
  \o DefCol(<<"O3_SRF", "OCNFRAC">>, ULC)
FDef16 ==
     DefColLev(<<"OMEGA">>, ULC \cup Mdims \cup Standard)
FDef17 ==
     DefCol(<<"OMEGA500">>, ULC)
FDef18 ==
     DefColLev(<<"OMEGAT">>, ULC \cup Mdims)
  \o DefCol(<<"PBLH", "PHIS", "PRECC", "PRECL", "PRECSC", "PRECSL">>, ULC)
FDef19 ==
     DefCol(<<"OMEGA850", "PRECT">>, ULC)
FDef20 ==
     DefCol(<<"PS">>, ULC \cup Standard)
FDef21 ==
     DefCol(<<"PSL">>, ULC \cup Standard)
  \o DefColLev(<<"Q">>, ULC \cup Mdims \cup Mixing)
  \o DefCol(<<"QFLX", "QREFHT">>, ULC \cup Standard)
  \o DefColLev(<<"QRL", "QRS">>, ULC \cup Filled \cup Mdims \cup Sampling)
  \o DefColLev(<<"RAINQM">>, ULC \cup Mdims \cup Mixing)
  \o DefCol(<<"RAM1">>, ULC)
  \o DefColLev(<<"RELHUM">>, ULC \cup Mdims \cup Standard)
  \o DefCol(<<"SFDMS", "SFH2O2", "SFH2SO4", "SFO3", "SFSO2", "SFSOAG", "SFbc_a1">>, ULC)
FDef22 ==
     DefCol(<<"SFbc_a3", "SFbc_a4", "SFdst_a1", "SFdst_a3", "SFmom_a1", "SFmom_a2", "SFmom_a3",
         "SFmom_a4", "SFncl_a1", "SFncl_a2", "SFncl_a3", "SFnum_a1", "SFnum_a2", "SFnum_a3",
         "SFnum_a4", "SFpom_a1", "SFpom_a3", "SFpom_a4">>, ULC)
FDef23 ==
     DefCol(<<"SFso4_a1", "SFso4_a2", "SFso4_a3", "SFsoa_a1", "SFsoa_a2", "SFsoa_a3">>, ULC)
  \o DefCol(<<"SHFLX">>, ULC \cup Standard)
  \o DefCol(<<"SH_KCLDBASE", "SH_MFUP_MAX", "SH_WCLDBASE", "SNOWHICE", "SNOWHLND">>, ULC)
  \o DefColLev(<<"SNOWQM", "SO2">>, ULC \cup Mdims \cup Mixing)
  \o DefCol(<<"SO2_CLXF", "SO2_SRF", "SOAG_CLXF", "SOAG_SRF">>, ULC)
FDef24 ==
     DefCol(<<"SOAG_sfgaex1">>, ULC)
  \o DefCol(<<"SOLIN">>, ULC \cup Filled \cup Sampling \cup Standard)
  \o DefCol(<<"SSAVIS">>, LC \cup Filled)
  \o DefCol(<<"SSTSFMBL", "SSTSFMBL_OM">>, ULC)
FDef25 ==
     DefCol(<<"SWCF">>, ULC \cup Filled \cup Sampling \cup Standard)
FDef26 ==
     DefColLev(<<"T">>, ULC \cup Mdims \cup Standard)
  \o DefCol(<<"TAUGWX", "TAUGWY", "TAUX", "TAUY">>, ULC)
  \o DefCol(<<"TGCLDCWP", "TGCLDIWP", "TGCLDLWP">>, ULC \cup Standard)
  \o DefCol(<<"TH7001000">>, ULC)
FDef27 ==
     DefCol(<<"T850">>, ULC)
FDef28 ==
     DefCol(<<"TMQ">>, ULC \cup Standard)
FDef29 ==
     DefCol(<<"TREFHT">>, ULC \cup Standard)
  \o DefCol(<<"TROP_P", "TROP_T">>, ULC \cup Filled)
FDef30 ==
     DefCol(<<"TS">>, ULC \cup Standard)
FDef31 ==
     DefCol(<<"TSMN", "TSMX", "TUH", "TUQ", "TVH", "TVQ">>, ULC)
FDef32 ==
     DefColLev(<<"U">>, ULC \cup Mdims \cup Standard)
FDef33 ==
     DefCol(<<"U10">>, ULC \cup Standard)
  \o DefColLev(<<"UU">>, ULC \cup Mdims)
  \o DefColLev(<<"V">>, ULC \cup Mdims \cup Standard)
  \o DefColLev(<<"VQ", "VT", "VU", "VV">>, ULC \cup Mdims)
  \o DefCol(<<"WD_H2O2", "WD_H2SO4", "WD_SO2">>, ULC)
  \o DefColLev(<<"WSUB">>, ULC \cup Mdims)
  \o DefColLev(<<"Z3">>, ULC \cup Mdims \cup Standard)
  \o DefColLev(<<"aero_water">>, ULC \cup Mdims)
  \o DefCol(<<"airFV", "bc_a1DDF", "bc_a1SFWET">>, ULC)
FDef34 ==
     DefCol(<<"bc_a1_SRF", "bc_a1_sfgaex1", "bc_a3DDF", "bc_a3SFWET", "bc_a3_SRF", "bc_a4DDF",
         "bc_a4SFWET", "bc_a4_CLXF", "bc_a4_SRF", "bc_a4_sfgaex1", "bc_c1DDF", "bc_c1SFWET",
         "bc_c3DDF", "bc_c3SFWET", "bc_c4DDF", "bc_c4SFWET", "chla", "dst_a1DDF">>, ULC)
FDef35 ==
     DefCol(<<"dst_a1SF", "dst_a1SFWET", "dst_a1_SRF", "dst_a3DDF", "dst_a3SF", "dst_a3SFWET",
         "dst_a3_SRF", "dst_c1DDF", "dst_c1SFWET", "dst_c3DDF", "dst_c3SFWET">>, ULC)
  \o DefColLev(<<"hstobie_linoz">>, ULC \cup Mdims)
  \o DefCol(<<"mlip", "mom_a1DDF", "mom_a1SF", "mom_a1SFWET", "mom_a1_SRF", "mom_a1_sfgaex1">>,
         ULC)
FDef36 ==
     DefCol(<<"mom_a2DDF", "mom_a2SF", "mom_a2SFWET", "mom_a2_SRF", "mom_a3DDF", "mom_a3SFWET",
         "mom_a3_SRF", "mom_a4DDF", "mom_a4SF", "mom_a4SFWET", "mom_a4_SRF", "mom_a4_sfgaex1",
         "mom_c1DDF", "mom_c1SFWET", "mom_c2DDF", "mom_c2SFWET", "mom_c3DDF", "mom_c3SFWET">>, ULC)
FDef37 ==
     DefCol(<<"mom_c4DDF", "mom_c4SFWET", "mpoly", "mprot", "ncl_a1DDF", "ncl_a1SF",
         "ncl_a1SFWET", "ncl_a1_SRF", "ncl_a2DDF", "ncl_a2SF", "ncl_a2SFWET", "ncl_a2_SRF",
         "ncl_a3DDF", "ncl_a3SF", "ncl_a3SFWET", "ncl_a3_SRF", "ncl_c1DDF", "ncl_c1SFWET">>, ULC)
FDef38 ==
     DefCol(<<"ncl_c2DDF", "ncl_c2SFWET", "ncl_c3DDF", "ncl_c3SFWET", "num_a1DDF", "num_a1SF",
         "num_a1SFWET", "num_a1_CLXF", "num_a1_SRF", "num_a1_sfgaex1", "num_a2DDF", "num_a2SFWET",
         "num_a2_CLXF", "num_a2_SRF", "num_a3DDF", "num_a3SF", "num_a3SFWET", "num_a3_SRF">>, ULC)
FDef39 ==
     DefCol(<<"num_a4DDF", "num_a4SFWET", "num_a4_CLXF", "num_a4_SRF", "num_a4_sfgaex1",
         "num_c1DDF", "num_c1SFWET", "num_c2DDF", "num_c2SFWET", "num_c3DDF", "num_c3SFWET",
         "num_c4DDF", "num_c4SFWET", "pom_a1DDF", "pom_a1SFWET", "pom_a1_SRF", "pom_a1_sfgaex1",
         "pom_a3DDF">>, ULC)
FDef40 ==
     DefCol(<<"pom_a3SFWET", "pom_a3_SRF", "pom_a4DDF", "pom_a4SFWET", "pom_a4_CLXF",
         "pom_a4_SRF", "pom_a4_sfgaex1", "pom_c1DDF", "pom_c1SFWET", "pom_c3DDF", "pom_c3SFWET",
         "pom_c4DDF", "pom_c4SFWET", "so4_a1DDF", "so4_a1SFWET", "so4_a1_CLXF", "so4_a1_SRF",
         "so4_a1_sfgaex1">>, ULC)
FDef41 ==
     DefCol(<<"so4_a2DDF", "so4_a2SFWET", "so4_a2_CLXF", "so4_a2_SRF", "so4_a2_sfgaex1",
         "so4_a3DDF", "so4_a3SFWET", "so4_a3_SRF", "so4_a3_sfgaex1", "so4_c1DDF", "so4_c1SFWET",
         "so4_c2DDF", "so4_c2SFWET", "so4_c3DDF", "so4_c3SFWET", "soa_a1DDF", "soa_a1SFWET",
         "soa_a1_SRF">>, ULC)
FDef42 ==
     DefCol(<<"soa_a1_sfgaex1", "soa_a2DDF", "soa_a2SFWET", "soa_a2_SRF", "soa_a2_sfgaex1",
         "soa_a3DDF", "soa_a3SFWET", "soa_a3_SRF", "soa_a3_sfgaex1", "soa_c1DDF", "soa_c1SFWET",
         "soa_c2DDF", "soa_c2SFWET", "soa_c3DDF", "soa_c3SFWET">>, ULC)
FDef43 ==
     DefCol(<<"U250", "U850", "UBOT", "V250", "V850", "VBOT", "Z500">>, ULC)

FDefined(hist) ==
    FDef1 \o Only("h0", hist, FDef2) \o Only("h0", hist, FDef3) \o Only("h0", hist, FDef4) \o
    FDef5 \o Only("h0", hist, FDef6) \o FDef7 \o Only("h0", hist, FDef8) \o Only("h0", hist,
    FDef9) \o FDef10 \o Only("h0", hist, FDef11) \o Only("h0", hist, FDef12) \o Only("h0", hist,
    FDef13) \o FDef14 \o Only("h0", hist, FDef15) \o Only("h0", hist, FDef16) \o FDef17 \o
    Only("h0", hist, FDef18) \o Only("h1", hist, FDef19) \o FDef20 \o Only("h0", hist, FDef21)
    \o Only("h0", hist, FDef22) \o Only("h0", hist, FDef23) \o Only("h0", hist, FDef24) \o
    FDef25 \o Only("h0", hist, FDef26) \o Only("h1", hist, FDef27) \o FDef28 \o Only("h0", hist,
    FDef29) \o FDef30 \o Only("h0", hist, FDef31) \o FDef32 \o Only("h0", hist, FDef33) \o
    Only("h0", hist, FDef34) \o Only("h0", hist, FDef35) \o Only("h0", hist, FDef36) \o
    Only("h0", hist, FDef37) \o Only("h0", hist, FDef38) \o Only("h0", hist, FDef39) \o
    Only("h0", hist, FDef40) \o Only("h0", hist, FDef41) \o Only("h0", hist, FDef42) \o
    Only("h1", hist, FDef43)

(* What inq_F_case() looks up, in its order. *)
FInq1 ==
     InqCol(<<"lat", "lon">>, UL)
  \o Inq(<<"area">>, "double", 0, L)
  \o Inq(<<"lev">>, "double", -1, UL \cup Standard \cup Txt({"formula_terms", "positive"}))
  \o Inq(<<"hyam", "hybm">>, "double", -1, L)
  \o Inq(<<"P0">>, "double", -1, UL)
  \o Inq(<<"ilev">>, "double", -1, UL \cup Standard \cup Txt({"formula_terms", "positive"}))
  \o Inq(<<"hyai", "hybi">>, "double", -1, L)
  \o Inq(<<"time">>, "double", -1, UL \cup Txt({"bounds", "calendar"}))
  \o Inq(<<"date", "datesec">>, "int", -1, L)
  \o Inq(<<"time_bnds">>, "double", -1, L)
  \o Inq(<<"date_written", "time_written">>, "char", -1, {})
  \o Inq(<<"ndbase", "nsbase", "nbdate", "nbsec">>, "int", -1, L)
  \o Inq(<<"mdt">>, "int", -1, UL)
  \o Inq(<<"ndcur", "nscur">>, "int", -1, L)
  \o Inq(<<"co2vmr", "ch4vmr", "n2ovmr", "f11vmr", "f12vmr">>, "double", -1, L)
  \o Inq(<<"sol_tsi">>, "double", -1, UL)
  \o Inq(<<"nsteph">>, "int", -1, L)
FInq2 ==
     InqCol(<<"AEROD_v">>, ULC \cup Filled)
  \o InqColLev(<<"ANRAIN", "ANSNOW">>, ULC \cup Mdims)
  \o InqCol(<<"AODABS">>, LC \cup Filled \cup Standard)
  \o InqCol(<<"AODABSBC", "AODALL", "AODBC", "AODDUST", "AODDUST1", "AODDUST3", "AODDUST4",
         "AODMODE1", "AODMODE2", "AODMODE3", "AODMODE4", "AODNIR">>, LC \cup Filled)
FInq3 ==
     InqCol(<<"AODPOM", "AODSO4", "AODSOA", "AODSS", "AODUV">>, LC \cup Filled)
  \o InqCol(<<"AODVIS">>, LC \cup Filled \cup Standard)
  \o InqColLev(<<"AQRAIN", "AQSNOW">>, ULC \cup Mdims)
  \o InqCol(<<"AQ_DMS", "AQ_H2O2", "AQ_H2SO4", "AQ_O3", "AQ_SO2", "AQ_SOAG">>, ULC)
  \o InqColLev(<<"AREI", "AREL">>, ULC \cup Mdims)
FInq4 ==
     InqColLev(<<"AWNC", "AWNI">>, ULC \cup Mdims)
  \o InqCol(<<"BURDEN1", "BURDEN2", "BURDEN3", "BURDEN4">>, ULC \cup Filled)
  \o InqColLev(<<"CCN3">>, ULC \cup Mdims)
  \o InqCol(<<"CDNUMC">>, ULC)
FInq5 ==
     InqCol(<<"CLDHGH">>, ULC)
FInq6 ==
     InqColLev(<<"CLDICE", "CLDLIQ">>, ULC \cup Mdims \cup Mixing)
FInq7 ==
     InqCol(<<"CLDLOW", "CLDMED">>, ULC)
FInq8 ==
     InqCol(<<"CLDTOT">>, ULC)
  \o InqColLev(<<"CLOUD", "CLOUDFRAC_CLUBB", "CONCLD", "DCQ">>, ULC \cup Mdims)
  \o InqCol(<<"DF_DMS", "DF_H2O2", "DF_H2SO4", "DF_O3", "DF_SO2", "DF_SOAG", "DMS_SRF",
         "DP_KCLDBASE", "DP_MFUP_MAX", "DP_WCLDBASE", "DSTSFMBL">>, ULC)
  \o InqColLev(<<"DTCOND">>, ULC \cup Mdims)
FInq9 ==
     InqCol(<<"DTENDTH", "DTENDTQ">>, ULC)
  \o InqColLev(<<"EXTINCT">>, ULC \cup Filled \cup Mdims)
  \o InqColLev(<<"FICE">>, ULC \cup Mdims)
  \o InqCol(<<"FLDS">>, ULC \cup Filled \cup Sampling \cup Standard)
  \o InqCol(<<"FLNS", "FLNSC">>, ULC \cup Filled \cup Sampling)
FInq10 ==
     InqCol(<<"FLNT">>, ULC \cup Filled \cup Sampling)
FInq11 ==
     InqCol(<<"FLNTC", "FLUT">>, ULC \cup Filled \cup Sampling)
  \o InqCol(<<"FLUTC">>, ULC \cup Filled \cup Sampling \cup Standard)
  \o InqColLev(<<"FREQI", "FREQL", "FREQR", "FREQS">>, ULC \cup Mdims)
  \o InqCol(<<"FSDS", "FSDSC">>, ULC \cup Filled \cup Sampling \cup Standard)
  \o InqCol(<<"FSNS", "FSNSC", "FSNT", "FSNTC">>, ULC \cup Filled \cup Sampling)
FInq12 ==
     InqCol(<<"FSNTOA", "FSNTOAC">>, ULC \cup Filled \cup Sampling)
  \o InqCol(<<"FSUTOA", "FSUTOAC">>, ULC \cup Filled \cup Sampling \cup Standard)
  \o InqCol(<<"F_eff", "H2O2_SRF", "H2SO4_SRF", "H2SO4_sfgaex1", "ICEFRAC">>, ULC)
  \o InqColLev(<<"ICIMR", "ICWMR", "IWC">>, ULC \cup Mdims)
  \o InqCol(<<"LANDFRAC">>, ULC)
  \o InqCol(<<"LHFLX">>, ULC \cup Standard)
  \o InqColLev(<<"LINOZ_DO3">>, ULC \cup Mdims)
FInq13 ==
     InqColLev(<<"LINOZ_DO3_PSC", "LINOZ_O3CLIM", "LINOZ_O3COL">>, ULC \cup Mdims)
  \o InqCol(<<"LINOZ_SFCSINK">>, ULC)
  \o InqColLev(<<"LINOZ_SSO3">>, ULC \cup Mdims)
  \o InqCol(<<"LINOZ_SZA", "LND_MBL">>, ULC)
FInq14 ==
     InqCol(<<"LWCF">>, ULC \cup Filled \cup Sampling \cup Standard)
FInq15 ==
     InqColLev(<<"Mass_bc", "Mass_dst", "Mass_mom", "Mass_ncl", "Mass_pom", "Mass_so4",
         "Mass_soa">>, ULC \cup Mdims)
  \o InqColLev(<<"NUMICE", "NUMLIQ", "NUMRAI", "NUMSNO", "O3">>, ULC \cup Mdims \cup Mixing)
  \o InqCol(<<"O3_SRF", "OCNFRAC">>, ULC)
FInq16 ==
     InqColLev(<<"OMEGA">>, ULC \cup Mdims \cup Standard)
FInq17 ==
     InqCol(<<"OMEGA500">>, ULC)
FInq18 ==
     InqColLev(<<"OMEGAT">>, ULC \cup Mdims)
  \o InqCol(<<"PBLH", "PHIS", "PRECC", "PRECL", "PRECSC", "PRECSL">>, ULC)
FInq19 ==
     InqCol(<<"OMEGA850", "PRECT">>, ULC)
FInq20 ==
     InqCol(<<"PS">>, ULC \cup Standard)
FInq21 ==
     InqCol(<<"PSL">>, ULC \cup Standard)
  \o InqColLev(<<"Q">>, ULC \cup Mdims \cup Mixing)
  \o InqCol(<<"QFLX", "QREFHT">>, ULC \cup Standard)
  \o InqColLev(<<"QRL", "QRS">>, ULC \cup Filled \cup Mdims \cup Sampling)
  \o InqColLev(<<"RAINQM">>, ULC \cup Mdims \cup Mixing)
  \o InqCol(<<"RAM1">>, ULC)
  \o InqColLev(<<"RELHUM">>, ULC \cup Mdims \cup Standard)
  \o InqCol(<<"SFDMS", "SFH2O2", "SFH2SO4", "SFO3", "SFSO2", "SFSOAG", "SFbc_a1">>, ULC)
FInq22 ==
     InqCol(<<"SFbc_a3", "SFbc_a4", "SFdst_a1", "SFdst_a3", "SFmom_a1", "SFmom_a2", "SFmom_a3",
         "SFmom_a4", "SFncl_a1", "SFncl_a2", "SFncl_a3", "SFnum_a1", "SFnum_a2", "SFnum_a3",
         "SFnum_a4", "SFpom_a1", "SFpom_a3", "SFpom_a4">>, ULC)
FInq23 ==
     InqCol(<<"SFso4_a1", "SFso4_a2", "SFso4_a3", "SFsoa_a1", "SFsoa_a2", "SFsoa_a3">>, ULC)
  \o InqCol(<<"SHFLX">>, ULC \cup Standard)
  \o InqCol(<<"SH_KCLDBASE", "SH_MFUP_MAX", "SH_WCLDBASE", "SNOWHICE", "SNOWHLND">>, ULC)
  \o InqColLev(<<"SNOWQM", "SO2">>, ULC \cup Mdims \cup Mixing)
  \o InqCol(<<"SO2_CLXF", "SO2_SRF", "SOAG_CLXF", "SOAG_SRF">>, ULC)
FInq24 ==
     InqCol(<<"SOAG_sfgaex1">>, ULC)
  \o InqCol(<<"SOLIN">>, ULC \cup Filled \cup Sampling \cup Standard)
  \o InqCol(<<"SSAVIS">>, LC \cup Filled)
  \o InqCol(<<"SSTSFMBL", "SSTSFMBL_OM">>, ULC)
FInq25 ==
     InqCol(<<"SWCF">>, ULC \cup Filled \cup Sampling \cup Standard)
FInq26 ==
     InqColLev(<<"T">>, ULC \cup Mdims \cup Standard)
  \o InqCol(<<"TAUGWX", "TAUGWY", "TAUX", "TAUY">>, ULC)
  \o InqCol(<<"TGCLDCWP", "TGCLDIWP", "TGCLDLWP">>, ULC \cup Standard)
  \o InqCol(<<"TH7001000">>, ULC)
FInq27 ==
     InqCol(<<"T850">>, ULC)
FInq28 ==
     InqCol(<<"TMQ">>, ULC \cup Standard)
FInq29 ==
     InqCol(<<"TREFHT">>, ULC \cup Standard)
  \o InqCol(<<"TROP_P", "TROP_T">>, ULC \cup Filled)
FInq30 ==
     InqCol(<<"TS">>, ULC \cup Standard)
FInq31 ==
     InqCol(<<"TSMN", "TSMX", "TUH", "TUQ", "TVH", "TVQ">>, ULC)
FInq32 ==
     InqColLev(<<"U">>, ULC \cup Mdims \cup Standard)
FInq33 ==
     InqCol(<<"U10">>, ULC \cup Standard)
  \o InqColLev(<<"UU">>, ULC \cup Mdims)
  \o InqColLev(<<"V">>, ULC \cup Mdims \cup Standard)
  \o InqColLev(<<"VQ", "VT", "VU", "VV">>, ULC \cup Mdims)
  \o InqCol(<<"WD_H2O2", "WD_H2SO4", "WD_SO2">>, ULC)
  \o InqColLev(<<"WSUB">>, ULC \cup Mdims)
  \o InqColLev(<<"Z3">>, ULC \cup Mdims \cup Standard)
  \o InqColLev(<<"aero_water">>, ULC \cup Mdims)
  \o InqCol(<<"airFV", "bc_a1DDF", "bc_a1SFWET">>, ULC)
FInq34 ==
     InqCol(<<"bc_a1_SRF", "bc_a1_sfgaex1", "bc_a3DDF", "bc_a3SFWET", "bc_a3_SRF", "bc_a4DDF",
         "bc_a4SFWET", "bc_a4_CLXF", "bc_a4_SRF", "bc_a4_sfgaex1", "bc_c1DDF", "bc_c1SFWET",
         "bc_c3DDF", "bc_c3SFWET", "bc_c4DDF", "bc_c4SFWET", "chla", "dst_a1DDF">>, ULC)
FInq35 ==
     InqCol(<<"dst_a1SF", "dst_a1SFWET", "dst_a1_SRF", "dst_a3DDF", "dst_a3SF", "dst_a3SFWET",
         "dst_a3_SRF", "dst_c1DDF", "dst_c1SFWET", "dst_c3DDF", "dst_c3SFWET">>, ULC)
  \o InqColLev(<<"hstobie_linoz">>, ULC \cup Mdims)
  \o InqCol(<<"mlip", "mom_a1DDF", "mom_a1SF", "mom_a1SFWET", "mom_a1_SRF", "mom_a1_sfgaex1">>,
         ULC)
FInq36 ==
     InqCol(<<"mom_a2DDF", "mom_a2SF", "mom_a2SFWET", "mom_a2_SRF", "mom_a3DDF", "mom_a3SFWET",
         "mom_a3_SRF", "mom_a4DDF", "mom_a4SF", "mom_a4SFWET", "mom_a4_SRF", "mom_a4_sfgaex1",
         "mom_c1DDF", "mom_c1SFWET", "mom_c2DDF", "mom_c2SFWET", "mom_c3DDF", "mom_c3SFWET">>, ULC)
FInq37 ==
     InqCol(<<"mom_c4DDF", "mom_c4SFWET", "mpoly", "mprot", "ncl_a1DDF", "ncl_a1SF",
         "ncl_a1SFWET", "ncl_a1_SRF", "ncl_a2DDF", "ncl_a2SF", "ncl_a2SFWET", "ncl_a2_SRF",
         "ncl_a3DDF", "ncl_a3SF", "ncl_a3SFWET", "ncl_a3_SRF", "ncl_c1DDF", "ncl_c1SFWET">>, ULC)
FInq38 ==
     InqCol(<<"ncl_c2DDF", "ncl_c2SFWET", "ncl_c3DDF", "ncl_c3SFWET", "num_a1DDF", "num_a1SF",
         "num_a1SFWET", "num_a1_CLXF", "num_a1_SRF", "num_a1_sfgaex1", "num_a2DDF", "num_a2SFWET",
         "num_a2_CLXF", "num_a2_SRF", "num_a3DDF", "num_a3SF", "num_a3SFWET", "num_a3_SRF">>, ULC)
FInq39 ==
     InqCol(<<"num_a4DDF", "num_a4SFWET", "num_a4_CLXF", "num_a4_SRF", "num_a4_sfgaex1",
         "num_c1DDF", "num_c1SFWET", "num_c2DDF", "num_c2SFWET", "num_c3DDF", "num_c3SFWET",
         "num_c4DDF", "num_c4SFWET", "pom_a1DDF", "pom_a1SFWET", "pom_a1_SRF", "pom_a1_sfgaex1",
         "pom_a3DDF">>, ULC)
FInq40 ==
     InqCol(<<"pom_a3SFWET", "pom_a3_SRF", "pom_a4DDF", "pom_a4SFWET", "pom_a4_CLXF",
         "pom_a4_SRF", "pom_a4_sfgaex1", "pom_c1DDF", "pom_c1SFWET", "pom_c3DDF", "pom_c3SFWET",
         "pom_c4DDF", "pom_c4SFWET", "so4_a1DDF", "so4_a1SFWET", "so4_a1_CLXF", "so4_a1_SRF",
         "so4_a1_sfgaex1">>, ULC)
FInq41 ==
     InqCol(<<"so4_a2DDF", "so4_a2SFWET", "so4_a2_CLXF", "so4_a2_SRF", "so4_a2_sfgaex1",
         "so4_a3DDF", "so4_a3SFWET", "so4_a3_SRF", "so4_a3_sfgaex1", "so4_c1DDF", "so4_c1SFWET",
         "so4_c2DDF", "so4_c2SFWET", "so4_c3DDF", "so4_c3SFWET", "soa_a1DDF", "soa_a1SFWET",
         "soa_a1_SRF">>, ULC)
FInq42 ==
     InqCol(<<"soa_a1_sfgaex1", "soa_a2DDF", "soa_a2SFWET", "soa_a2_SRF", "soa_a2_sfgaex1",
         "soa_a3DDF", "soa_a3SFWET", "soa_a3_SRF", "soa_a3_sfgaex1", "soa_c1DDF", "soa_c1SFWET",
         "soa_c2DDF", "soa_c2SFWET", "soa_c3DDF", "soa_c3SFWET">>, ULC)
FInq43 ==
     InqCol(<<"U250", "U850", "UBOT", "V250", "V850", "VBOT", "Z500">>, ULC)

FInquired(hist) ==
    FInq1 \o Only("h0", hist, FInq2) \o Only("h0", hist, FInq3) \o Only("h0", hist, FInq4) \o
    FInq5 \o Only("h0", hist, FInq6) \o FInq7 \o Only("h0", hist, FInq8) \o Only("h0", hist,
    FInq9) \o FInq10 \o Only("h0", hist, FInq11) \o Only("h0", hist, FInq12) \o Only("h0", hist,
    FInq13) \o FInq14 \o Only("h0", hist, FInq15) \o Only("h0", hist, FInq16) \o FInq17 \o
    Only("h0", hist, FInq18) \o Only("h1", hist, FInq19) \o FInq20 \o Only("h0", hist, FInq21)
    \o Only("h0", hist, FInq22) \o Only("h0", hist, FInq23) \o Only("h0", hist, FInq24) \o
    FInq25 \o Only("h0", hist, FInq26) \o Only("h1", hist, FInq27) \o FInq28 \o Only("h0", hist,
    FInq29) \o FInq30 \o Only("h0", hist, FInq31) \o FInq32 \o Only("h0", hist, FInq33) \o
    Only("h0", hist, FInq34) \o Only("h0", hist, FInq35) \o Only("h0", hist, FInq36) \o
    Only("h0", hist, FInq37) \o Only("h0", hist, FInq38) \o Only("h0", hist, FInq39) \o
    Only("h0", hist, FInq40) \o Only("h0", hist, FInq41) \o Only("h0", hist, FInq42) \o
    Only("h1", hist, FInq43)


=============================================================================
