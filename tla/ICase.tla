------------------------------- MODULE ICase --------------------------------
(***************************************************************************)
(* Schema of the I (land) case: the variables of its history files h0 and  *)
(* h1 as def_I_case() defines them (header_def_I_case.cpp) and as          *)
(* inq_I_case() looks them up (header_inq_I_case.cpp), two separate lists. *)
(***************************************************************************)
EXTENDS CaseSchema

\* The lengths of the dimensions variables use, from the dimensions of the
\* decompositions in the map, decom.dims; time counts one record.
IDimLen(dims) ==
  [time |-> 1, lat |-> dims[1][1], lon |-> dims[1][2],
   levgrnd |-> dims[2][1], levdcmp |-> dims[2][1], levlak |-> dims[3][1],
   ltype |-> dims[4][1], natpft |-> dims[5][1],
   string_length |-> 16, hist_interval |-> 2]

\* The dimensions decompositions 0 to 4 stand for.
IGlobalDims ==
  << <<"lat", "lon">>, <<"levgrnd", "lat", "lon">>, <<"levlak", "lat", "lon">>,
     <<"ltype", "lat", "lon">>, <<"natpft", "lat", "lon">> >>

\* Number of global attributes add_gattrs() puts, without those of blob I/O,
\* and get_gattrs() gets.
IGlobalAttrs(hist) == IF hist = "h0" THEN 27 ELSE 29

INVars(hist) == IF hist = "h0" THEN 560 ELSE 552

(* Variables on the grid, and on soil levels, with the usual attributes. *)
DefGrid(names) ==
  Vars(names, <<"time", "lat", "lon">>, "rec", "double", 0, ULC \cup Filled)
DefLevelsAsGrid(levels, names) ==  \* a fault: the decomposition of the grid
  Vars(names, <<"time", levels, "lat", "lon">>, "rec", "double", 0, ULC \cup Filled)
DefLevels(levels, names) ==
  Vars(names, <<"time", levels, "lat", "lon">>, "rec", "double", 1, ULC \cup Filled)
InqGridAsInt(names) == Inq(names, "double", 0, ULC \cup FilledInt)  \* a fault: the macro
InqGrid(names)   == Inq(names, "double", 0, ULC \cup Filled)
InqLevels(names) == Inq(names, "double", 1, ULC \cup Filled)

(* What def_I_case() defines, in its order. *)
IDef1 ==
     Vars(<<"landmask", "pftmask">>, <<"lat", "lon">>, "int", "int", 0, L \cup FilledInt)
  \o Vars(<<"levgrnd">>, <<"levgrnd">>, "rec", "double", -1, UL)
  \o Vars(<<"levlak">>, <<"levlak">>, "rec", "double", -1, UL)
  \o Vars(<<"levdcmp">>, <<"levdcmp">>, "rec", "double", -1, UL)
  \o Vars(<<"lon">>, <<"lon">>, "rec", "double", -1, UL \cup Filled)
  \o Vars(<<"lat">>, <<"lat">>, "rec", "double", -1, UL \cup Filled)
  \o Vars(<<"area", "topo">>, <<"lat", "lon">>, "rec", "double", 0, UL \cup Filled)
  \o Vars(<<"landfrac">>, <<"lat", "lon">>, "rec", "double", 0, L \cup Filled)
IDef2 ==
     Vars(<<"ZSOI", "DZSOI", "WATSAT", "SUCSAT", "BSW", "HKSAT">>, <<"levgrnd", "lat", "lon">>,
         "rec", "double", 1, UL \cup Filled)
  \o Vars(<<"ZLAKE", "DZLAKE">>, <<"levlak", "lat", "lon">>, "rec", "double", 2, UL \cup Filled)
IDef3 ==
     Vars(<<"date_written", "time_written">>, <<"time", "string_length">>, "char", "char", -1,
         {})
  \o Vars(<<"mcdate">>, <<"time">>, "int", "int", -1, L)
  \o Vars(<<"mcsec">>, <<"time">>, "int", "int", -1, UL)
  \o Vars(<<"mdcur", "mscur", "nstep">>, <<"time">>, "int", "int", -1, L)
  \o Vars(<<"time_bounds">>, <<"time", "hist_interval">>, "double", "double", -1, L)
  \o Vars(<<"time">>, <<"time">>, "rec", "double", -1, UL \cup Txt({"bounds", "calendar"}))
IDef4 ==
     DefGrid(<<"ACTUAL_IMMOB", "ACTUAL_IMMOB_P", "ADSORBTION_P", "AGNPP", "AGWDNPP", "ALT",
         "ALTMAX", "ALTMAX_LASTYEAR", "AR", "AVAILC", "AVAIL_RETRANSP", "BAF_CROP", "BAF_PEATF">>)
IDef5 ==
     DefGrid(<<"BCDEP", "BGNPP", "BIOCHEM_PMIN", "BIOCHEM_PMIN_TO_PLANT", "BTRAN", "BUILDHEAT",
         "CH4PROD", "CH4_SURF_AERE_SAT", "CH4_SURF_AERE_UNSAT", "CH4_SURF_DIFF_SAT",
         "CH4_SURF_DIFF_UNSAT", "CH4_SURF_EBUL_SAT", "CH4_SURF_EBUL_UNSAT">>)
IDef6 ==
     DefGrid(<<"COL_PTRUNC">>)
  \o DefLevels("levgrnd", <<"CONC_CH4_SAT", "CONC_CH4_UNSAT", "CONC_O2_SAT", "CONC_O2_UNSAT">>)
  \o DefGrid(<<"CPOOL", "CWDC", "CWDC_HR", "CWDC_LOSS", "CWDC_TO_LITR2C", "CWDC_TO_LITR3C">>)
  \o DefLevels("levdcmp", <<"CWDC_vr">>)
  \o DefGrid(<<"CWDN">>)
IDef7 ==
     DefGrid(<<"CWDN_TO_LITR2N", "CWDN_TO_LITR3N">>)
  \o DefLevels("levdcmp", <<"CWDN_vr">>)
  \o DefGrid(<<"CWDP", "CWDP_TO_LITR2P", "CWDP_TO_LITR3P">>)
  \o DefLevels("levdcmp", <<"CWDP_vr">>)
  \o DefGrid(<<"DEADCROOTC", "DEADCROOTN", "DEADCROOTP", "DEADSTEMC", "DEADSTEMN", "DEADSTEMP">>)
IDef8 ==
     DefGrid(<<"DEFICIT", "DENIT", "DESORPTION_P", "DISPVEGC", "DISPVEGN", "DISPVEGP", "DSTDEP",
         "DSTFLXT", "DWB", "DWT_CONV_CFLUX_DRIBBLED", "DWT_CONV_CFLUX_GRC", "DWT_CONV_NFLUX_GRC",
         "DWT_CONV_PFLUX_GRC">>)
IDef9 ==
     DefGrid(<<"DWT_SLASH_CFLUX", "DWT_SLASH_NFLUX", "DWT_SLASH_PFLUX", "EFLX_DYNBAL",
         "EFLX_GRND_LAKE", "EFLX_LH_TOT", "EFLX_LH_TOT_R", "EFLX_LH_TOT_U", "ELAI", "ER", "ERRH2O",
         "ERRH2OSNO", "ERRSEB">>)
IDef10 ==
     DefGrid(<<"ERRSOI", "ERRSOL", "ESAI", "FAREA_BURNED", "FCEV", "FCH4", "FCH4TOCO2",
         "FCH4_DFSAT", "FCOV", "FCTR", "FGEV", "FGR", "FGR12">>)
IDef11 ==
     DefGrid(<<"FGR_R", "FGR_U", "FH2OSFC", "FINUNDATED", "FINUNDATED_LAG", "FIRA", "FIRA_R",
         "FIRA_U", "FIRE", "FIRE_R", "FIRE_U", "FLDS", "FPG">>)
IDef12 ==
     DefGrid(<<"FPG_P", "FPI", "FPI_P">>)
  \o DefLevels("levdcmp", <<"FPI_P_vr", "FPI_vr">>)
  \o DefGrid(<<"FPSN", "FPSN_WC", "FPSN_WJ", "FPSN_WP", "FROOTC", "FROOTC_ALLOC", "FROOTC_LOSS",
         "FROOTN">>)
IDef13 ==
     DefGrid(<<"FROOTP", "FROST_TABLE", "FSA", "FSAT", "FSA_R", "FSA_U", "FSDS", "FSDSND",
         "FSDSNDLN", "FSDSNI", "FSDSVD", "FSDSVDLN", "FSDSVI">>)
IDef14 ==
     DefGrid(<<"FSDSVILN", "FSH", "FSH_G", "FSH_NODYNLNDUSE", "FSH_R", "FSH_U", "FSH_V", "FSM",
         "FSM_R", "FSM_U", "FSNO", "FSNO_EFF", "FSR">>)
IDef15 ==
     DefGrid(<<"FSRND", "FSRNDLN", "FSRNI", "FSRVD", "FSRVDLN", "FSRVI", "F_CO2_SOIL">>)
  \o DefLevels("levdcmp", <<"F_CO2_SOIL_vr">>)
  \o DefGrid(<<"F_DENIT">>)
  \o DefLevels("levdcmp", <<"F_DENIT_vr">>)
  \o DefGrid(<<"F_N2O_DENIT", "F_N2O_NIT", "F_NIT">>)
IDef16 ==
     DefLevels("levdcmp", <<"F_NIT_vr">>)
  \o DefGrid(<<"GC_HEAT1", "GC_ICE1", "GC_LIQ1", "GPP", "GR", "GROSS_NMIN", "GROSS_PMIN",
         "H2OCAN", "H2OSFC", "H2OSNO", "H2OSNO_TOP">>)
  \o DefLevels("levgrnd", <<"H2OSOI">>)
IDef17 ==
     DefGrid(<<"HC", "HCSOI", "HEAT_FROM_AC", "HR">>)
  \o DefLevels("levdcmp", <<"HR_vr">>)
  \o DefGrid(<<"HTOP", "INT_SNOW", "LABILEP", "LABILEP_TO_SECONDP">>)
  \o DefLevels("levdcmp", <<"LABILEP_vr">>)
  \o DefGrid(<<"LAISHA", "LAISUN">>)
  \o Vars(<<"LAKEICEFRAC">>, <<"time", "levlak", "lat", "lon">>, "rec", "double", 2, ULC \cup
         Filled)
IDef18 ==
     DefGrid(<<"LAKEICETHICK", "LAND_UPTAKE", "LAND_USE_FLUX", "LEAFC", "LEAFC_ALLOC",
         "LEAFC_LOSS", "LEAFC_TO_LITTER", "LEAFN", "LEAFP", "LEAF_MR", "LFC2", "LITFALL", "LITHR">>)
IDef19 ==
     DefGrid(<<"LITR1C", "LITR1C_TO_SOIL1C">>)
  \o DefLevels("levdcmp", <<"LITR1C_vr">>)
  \o DefGrid(<<"LITR1N">>)
  \o DefLevels("levdcmp", <<"LITR1N_TNDNCY_VERT_TRANS">>)
  \o DefGrid(<<"LITR1N_TO_SOIL1N">>)
  \o DefLevels("levdcmp", <<"LITR1N_vr">>)
  \o DefGrid(<<"LITR1P">>)
  \o DefLevels("levdcmp", <<"LITR1P_TNDNCY_VERT_TRANS">>)
  \o DefGrid(<<"LITR1P_TO_SOIL1P">>)
  \o DefLevels("levdcmp", <<"LITR1P_vr">>)
  \o DefGrid(<<"LITR1_HR", "LITR2C">>)
IDef20 ==
     DefGrid(<<"LITR2C_TO_SOIL2C">>)
  \o DefLevels("levdcmp", <<"LITR2C_vr">>)
  \o DefGrid(<<"LITR2N">>)
  \o DefLevels("levdcmp", <<"LITR2N_TNDNCY_VERT_TRANS">>)
  \o DefGrid(<<"LITR2N_TO_SOIL2N">>)
  \o DefLevels("levdcmp", <<"LITR2N_vr">>)
  \o DefGrid(<<"LITR2P">>)
  \o DefLevels("levdcmp", <<"LITR2P_TNDNCY_VERT_TRANS">>)
  \o DefGrid(<<"LITR2P_TO_SOIL2P">>)
  \o DefLevels("levdcmp", <<"LITR2P_vr">>)
  \o DefGrid(<<"LITR2_HR", "LITR3C", "LITR3C_TO_SOIL3C">>)
IDef21 ==
     DefLevels("levdcmp", <<"LITR3C_vr">>)
  \o DefGrid(<<"LITR3N">>)
  \o DefLevels("levdcmp", <<"LITR3N_TNDNCY_VERT_TRANS">>)
  \o DefGrid(<<"LITR3N_TO_SOIL3N">>)
  \o DefLevels("levdcmp", <<"LITR3N_vr">>)
  \o DefGrid(<<"LITR3P">>)
  \o DefLevels("levdcmp", <<"LITR3P_TNDNCY_VERT_TRANS">>)
  \o DefGrid(<<"LITR3P_TO_SOIL3P">>)
  \o DefLevels("levdcmp", <<"LITR3P_vr">>)
  \o DefGrid(<<"LITR3_HR", "LITTERC", "LITTERC_HR", "LITTERC_LOSS">>)
IDef22 ==
     DefGrid(<<"LIVECROOTC", "LIVECROOTN", "LIVECROOTP", "LIVESTEMC", "LIVESTEMN", "LIVESTEMP",
         "MR", "M_LITR1C_TO_LEACHING", "M_LITR2C_TO_LEACHING", "M_LITR3C_TO_LEACHING",
         "M_SOIL1C_TO_LEACHING", "M_SOIL2C_TO_LEACHING", "M_SOIL3C_TO_LEACHING">>)
IDef23 ==
     DefGrid(<<"M_SOIL4C_TO_LEACHING", "NBP", "NDEPLOY", "NDEP_TO_SMINN", "NEE", "NEM", "NEP",
         "NET_NMIN", "NET_PMIN", "NFIRE", "NFIX_TO_SMINN", "NPP", "OCCLP">>)
IDef24 ==
     DefLevels("levdcmp", <<"OCCLP_vr">>)
  \o DefGrid(<<"OCDEP">>)
  \o DefLevels("levdcmp", <<"O_SCALAR">>)
  \o DefGrid(<<"PARVEGLN", "PBOT", "PCH4", "PCO2">>)
  \o Vars(<<"PCT_LANDUNIT">>, <<"time", "ltype", "lat", "lon">>, "rec", "double", 3, ULC \cup
         Filled)
  \o Vars(<<"PCT_NAT_PFT">>, <<"time", "natpft", "lat", "lon">>, "rec", "double", 4, ULC \cup
         Filled)
  \o DefGrid(<<"PDEPLOY", "PDEP_TO_SMINP", "PFT_FIRE_CLOSS", "PFT_FIRE_NLOSS">>)
IDef25 ==
     DefGrid(<<"PLANT_CALLOC", "PLANT_NDEMAND", "PLANT_NDEMAND_COL", "PLANT_PALLOC",
         "PLANT_PDEMAND", "PLANT_PDEMAND_COL", "POTENTIAL_IMMOB", "POTENTIAL_IMMOB_P", "POT_F_DENIT",
         "POT_F_NIT", "PRIMP", "PRIMP_TO_LABILEP">>)
  \o DefLevels("levdcmp", <<"PRIMP_vr">>)
IDef26 ==
     DefGrid(<<"PROD1P_LOSS", "PSNSHA", "PSNSHADE_TO_CPOOL", "PSNSUN", "PSNSUN_TO_CPOOL", "Q2M",
         "QBOT", "QCHARGE", "QDRAI", "QDRAI_PERCH", "QDRAI_XS", "QDRIP", "QFLOOD">>)
IDef27 ==
     DefGrid(<<"QFLX_ICE_DYNBAL", "QFLX_LIQ_DYNBAL", "QH2OSFC", "QINFL", "QINTR", "QIRRIG_GRND",
         "QIRRIG_ORIG", "QIRRIG_REAL", "QIRRIG_SURF", "QIRRIG_WM", "QOVER", "QOVER_LAG", "QRGWL">>)
IDef28 ==
     DefGrid(<<"QRUNOFF", "QRUNOFF_NODYNLNDUSE", "QRUNOFF_R", "QRUNOFF_U", "QSNOMELT",
         "QSNWCPICE", "QSNWCPICE_NODYNLNDUSE", "QSOIL", "QVEGE", "QVEGT", "RAIN", "RETRANSN",
         "RETRANSN_TO_NPOOL">>)
IDef29 ==
     DefGrid(<<"RETRANSP", "RETRANSP_TO_PPOOL", "RH2M", "RH2M_R", "RH2M_U", "RR", "SABG",
         "SABG_PEN", "SABV">>)
  \o DefLevels("levdcmp", <<"SCALARAVG_vr">>)
  \o DefGrid(<<"SECONDP", "SECONDP_TO_LABILEP", "SECONDP_TO_OCCLP">>)
IDef30 ==
     DefLevels("levdcmp", <<"SECONDP_vr">>)
  \o DefGrid(<<"SEEDC_GRC", "SMINN", "SMINN_TO_NPOOL", "SMINN_TO_PLANT", "SMINN_TO_SOIL1N_L1",
         "SMINN_TO_SOIL2N_L2", "SMINN_TO_SOIL2N_S1", "SMINN_TO_SOIL3N_L3", "SMINN_TO_SOIL3N_S2",
         "SMINN_TO_SOIL4N_S3", "SMINP", "SMINP_LEACHED">>)
IDef31 ==
     DefGrid(<<"SMINP_TO_PLANT", "SMINP_TO_PPOOL", "SMINP_TO_SOIL1P_L1", "SMINP_TO_SOIL2P_L2",
         "SMINP_TO_SOIL2P_S1", "SMINP_TO_SOIL3P_L3", "SMINP_TO_SOIL3P_S2", "SMINP_TO_SOIL4P_S3">>)
  \o DefLevels("levdcmp", <<"SMINP_vr">>)
  \o DefGrid(<<"SMIN_NH4">>)
  \o DefLevels("levdcmp", <<"SMIN_NH4_vr">>)
  \o DefGrid(<<"SMIN_NO3", "SMIN_NO3_LEACHED">>)
IDef32 ==
     DefGrid(<<"SMIN_NO3_RUNOFF">>)
  \o DefLevels("levdcmp", <<"SMIN_NO3_vr">>)
  \o DefGrid(<<"SNOBCMCL", "SNOBCMSL", "SNODSTMCL", "SNODSTMSL", "SNOINTABS", "SNOOCMCL",
         "SNOOCMSL", "SNOW", "SNOWDP", "SNOWICE", "SNOWLIQ">>)
IDef33 ==
     DefGrid(<<"SNOW_DEPTH", "SNOW_SINKS", "SNOW_SOURCES", "SOIL1C", "SOIL1C_TO_SOIL2C">>)
  \o DefLevels("levdcmp", <<"SOIL1C_vr">>)
  \o DefGrid(<<"SOIL1N">>)
  \o DefLevels("levdcmp", <<"SOIL1N_TNDNCY_VERT_TRANS">>)
  \o DefGrid(<<"SOIL1N_TO_SOIL2N">>)
  \o DefLevels("levdcmp", <<"SOIL1N_vr">>)
  \o DefGrid(<<"SOIL1P">>)
  \o DefLevels("levdcmp", <<"SOIL1P_TNDNCY_VERT_TRANS">>)
  \o DefGrid(<<"SOIL1P_TO_SOIL2P">>)
IDef34 ==
     DefLevels("levdcmp", <<"SOIL1P_vr">>)
  \o DefGrid(<<"SOIL1_HR", "SOIL2C", "SOIL2C_TO_SOIL3C">>)
  \o DefLevels("levdcmp", <<"SOIL2C_vr">>)
  \o DefGrid(<<"SOIL2N">>)
  \o DefLevels("levdcmp", <<"SOIL2N_TNDNCY_VERT_TRANS">>)
  \o DefGrid(<<"SOIL2N_TO_SOIL3N">>)
  \o DefLevels("levdcmp", <<"SOIL2N_vr">>)
  \o DefGrid(<<"SOIL2P">>)
  \o DefLevels("levdcmp", <<"SOIL2P_TNDNCY_VERT_TRANS">>)
  \o DefGrid(<<"SOIL2P_TO_SOIL3P">>)
  \o DefLevels("levdcmp", <<"SOIL2P_vr">>)
IDef35 ==
     DefGrid(<<"SOIL2_HR", "SOIL3C", "SOIL3C_TO_SOIL4C">>)
  \o DefLevels("levdcmp", <<"SOIL3C_vr">>)
  \o DefGrid(<<"SOIL3N">>)
  \o DefLevels("levdcmp", <<"SOIL3N_TNDNCY_VERT_TRANS">>)
  \o DefGrid(<<"SOIL3N_TO_SOIL4N">>)
  \o DefLevels("levdcmp", <<"SOIL3N_vr">>)
  \o DefGrid(<<"SOIL3P">>)
  \o DefLevels("levdcmp", <<"SOIL3P_TNDNCY_VERT_TRANS">>)
  \o DefGrid(<<"SOIL3P_TO_SOIL4P">>)
  \o DefLevels("levdcmp", <<"SOIL3P_vr">>)
  \o DefGrid(<<"SOIL3_HR">>)
IDef36 ==
     DefGrid(<<"SOIL4C">>)
  \o DefLevels("levdcmp", <<"SOIL4C_vr">>)
  \o DefGrid(<<"SOIL4N">>)
  \o DefLevels("levdcmp", <<"SOIL4N_TNDNCY_VERT_TRANS">>)
  \o DefGrid(<<"SOIL4N_TO_SMINN">>)
  \o DefLevels("levdcmp", <<"SOIL4N_vr">>)
  \o DefGrid(<<"SOIL4P">>)
  \o DefLevels("levdcmp", <<"SOIL4P_TNDNCY_VERT_TRANS">>)
  \o DefGrid(<<"SOIL4P_TO_SMINP">>)
  \o DefLevels("levdcmp", <<"SOIL4P_vr">>)
  \o DefGrid(<<"SOIL4_HR", "SOILC", "SOILC_HR">>)
IDef37 ==
     DefGrid(<<"SOILC_LOSS">>)
  \o DefLevels("levgrnd", <<"SOILICE", "SOILICE_ICE", "SOILLIQ", "SOILLIQ_ICE", "SOILPSI">>)
  \o Vars(<<"SOILWATER_10CM">>, <<"time", "lat", "lon">>, "rec", "double", 0, ULC \cup Filled
         \cup Standard)
  \o DefGrid(<<"SOLUTIONP">>)
  \o DefLevels("levdcmp", <<"SOLUTIONP_vr">>)
  \o DefGrid(<<"SOMHR", "SOM_C_LEACHED", "SR", "STORVEGC">>)
IDef38 ==
     DefGrid(<<"STORVEGN", "STORVEGP", "SUPPLEMENT_TO_SMINN", "SUPPLEMENT_TO_SMINP", "SUPPLY",
         "SoilAlpha", "SoilAlpha_U", "TAUX", "TAUY", "TBOT", "TBUILD", "TCS_MONTH_BEGIN",
         "TCS_MONTH_END">>)
IDef39 ==
     DefGrid(<<"TG", "TG_R", "TG_U", "TH2OSFC", "THBOT", "TKE1", "TLAI">>)
  \o Vars(<<"TLAKE">>, <<"time", "levlak", "lat", "lon">>, "rec", "double", 2, ULC \cup Filled)
  \o DefGrid(<<"TOTCOLC", "TOTCOLCH4", "TOTCOLN", "TOTCOLP", "TOTECOSYSC">>)
IDef40 ==
     DefGrid(<<"TOTECOSYSN", "TOTECOSYSP", "TOTLITC", "TOTLITC_1m", "TOTLITN", "TOTLITP",
         "TOTLITP_1m", "TOTPFTC", "TOTPFTN", "TOTPFTP", "TOTSOMC", "TOTSOMC_1m", "TOTSOMN">>)
IDef41 ==
     DefGrid(<<"TOTSOMP", "TOTSOMP_1m", "TOTVEGC", "TOTVEGC_ABG", "TOTVEGN", "TOTVEGP",
         "TREFMNAV", "TREFMNAV_R", "TREFMNAV_U", "TREFMXAV", "TREFMXAV_R", "TREFMXAV_U", "TSA">>)
IDef42 ==
     DefGrid(<<"TSAI", "TSA_R", "TSA_U">>)
  \o Vars(<<"TSOI">>, <<"time", "levgrnd", "lat", "lon">>, "rec", "double", 1, ULC \cup Filled
         \cup Standard)
  \o DefGrid(<<"TSOI_10CM">>)
  \o DefLevels("levgrnd", <<"TSOI_ICE">>)
  \o DefGrid(<<"TV", "TWS", "TWS_MONTH_BEGIN", "TWS_MONTH_END">>)
  \o DefLevels("levdcmp", <<"T_SCALAR">>)
  \o DefGrid(<<"U10", "URBAN_AC">>)
IDef43 ==
     DefGrid(<<"URBAN_HEAT", "VOLR", "VOLRMCH", "WA", "WASTEHEAT", "WF", "WIND", "WOODC",
         "WOODC_ALLOC", "WOODC_LOSS", "WOOD_HARVESTC", "WOOD_HARVESTN", "WTGQ">>)
IDef44 ==
     DefLevels("levdcmp", <<"W_SCALAR">>)
  \o DefGrid(<<"XR", "XSMRPOOL", "ZBOT", "ZWT", "ZWT_CH4_UNSAT", "ZWT_PERCH", "cn_scalar",
         "cp_scalar", "leaf_npimbalance", "nlim_m">>)
  \o DefLevels("levgrnd", <<"o2_decomp_depth_unsat">>)
  \o DefGrid(<<"plim_m">>)

IDefined(hist) ==
    IDef1 \o Only("h0", hist, IDef2) \o IDef3 \o IDef4 \o IDef5 \o IDef6 \o IDef7 \o IDef8 \o
    IDef9 \o IDef10 \o IDef11 \o IDef12 \o IDef13 \o IDef14 \o IDef15 \o IDef16 \o IDef17 \o
    IDef18 \o IDef19 \o IDef20 \o IDef21 \o IDef22 \o IDef23 \o IDef24 \o IDef25 \o IDef26 \o
    IDef27 \o IDef28 \o IDef29 \o IDef30 \o IDef31 \o IDef32 \o IDef33 \o IDef34 \o IDef35 \o
    IDef36 \o IDef37 \o IDef38 \o IDef39 \o IDef40 \o IDef41 \o IDef42 \o IDef43 \o IDef44

(* What inq_I_case() looks up, in its order. *)
IInq1 ==
     Inq(<<"levgrnd", "levlak", "levdcmp">>, "double", -1, UL)
  \o Inq(<<"time">>, "double", -1, UL \cup Txt({"bounds", "calendar"}))
  \o Inq(<<"mcdate">>, "int", -1, L)
  \o Inq(<<"mcsec">>, "int", -1, UL)
  \o Inq(<<"mdcur", "mscur", "nstep">>, "int", -1, L)
  \o Inq(<<"time_bounds">>, "double", -1, L)
  \o Inq(<<"date_written", "time_written">>, "char", -1, {})
  \o Inq(<<"lon", "lat">>, "double", -1, UL \cup Filled)
  \o Inq(<<"area", "topo">>, "double", 0, UL \cup Filled)
  \o Inq(<<"landfrac">>, "double", 0, L \cup Filled)
  \o Inq(<<"landmask", "pftmask">>, "int", 0, L \cup FilledInt)
IInq2 ==
     Inq(<<"ZSOI", "DZSOI", "WATSAT", "SUCSAT", "BSW", "HKSAT">>, "double", 1, UL \cup Filled)
  \o Inq(<<"ZLAKE", "DZLAKE">>, "double", 2, UL \cup Filled)
IInq3 ==
     InqGrid(<<"ACTUAL_IMMOB", "ACTUAL_IMMOB_P", "ADSORBTION_P", "AGNPP", "AGWDNPP", "ALT",
         "ALTMAX", "ALTMAX_LASTYEAR", "AR", "AVAILC", "AVAIL_RETRANSP", "BAF_CROP", "BAF_PEATF">>)
IInq4 ==
     InqGrid(<<"BCDEP", "BGNPP", "BIOCHEM_PMIN", "BIOCHEM_PMIN_TO_PLANT", "BTRAN", "BUILDHEAT",
         "CH4PROD", "CH4_SURF_AERE_SAT", "CH4_SURF_AERE_UNSAT", "CH4_SURF_DIFF_SAT",
         "CH4_SURF_DIFF_UNSAT", "CH4_SURF_EBUL_SAT", "CH4_SURF_EBUL_UNSAT">>)
IInq5 ==
     InqGrid(<<"COL_PTRUNC">>)
  \o InqLevels(<<"CONC_CH4_SAT", "CONC_CH4_UNSAT", "CONC_O2_SAT", "CONC_O2_UNSAT">>)
  \o InqGrid(<<"CPOOL", "CWDC", "CWDC_HR", "CWDC_LOSS", "CWDC_TO_LITR2C", "CWDC_TO_LITR3C">>)
  \o InqLevels(<<"CWDC_vr">>)
  \o InqGrid(<<"CWDN">>)
IInq6 ==
     InqGrid(<<"CWDN_TO_LITR2N", "CWDN_TO_LITR3N">>)
  \o InqLevels(<<"CWDN_vr">>)
  \o InqGrid(<<"CWDP", "CWDP_TO_LITR2P", "CWDP_TO_LITR3P">>)
  \o InqLevels(<<"CWDP_vr">>)
  \o InqGrid(<<"DEADCROOTC", "DEADCROOTN", "DEADCROOTP", "DEADSTEMC", "DEADSTEMN", "DEADSTEMP">>)
IInq7 ==
     InqGrid(<<"DEFICIT", "DENIT", "DESORPTION_P", "DISPVEGC", "DISPVEGN", "DISPVEGP", "DSTDEP",
         "DSTFLXT", "DWB", "DWT_CONV_CFLUX_DRIBBLED", "DWT_CONV_CFLUX_GRC", "DWT_CONV_NFLUX_GRC",
         "DWT_CONV_PFLUX_GRC">>)
IInq8 ==
     InqGrid(<<"DWT_SLASH_CFLUX", "DWT_SLASH_NFLUX", "DWT_SLASH_PFLUX", "EFLX_DYNBAL",
         "EFLX_GRND_LAKE", "EFLX_LH_TOT", "EFLX_LH_TOT_R", "EFLX_LH_TOT_U", "ELAI", "ER", "ERRH2O",
         "ERRH2OSNO", "ERRSEB">>)
IInq9 ==
     InqGrid(<<"ERRSOI", "ERRSOL", "ESAI", "FAREA_BURNED", "FCEV", "FCH4", "FCH4TOCO2",
         "FCH4_DFSAT", "FCOV", "FCTR", "FGEV", "FGR", "FGR12">>)
IInq10 ==
     InqGrid(<<"FGR_R", "FGR_U", "FH2OSFC", "FINUNDATED", "FINUNDATED_LAG", "FIRA", "FIRA_R",
         "FIRA_U", "FIRE", "FIRE_R", "FIRE_U", "FLDS", "FPG">>)
IInq11 ==
     InqGrid(<<"FPG_P", "FPI", "FPI_P">>)
  \o InqLevels(<<"FPI_P_vr", "FPI_vr">>)
  \o InqGrid(<<"FPSN", "FPSN_WC", "FPSN_WJ", "FPSN_WP", "FROOTC", "FROOTC_ALLOC", "FROOTC_LOSS",
         "FROOTN">>)
IInq12 ==
     InqGrid(<<"FROOTP", "FROST_TABLE", "FSA", "FSAT", "FSA_R", "FSA_U", "FSDS", "FSDSND",
         "FSDSNDLN", "FSDSNI", "FSDSVD", "FSDSVDLN", "FSDSVI">>)
IInq13 ==
     InqGrid(<<"FSDSVILN", "FSH", "FSH_G", "FSH_NODYNLNDUSE", "FSH_R", "FSH_U", "FSH_V", "FSM",
         "FSM_R", "FSM_U", "FSNO", "FSNO_EFF", "FSR">>)
IInq14 ==
     InqGrid(<<"FSRND", "FSRNDLN", "FSRNI", "FSRVD", "FSRVDLN", "FSRVI", "F_CO2_SOIL">>)
  \o InqLevels(<<"F_CO2_SOIL_vr">>)
  \o InqGrid(<<"F_DENIT">>)
  \o InqLevels(<<"F_DENIT_vr">>)
  \o InqGrid(<<"F_N2O_DENIT", "F_N2O_NIT", "F_NIT">>)
IInq15 ==
     InqLevels(<<"F_NIT_vr">>)
  \o InqGrid(<<"GC_HEAT1", "GC_ICE1", "GC_LIQ1", "GPP", "GR", "GROSS_NMIN", "GROSS_PMIN",
         "H2OCAN", "H2OSFC", "H2OSNO", "H2OSNO_TOP">>)
  \o InqLevels(<<"H2OSOI">>)
IInq16 ==
     InqGrid(<<"HC", "HCSOI", "HEAT_FROM_AC", "HR">>)
  \o InqLevels(<<"HR_vr">>)
  \o InqGrid(<<"HTOP", "INT_SNOW", "LABILEP", "LABILEP_TO_SECONDP">>)
  \o InqLevels(<<"LABILEP_vr">>)
  \o InqGrid(<<"LAISHA", "LAISUN">>)
  \o Inq(<<"LAKEICEFRAC">>, "double", 2, ULC \cup Filled)
IInq17 ==
     InqGrid(<<"LAKEICETHICK", "LAND_UPTAKE", "LAND_USE_FLUX", "LEAFC", "LEAFC_ALLOC",
         "LEAFC_LOSS", "LEAFC_TO_LITTER", "LEAFN", "LEAFP", "LEAF_MR", "LFC2", "LITFALL", "LITHR">>)
IInq18 ==
     InqGrid(<<"LITR1C", "LITR1C_TO_SOIL1C">>)
  \o InqLevels(<<"LITR1C_vr">>)
  \o InqGrid(<<"LITR1N">>)
  \o InqLevels(<<"LITR1N_TNDNCY_VERT_TRANS">>)
  \o InqGrid(<<"LITR1N_TO_SOIL1N">>)
  \o InqLevels(<<"LITR1N_vr">>)
  \o InqGrid(<<"LITR1P">>)
  \o InqLevels(<<"LITR1P_TNDNCY_VERT_TRANS">>)
  \o InqGrid(<<"LITR1P_TO_SOIL1P">>)
  \o InqLevels(<<"LITR1P_vr">>)
  \o InqGrid(<<"LITR1_HR", "LITR2C">>)
IInq19 ==
     InqGrid(<<"LITR2C_TO_SOIL2C">>)
  \o InqLevels(<<"LITR2C_vr">>)
  \o InqGrid(<<"LITR2N">>)
  \o InqLevels(<<"LITR2N_TNDNCY_VERT_TRANS">>)
  \o InqGrid(<<"LITR2N_TO_SOIL2N">>)
  \o InqLevels(<<"LITR2N_vr">>)
  \o InqGrid(<<"LITR2P">>)
  \o InqLevels(<<"LITR2P_TNDNCY_VERT_TRANS">>)
  \o InqGrid(<<"LITR2P_TO_SOIL2P">>)
  \o InqLevels(<<"LITR2P_vr">>)
  \o InqGrid(<<"LITR2_HR", "LITR3C", "LITR3C_TO_SOIL3C">>)
IInq20 ==
     InqLevels(<<"LITR3C_vr">>)
  \o InqGrid(<<"LITR3N">>)
  \o InqLevels(<<"LITR3N_TNDNCY_VERT_TRANS">>)
  \o InqGrid(<<"LITR3N_TO_SOIL3N">>)
  \o InqLevels(<<"LITR3N_vr">>)
  \o InqGrid(<<"LITR3P">>)
  \o InqLevels(<<"LITR3P_TNDNCY_VERT_TRANS">>)
  \o InqGrid(<<"LITR3P_TO_SOIL3P">>)
  \o InqLevels(<<"LITR3P_vr">>)
  \o InqGrid(<<"LITR3_HR", "LITTERC", "LITTERC_HR", "LITTERC_LOSS">>)
IInq21 ==
     InqGrid(<<"LIVECROOTC", "LIVECROOTN", "LIVECROOTP", "LIVESTEMC", "LIVESTEMN", "LIVESTEMP",
         "MR", "M_LITR1C_TO_LEACHING", "M_LITR2C_TO_LEACHING", "M_LITR3C_TO_LEACHING",
         "M_SOIL1C_TO_LEACHING", "M_SOIL2C_TO_LEACHING", "M_SOIL3C_TO_LEACHING">>)
IInq22 ==
     InqGrid(<<"M_SOIL4C_TO_LEACHING", "NBP", "NDEPLOY", "NDEP_TO_SMINN", "NEE", "NEM", "NEP",
         "NET_NMIN", "NET_PMIN", "NFIRE", "NFIX_TO_SMINN", "NPP", "OCCLP">>)
IInq23 ==
     InqLevels(<<"OCCLP_vr">>)
  \o InqGrid(<<"OCDEP">>)
  \o InqLevels(<<"O_SCALAR">>)
  \o InqGrid(<<"PARVEGLN", "PBOT", "PCH4", "PCO2">>)
  \o Inq(<<"PCT_LANDUNIT">>, "double", 3, ULC \cup Filled)
  \o Inq(<<"PCT_NAT_PFT">>, "double", 4, ULC \cup Filled)
  \o InqGrid(<<"PDEPLOY", "PDEP_TO_SMINP", "PFT_FIRE_CLOSS", "PFT_FIRE_NLOSS">>)
IInq24 ==
     InqGrid(<<"PLANT_CALLOC", "PLANT_NDEMAND", "PLANT_NDEMAND_COL", "PLANT_PALLOC",
         "PLANT_PDEMAND", "PLANT_PDEMAND_COL", "POTENTIAL_IMMOB", "POTENTIAL_IMMOB_P", "POT_F_DENIT",
         "POT_F_NIT", "PRIMP", "PRIMP_TO_LABILEP">>)
  \o InqLevels(<<"PRIMP_vr">>)
IInq25 ==
     InqGrid(<<"PROD1P_LOSS", "PSNSHA", "PSNSHADE_TO_CPOOL", "PSNSUN", "PSNSUN_TO_CPOOL", "Q2M",
         "QBOT", "QCHARGE", "QDRAI", "QDRAI_PERCH", "QDRAI_XS", "QDRIP", "QFLOOD">>)
IInq26 ==
     InqGrid(<<"QFLX_ICE_DYNBAL", "QFLX_LIQ_DYNBAL", "QH2OSFC", "QINFL", "QINTR", "QIRRIG_GRND",
         "QIRRIG_ORIG", "QIRRIG_REAL", "QIRRIG_SURF", "QIRRIG_WM", "QOVER", "QOVER_LAG", "QRGWL">>)
IInq27 ==
     InqGrid(<<"QRUNOFF", "QRUNOFF_NODYNLNDUSE", "QRUNOFF_R", "QRUNOFF_U", "QSNOMELT",
         "QSNWCPICE", "QSNWCPICE_NODYNLNDUSE", "QSOIL", "QVEGE", "QVEGT", "RAIN", "RETRANSN",
         "RETRANSN_TO_NPOOL">>)
IInq28 ==
     InqGrid(<<"RETRANSP", "RETRANSP_TO_PPOOL", "RH2M", "RH2M_R", "RH2M_U", "RR", "SABG",
         "SABG_PEN", "SABV">>)
  \o InqLevels(<<"SCALARAVG_vr">>)
  \o InqGrid(<<"SECONDP", "SECONDP_TO_LABILEP", "SECONDP_TO_OCCLP">>)
IInq29 ==
     InqLevels(<<"SECONDP_vr">>)
  \o InqGrid(<<"SEEDC_GRC", "SMINN", "SMINN_TO_NPOOL", "SMINN_TO_PLANT", "SMINN_TO_SOIL1N_L1",
         "SMINN_TO_SOIL2N_L2", "SMINN_TO_SOIL2N_S1", "SMINN_TO_SOIL3N_L3", "SMINN_TO_SOIL3N_S2",
         "SMINN_TO_SOIL4N_S3", "SMINP", "SMINP_LEACHED">>)
IInq30 ==
     InqGrid(<<"SMINP_TO_PLANT", "SMINP_TO_PPOOL", "SMINP_TO_SOIL1P_L1", "SMINP_TO_SOIL2P_L2",
         "SMINP_TO_SOIL2P_S1", "SMINP_TO_SOIL3P_L3", "SMINP_TO_SOIL3P_S2", "SMINP_TO_SOIL4P_S3">>)
  \o InqLevels(<<"SMINP_vr">>)
  \o InqGrid(<<"SMIN_NH4">>)
  \o InqLevels(<<"SMIN_NH4_vr">>)
  \o InqGrid(<<"SMIN_NO3", "SMIN_NO3_LEACHED">>)
IInq31 ==
     InqGrid(<<"SMIN_NO3_RUNOFF">>)
  \o InqLevels(<<"SMIN_NO3_vr">>)
  \o InqGrid(<<"SNOBCMCL", "SNOBCMSL", "SNODSTMCL", "SNODSTMSL", "SNOINTABS", "SNOOCMCL",
         "SNOOCMSL", "SNOW", "SNOWDP", "SNOWICE", "SNOWLIQ">>)
IInq32 ==
     InqGrid(<<"SNOW_DEPTH", "SNOW_SINKS", "SNOW_SOURCES", "SOIL1C", "SOIL1C_TO_SOIL2C">>)
  \o InqLevels(<<"SOIL1C_vr">>)
  \o InqGrid(<<"SOIL1N">>)
  \o InqLevels(<<"SOIL1N_TNDNCY_VERT_TRANS">>)
  \o InqGrid(<<"SOIL1N_TO_SOIL2N">>)
  \o InqLevels(<<"SOIL1N_vr">>)
  \o InqGrid(<<"SOIL1P">>)
  \o InqLevels(<<"SOIL1P_TNDNCY_VERT_TRANS">>)
  \o InqGrid(<<"SOIL1P_TO_SOIL2P">>)
IInq33 ==
     InqLevels(<<"SOIL1P_vr">>)
  \o InqGrid(<<"SOIL1_HR", "SOIL2C", "SOIL2C_TO_SOIL3C">>)
  \o InqLevels(<<"SOIL2C_vr">>)
  \o InqGrid(<<"SOIL2N">>)
  \o InqLevels(<<"SOIL2N_TNDNCY_VERT_TRANS">>)
  \o InqGrid(<<"SOIL2N_TO_SOIL3N">>)
  \o InqLevels(<<"SOIL2N_vr">>)
  \o InqGrid(<<"SOIL2P">>)
  \o InqLevels(<<"SOIL2P_TNDNCY_VERT_TRANS">>)
  \o InqGrid(<<"SOIL2P_TO_SOIL3P">>)
  \o InqLevels(<<"SOIL2P_vr">>)
IInq34 ==
     InqGrid(<<"SOIL2_HR", "SOIL3C", "SOIL3C_TO_SOIL4C">>)
  \o InqLevels(<<"SOIL3C_vr">>)
  \o InqGrid(<<"SOIL3N">>)
  \o InqLevels(<<"SOIL3N_TNDNCY_VERT_TRANS">>)
  \o InqGrid(<<"SOIL3N_TO_SOIL4N">>)
  \o InqLevels(<<"SOIL3N_vr">>)
  \o InqGrid(<<"SOIL3P">>)
  \o InqLevels(<<"SOIL3P_TNDNCY_VERT_TRANS">>)
  \o InqGrid(<<"SOIL3P_TO_SOIL4P">>)
  \o InqLevels(<<"SOIL3P_vr">>)
  \o InqGrid(<<"SOIL3_HR">>)
IInq35 ==
     InqGrid(<<"SOIL4C">>)
  \o InqLevels(<<"SOIL4C_vr">>)
  \o InqGrid(<<"SOIL4N">>)
  \o InqLevels(<<"SOIL4N_TNDNCY_VERT_TRANS">>)
  \o InqGrid(<<"SOIL4N_TO_SMINN">>)
  \o InqLevels(<<"SOIL4N_vr">>)
  \o InqGrid(<<"SOIL4P">>)
  \o InqLevels(<<"SOIL4P_TNDNCY_VERT_TRANS">>)
  \o InqGrid(<<"SOIL4P_TO_SMINP">>)
  \o InqLevels(<<"SOIL4P_vr">>)
  \o InqGrid(<<"SOIL4_HR", "SOILC", "SOILC_HR">>)
IInq36 ==
     InqGrid(<<"SOILC_LOSS">>)
  \o InqLevels(<<"SOILICE", "SOILICE_ICE", "SOILLIQ", "SOILLIQ_ICE", "SOILPSI">>)
  \o Inq(<<"SOILWATER_10CM">>, "double", 0, ULC \cup Filled \cup Standard)
  \o InqGrid(<<"SOLUTIONP">>)
  \o InqLevels(<<"SOLUTIONP_vr">>)
  \o InqGrid(<<"SOMHR", "SOM_C_LEACHED", "SR", "STORVEGC">>)
IInq37 ==
     InqGrid(<<"STORVEGN", "STORVEGP", "SUPPLEMENT_TO_SMINN", "SUPPLEMENT_TO_SMINP", "SUPPLY",
         "SoilAlpha", "SoilAlpha_U", "TAUX", "TAUY", "TBOT", "TBUILD", "TCS_MONTH_BEGIN",
         "TCS_MONTH_END">>)
IInq38 ==
     InqGrid(<<"TG", "TG_R", "TG_U", "TH2OSFC", "THBOT", "TKE1", "TLAI">>)
  \o Inq(<<"TLAKE">>, "double", 2, ULC \cup Filled)
  \o InqGrid(<<"TOTCOLC", "TOTCOLCH4", "TOTCOLN", "TOTCOLP", "TOTECOSYSC">>)
IInq39 ==
     InqGrid(<<"TOTECOSYSN", "TOTECOSYSP", "TOTLITC", "TOTLITC_1m", "TOTLITN", "TOTLITP",
         "TOTLITP_1m", "TOTPFTC", "TOTPFTN", "TOTPFTP", "TOTSOMC", "TOTSOMC_1m", "TOTSOMN">>)
IInq40 ==
     InqGrid(<<"TOTSOMP", "TOTSOMP_1m", "TOTVEGC", "TOTVEGC_ABG", "TOTVEGN", "TOTVEGP",
         "TREFMNAV", "TREFMNAV_R", "TREFMNAV_U", "TREFMXAV", "TREFMXAV_R", "TREFMXAV_U", "TSA">>)
IInq41 ==
     InqGrid(<<"TSAI", "TSA_R", "TSA_U">>)
  \o Inq(<<"TSOI">>, "double", 1, ULC \cup Filled \cup Standard)
  \o InqGrid(<<"TSOI_10CM">>)
  \o InqLevels(<<"TSOI_ICE">>)
  \o InqGrid(<<"TV", "TWS", "TWS_MONTH_BEGIN", "TWS_MONTH_END">>)
  \o InqLevels(<<"T_SCALAR">>)
  \o InqGrid(<<"U10", "URBAN_AC">>)
IInq42 ==
     InqGrid(<<"URBAN_HEAT", "VOLR", "VOLRMCH", "WA", "WASTEHEAT", "WF", "WIND", "WOODC",
         "WOODC_ALLOC", "WOODC_LOSS", "WOOD_HARVESTC", "WOOD_HARVESTN", "WTGQ">>)
IInq43 ==
     InqLevels(<<"W_SCALAR">>)
  \o InqGrid(<<"XR", "XSMRPOOL", "ZBOT", "ZWT", "ZWT_CH4_UNSAT", "ZWT_PERCH", "cn_scalar",
         "cp_scalar", "leaf_npimbalance", "nlim_m">>)
  \o InqLevels(<<"o2_decomp_depth_unsat">>)
  \o InqGrid(<<"plim_m">>)

IInquired(hist) ==
    IInq1 \o Only("h0", hist, IInq2) \o IInq3 \o IInq4 \o IInq5 \o IInq6 \o IInq7 \o IInq8 \o
    IInq9 \o IInq10 \o IInq11 \o IInq12 \o IInq13 \o IInq14 \o IInq15 \o IInq16 \o IInq17 \o
    IInq18 \o IInq19 \o IInq20 \o IInq21 \o IInq22 \o IInq23 \o IInq24 \o IInq25 \o IInq26 \o
    IInq27 \o IInq28 \o IInq29 \o IInq30 \o IInq31 \o IInq32 \o IInq33 \o IInq34 \o IInq35 \o
    IInq36 \o IInq37 \o IInq38 \o IInq39 \o IInq40 \o IInq41 \o IInq42 \o IInq43
=============================================================================
