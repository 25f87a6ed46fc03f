CONSTANTS
  NProcs = 3
  NVars = 4
  RecVar = {3, 4}
  Partitioned = {1, 3}
  NRecs = 2
  Ffreq = 2
  Apis = {"hdf5", "hdf5_md", "hdf5_log", "netcdf4"}
  Scalar = {}
  VarLen <- MCVarLen
  Reqs <- MCReqs

SPECIFICATION FairSpec

INVARIANTS
  TypeOK
  RequestsAccepted
  NoDatasetTwice
  CallsMatch
  FileComplete

PROPERTIES
  StoreSpec
  AllClose
