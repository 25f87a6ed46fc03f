CONSTANTS
  NProcs = 3
  NVars = 4
  RecVar = {3, 4}
  Partitioned = {1, 3}
  NRecs = 2
  Ffreq = 1
  Apis = {"hdf5_md"}
  Scalar = {}
  VarLen <- MCVarLen
  Reqs <- MCReqsEmptyRank

SPECIFICATION FairSpec

INVARIANT CallsMatch
