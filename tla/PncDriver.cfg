CONSTANTS
  NProcs = 3
  NVars = 6
  RecVar = {4, 5, 6}
  Partitioned = {1, 3, 4, 6}
  DecompVar = {1}
  NRecs = 4
  Ffreq = 3
  Gap = 1
  VarType <- MCVarType
  DecompLen <- MCDecompLen
  PutLen <- MCPutLen

SPECIFICATION FairSpec

INVARIANTS
  TypeOK
  BuffersIntact
  CallsMatch
  FileComplete

PROPERTIES
  StoreSpec
  AllClose
