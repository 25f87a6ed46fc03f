CONSTANTS
  NProcs = 3
  NVars = 4
  RecVar = {3, 4}
  Partitioned = {1, 3}
  NRecs = 4
  Ffreq = 3
  Grow = 2
  Name = {"t", "lv", "col", "area", "title"}
  NameLen <- MCNameLen
  ArrayGrowBy = 2
  Schemas <- MCSchemas
  PutLen <- MCPutLen

SPECIFICATION FairSpec

INVARIANTS
  TypeOK
  PutsAccepted
  PackedIsCounted
  RegionsDisjoint
  CallsMatch
  FileComplete
  AmountsAddUp
  HeaderPacks

PROPERTIES
  StoreSpec
  AllClose
