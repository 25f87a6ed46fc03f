CONSTANTS
  Rank <- MCRank
  Placements <- MCPlacements
  Replays <- MCReplays
  Dims <- MCDims
  Reqs <- MCReqs
  DimNames <- MCDimNames
  Vars <- MCVars
  NRecs = 2

SPECIFICATION FairSpec

INVARIANTS
  TypeOK
  BlobsTile
  CompleteOrWarned

PROPERTIES
  WritesCanonically
  Terminates

CHECK_DEADLOCK FALSE
