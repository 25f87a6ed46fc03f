CONSTANTS
  MapDims <- MCMapDims
  RootCount <- MCRootCount
  OtherCount <- MCOtherCount
  NBlobs = 2
  MaxNreqs = 3
  Ffreqs = {1, 2}
  NRecs = 3

SPECIFICATION Spec

INVARIANTS
  BuffersSuffice
  LookupsSucceed
  ReadAsWritten
  DecompositionFits
  PostsAscend
  HeaderTotals

CHECK_DEADLOCK FALSE
