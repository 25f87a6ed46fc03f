CONSTANTS
  DecompProcs = 3
  MaxProcs = 4
  GSize = 4
  DimX = 2
  Maps <- MCMaps
  Options <- MCSkipFill

SPECIFICATION Spec

INVARIANTS
  EachOnce
