CONSTANTS
  DecompProcs = 3
  MaxProcs = 4
  GSize = 6
  DimX = 3
  Maps <- MCMaps
  Options <- MCOptions

SPECIFICATION Spec

INVARIANTS
  EachOnce
  TypeOK
  OneRow
  Noncontiguous
