CONSTANTS
  Rank = {0, 1}
  Built <- MCBuilt
  Inputs <- MCInputs

SPECIFICATION FairSpec

INVARIANT FilesAsAsked

PROPERTY AllEnd
