CONSTANTS
  Rank = {0, 1}
  Built <- MCBuilt
  Inputs <- MCInputs

SPECIFICATION Spec

INVARIANT InputKept
