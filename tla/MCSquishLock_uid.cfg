CONSTANTS
  Handles = {h1, h2}
  NoHandle = NoHandle
  WordSize = 5
  Retry = 1
  CarryOn = TRUE
  MaxDepth = 2
  MaxUid = 2
SPECIFICATION Spec
SYMMETRY Symmetry
INVARIANTS MutualExclusion
