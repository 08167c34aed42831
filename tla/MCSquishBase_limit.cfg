CONSTANTS
  Handles = {h1}
  MaxFrames = 3
  MaxUid = 4
  Sizes = {1}
  Limits <- RoomyLimits
  Marks = TRUE
  Polite = TRUE
  DiskFull = {}
SPECIFICATION Spec
INVARIANTS ChainMatchesIndex FreeChainSound CursorMatchesIndex
PROPERTIES AreaSpec MarkNeverSkipsAhead
