CONSTANTS
  Handles = {h1}
  MaxFrames = 3
  MaxUid = 4
  Sizes = {1, 2}
  Limits <- NoLimits
  Marks = FALSE
  Polite = TRUE
  DiskFull = {}
SPECIFICATION Spec
INVARIANTS TypeOK ChainMatchesIndex FreeChainSound NoFrameLost CursorMatchesIndex UidsAgree
PROPERTIES AreaSpec
