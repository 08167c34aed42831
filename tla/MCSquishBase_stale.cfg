CONSTANTS
  Handles = {h1, h2}
  MaxFrames = 3
  MaxUid = 3
  Sizes = {1}
  Limits <- NoLimits
  Marks = FALSE
  Polite = FALSE
  DiskFull = {}
SPECIFICATION Spec
PROPERTY TailIsReplaced
