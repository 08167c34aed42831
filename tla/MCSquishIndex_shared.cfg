CONSTANTS
  Handles = {h1, h2}
  NoHandle = NoHandle
  SegmentSize = 2
  MoreSpace = 1
  Ahead = 2
  Limits <- NoLimits
  MaxUid = 3
SPECIFICATION Spec
INVARIANTS IndexComplete
