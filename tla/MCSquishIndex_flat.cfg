CONSTANTS
  Handles = {h1}
  NoHandle = NoHandle
  SegmentSize = 2
  MoreSpace = 1
  Ahead = 2
  Limits <- SomeLimits
  MaxUid = 5
SPECIFICATION Spec
INVARIANTS TypeOK NoGhosts IndexComplete
PROPERTIES IndexIsFlat
