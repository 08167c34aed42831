CONSTANTS
  Handles = {h1, h2}
  NoHandle = NoHandle
  WordSize = 5
  Retry = 1
  CarryOn = FALSE
  MaxDepth = 2
  MaxUid = 2
SPECIFICATION FairSpec
INVARIANTS TypeOK MutualExclusion LockPromise FlagTruth UidsFresh CountersAgree HeaderCurrent

PROPERTIES HeaderAtomic CallReturns
