CONSTANTS
  State <- MCState
  Trigger <- MCTrigger
  Depth <- MCDepth
  Capacity = 3
  NsLimit = 4
  Owned <- SharedOwned
  Durations = {1, 2, 3}
  None = None
SPECIFICATION Spec
INVARIANT TypeOK
INVARIANT OnePerPair
INVARIANT NothingLost
INVARIANT OnTime
PROPERTY ImplementsPromise
