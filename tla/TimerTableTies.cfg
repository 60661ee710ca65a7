CONSTANTS
  State <- MCState
  Trigger <- MCTrigger
  Depth <- MCDepth
  Capacity = 3
  NsLimit = 4
  Owned <- DistinctOwned
  Durations = {1, 2, 3}
  None = None
SPECIFICATION Spec
PROPERTY TiesInOrder
