\* Two subscriptions compete for one goroutine of the group.
CONSTANTS
  Ids = {s1, s2}
  Slots = {g1}
  Intervals = {1}
  MinInterval = 1
  MinDelay = 1
  MaxDelay = 1
  None = None
SPECIFICATION Spec
PROPERTIES
  RoundsRespectOutcomes
  DueIsUpdated
  CancelledReturns
