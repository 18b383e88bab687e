\* The same instance for what the documentation
\* says of automatic updates.
CONSTANTS
  Ids = {s1, s2}
  Slots = {g1}
  Intervals = {1}
  MinInterval = 1
  MinDelay = 1
  MaxDelay = 1
  None = None
SPECIFICATION RememberingSpec
PROPERTY AutomaticUpdatesRest
