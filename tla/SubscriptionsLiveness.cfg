\* Liveness: one handler, one pipeline.
CONSTANTS
  Ids = {s1}
  Callers = {c1}
  Flights = {f1}
  Names = {n1}
  Enabling = {TRUE}
  Automatic = {TRUE}
  Intervals = {0}
  MinInterval = 5
  DefaultInterval = 5
  MaxVersion = 1
  Absent = Absent
  Scheduler = Scheduler
  None = None
SPECIFICATION FairSpec
PROPERTIES
  UpdatingEnds
  HandlersReturn
