\* Two pipelines, a handler and the scheduler on one subscription, whose
\* provider publishes two documents and suggests intervals below and at the
\* minimum.
CONSTANTS
  Ids = {s1}
  Callers = {c1}
  Flights = {f1, f2}
  Names = {n1}
  Enabling = {TRUE}
  Automatic = {TRUE}
  Intervals = {1, 5}
  MinInterval = 5
  DefaultInterval = 5
  MaxVersion = 2
  Absent = Absent
  Scheduler = Scheduler
  None = None
SYMMETRY Symmetry
SPECIFICATION Spec
INVARIANTS
  TypeOK
  AutoUpdatesRateLimited
  OneUpdatePerSubscription
  NoOrphanUpdating
  NothingDurableIsHidden
  ReadyMeansContent
PROPERTY NodesNeverRegress
