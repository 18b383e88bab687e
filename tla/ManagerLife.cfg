\* One node and one route; the program starts, dies and starts again; routes are
\* listed meanwhile; every operation ends.
CONSTANTS
  Nodes = {n1}
  Services = {s1}
  Domains = {d1}
  Settings = {rule, direct}
  DefaultSettings = rule
  DirectSettings = {direct}
  Keys = {k1, k2}
  Proxy = proxy
  Direct = directOutbound
  Absent = Absent
SPECIFICATION LifeFairSpec
INVARIANTS
  SavedStarts
  KeyFits
  ReportsAreTrue
PROPERTIES
  ImplementsController
  OperationsEnd
