\* Two nodes that come and go, under the default proxy and one route.
CONSTANTS
  Nodes = {n1, n2}
  Services = {s1}
  Domains = {d1}
  Settings = {rule, global}
  DefaultSettings = rule
  Proxy = proxy
  Direct = directOutbound
  Absent = Absent
SYMMETRY Symmetry
SPECIFICATION Spec
INVARIANTS
  TypeOK
  NoOtherNode
  RunningIsSaved
PROPERTY FailureKeepsRunning
