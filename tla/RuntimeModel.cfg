\* Every model of two nodes, two services and two domains, one inside the other.
CONSTANTS
  Nodes = {n1, n2}
  Services = {s1, s2}
  Lexical <- TwoDomains
  Hosts <- FourHosts
  China <- InChina
  Inputs <- AllInputs
  Proxy = proxy
  Direct = directOutbound
  URLTest = urltest
  PublicDNS = publicDNS
  Invalid = invalid
  Absent = Absent
  Refused = Refused
SPECIFICATION Spec
INVARIANTS
  ClosestServiceWins
  PlanIsClosed
  AcceptedStaysAccepted
  ModeIsServed
  ControllerAgrees
\* A build returns.
CHECK_DEADLOCK FALSE
