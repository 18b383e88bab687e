\* Two servers, one after the other, under either host.
CONSTANTS
  Servers = {a, b}
  Tokens = {t1, t2}
  Host = Host
  Absent = Absent
  Stale = Stale
SPECIFICATION FairSpec
INVARIANTS
  TypeOK
  ServiceReachable
  StoppedIsReleased
  TokenStillValid
PROPERTIES
  StopReturns
  ManagersEnd
