\* Two subscriptions; the limits of the code for retries and redirects.
SPECIFICATION Spec
CONSTANTS
  Ids = {s1, s2}
  Absent = absent
  Retries = 2
  MaxRequests = 5
  MaxBody = 2
  Inputs <- MCInputs
  Exchanges <- MCExchanges
  NodeTypes <- MCTypes
  CountryCodes <- MCCountries
  Addresses <- MCAddresses
  Literals <- MCLiterals
INVARIANTS
  IdentityIsUnique
  AvailableIsUsable
  RestartRestores
  EndpointsFollowPool
  ExchangesAreSound
PROPERTY RenamingKeepsIdentity
CHECK_DEADLOCK FALSE
