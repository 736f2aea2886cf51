CONSTANTS
  m1 = m1
  m2 = m2
  cl1 = cl1
  cl2 = cl2
  d1 = d1
  d2 = d2
  d3 = d3
  keyA = keyA
  keyB = keyB
  s1 = s1
  g1 = g1
  g2 = g2
  x1 = x1
  p1 = p1
  p2 = p2
  p3 = p3
  o1 = o1
  o2 = o2
  o3 = o3
  None = None
  Managers <- MCManagers
  Clients <- MCClientIds
  Discoveries <- MCDiscoveries
  KeyOf <- MCKeyOf
  CloseMayFail = TRUE
  StaleCapture = TRUE
  Services <- MCServices
  Getters <- MCGetters
  Connectors <- MCConnectors
  Pools <- MCPools
  MaxGeneration = 2
  MaxFlights = 2
  Objects <- MCObjects
  ConfigOf <- MCConfigOf
  Callers <- MCGetters
  MaxConns = 3
SPECIFICATION ModelSpec
SYMMETRY Symmetry
CHECK_DEADLOCK FALSE
INVARIANTS
  TableIsExact
  DiscoveriesAreManaged
  NoPoolLeaks
  NoPoolFromThePast
  ReferencesBalanced
  ConnectionsAreOwned
  ReturnedClientIsOfItsCall
