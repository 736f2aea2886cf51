CONSTANTS
  m1 = m1
  m2 = m2
  cl1 = cl1
  cl2 = cl2
  d1 = d1
  d2 = d2
  d3 = d3
  keyA = keyA
  keyB = keyB
  None = None
  Managers <- MCManagers
  Clients <- MCClients
  Discoveries <- MCDiscoveries
  KeyOf <- MCKeyOf
  CloseMayFail = FALSE
  StaleCapture = TRUE
SPECIFICATION Spec
SYMMETRY Symmetry
CHECK_DEADLOCK FALSE
INVARIANT ClosedOnlyWhenUnreferenced
