CONSTANTS
  a1 = a1
  a2 = a2
  l1 = l1
  l2 = l2
  l3 = l3
  w1 = w1
  w2 = w2
  None = None
  Done = Done
  Addresses <- MCAddresses
  Leases <- MCLeases
  Loops <- MCLoops
SPECIFICATION FairSpec
CHECK_DEADLOCK FALSE
INVARIANTS
  RegistrationIsKept
  NoResurrection
PROPERTIES
  RegisteredServiceReturns
  StaleKeysVanish
