CONSTANTS
  k1 = k1
  k2 = k2
  k3 = k3
  c1 = c1
  c2 = c2
  n1 = n1
  n2 = n2
  r1 = r1
  r2 = r2
  None = None
  NoName = NoName
  Boot = boot
  Components <- MCComponents
  Enabled <- MCEnabled
  Configured <- MCConfigured
  Callers <- MCCallers
  MaxSockets = 2
  Names <- MCNames
  Configs <- MCConfigs
  Replicas <- MCReplicas
  MaxClients = 3
  Addresses <- MCAddresses
  Weights <- MCWeights
  maxServiceWeight = 4
  Capacity = 2
  Rate = 1
  Window = 2
  Amounts <- MCAmounts
  MaxTime = 4
  MaxAttempts = 4
  InitialDelays <- MCInitial
  MaxDelays <- MCMax
  Largest = 15
SPECIFICATION ModelSpec
SYMMETRY MCSymmetry
CHECK_DEADLOCK FALSE
INVARIANTS
  NothingLeftBehind
  NoDoubleStopNoDoubleInit
  SocketsAreSettled
  RegisteredIsServed
  ClientsAreKept
  SharesAreFair
  NobodyLags
  LimitHolds
  LoopFollowsBackoff
PROPERTIES
  StopsComponentsInReverse
  CloseTellsTheTruth
