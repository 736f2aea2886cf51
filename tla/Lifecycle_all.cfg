CONSTANTS
  h1 = h1
  h2 = h2
  h3 = h3
  c1 = c1
  c2 = c2
  w1 = w1
  w2 = w2
  k1 = k1
  k2 = k2
  o1 = o1
  None = None
  Hooks <- MCHooks
  Priority <- MCPriority
  Callers <- MCCallers
  Waiters <- MCWaiters
  Users <- MCUsers
  Checks <- MCChecks
  MaxConcurrent = 1
  MaySay <- MCMaySay
  Clients <- MCClients
  MaxLoops = 3
SPECIFICATION ModelSpec
CHECK_DEADLOCK FALSE
INVARIANTS
  HooksAreKept
  RunningBounded
  OneLoopToCancel
PROPERTIES
  RunsByPriority
  ShutdownReturns
  ReadyIsEarned
  ChecksReturn
  LoopServes
