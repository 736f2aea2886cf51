CONSTANTS
  c1 = c1
  c2 = c2
  o1 = o1
  o2 = o2
  Callers <- MCCallers
  Clients <- MCClients
  MaxLoops = 2
SPECIFICATION Spec
CHECK_DEADLOCK FALSE
INVARIANT
  WaitGroupNotReused
