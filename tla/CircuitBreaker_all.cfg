CONSTANTS
  c1 = c1
  c2 = c2
  c3 = c3
  Calls <- MCCalls
  FailureThreshold = 2
  SuccessThreshold = 3
  HalfOpenMaxReqs = 2
  OpenDuration = 2
  MayAbandon = TRUE
SPECIFICATION FairSpec
INVARIANTS
  NoLeftoverCounts
  ProbesAreExact
PROPERTY HealedCircuitCloses
