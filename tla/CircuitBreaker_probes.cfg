CONSTANTS
  c1 = c1
  c2 = c2
  c3 = c3
  Calls <- MCCalls
  FailureThreshold = 1
  SuccessThreshold = 2
  HalfOpenMaxReqs = 1
  OpenDuration = 1
  MayAbandon = FALSE
SPECIFICATION Spec
INVARIANT ConcurrentProbesBounded
