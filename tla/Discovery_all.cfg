CONSTANTS
  loop = loop
  sub = sub
  n1 = n1
  Loop <- loop
  Sub <- sub
  Nudges <- MCNudges
  MaxRev = 2
  Together = FALSE
SPECIFICATION FairSpec
CHECK_DEADLOCK FALSE
INVARIANTS
  QuietAfterClose
PROPERTIES
  EventuallyCurrent
  ImplementsFeed
  ClosingEndsWatches
