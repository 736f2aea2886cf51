CONSTANTS
  g1 = g1
  g2 = g2
  l1 = l1
  l2 = l2
  None = None
  Goroutines <- MCGoroutines
  Loggers <- MCLoggers
  BufferSize = 1
  MaxEntries <- MCMaxEntries
  MaxClosers = 2
SPECIFICATION Spec
CHECK_DEADLOCK FALSE
INVARIANT FlushWaits
