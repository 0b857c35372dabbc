\* Two producers and one caller of shutdown().
SPECIFICATION FairSpec
CONSTANTS
  p1 = p1  p2 = p2  f1 = f1  f2 = f2  s1 = s1  s2 = s2
  None = None
  Producers = {p1, p2}
  Flushers = {}
  TimedFlushers = {}
  Shutdowners = {s1}
  QueueSize = 2
  NumDocs = 1
INVARIANT ShutdownDrains
\* The threads stop when the documents are offered and shutdown() has returned.
CHECK_DEADLOCK FALSE
