\* Two producers, a flusher whose timeout may expire, two callers of shutdown().
SPECIFICATION FairSpec
CONSTANTS
  p1 = p1  p2 = p2  f1 = f1  f2 = f2  s1 = s1  s2 = s2
  None = None
  Producers = {p1, p2}
  Flushers = {f1}
  TimedFlushers = {f1}
  Shutdowners = {s1, s2}
  QueueSize = 1
  NumDocs = 1
INVARIANTS UnfinishedIsOutstanding FlushBarrier SentinelDrains
PROPERTIES PipeSafety PipeLiveness CallReturns FlushReturns
\* The threads stop when the documents are offered and shutdown() has returned.
CHECK_DEADLOCK FALSE
