\* A run with two streams, one of them not selected, and two threads that disconnect.
SPECIFICATION FairSpec
CONSTANTS
  catalog = catalog  run = run  primary = primary  baseline = baseline
  x = x  y = y  user = user  other = other
  None = None
  Nodes = {catalog, run, primary, baseline, x, y}
  Root = catalog
  Parent <- MCParent
  Data = {x, y}
  Selected = {catalog, run, primary, x, y}
  Callers = {user, other}
  MaxUpdates = 1
  MaxFaults = 2
INVARIANTS NoneLeftBehind SilentAfterDisconnect
PROPERTIES LeavesFirst DisconnectReturns
\* The manager is disconnected and all is quiet.
CHECK_DEADLOCK FALSE
