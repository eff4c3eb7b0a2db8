SPECIFICATION BoundedFairSpec
CONSTANTS
  l1 = l1
  l2 = l2
  c1 = c1
  c2 = c2
  s1 = s1
  Listener <- MCListener
  Conn <- OneConn
  Stopper <- MCStopper
  WithComplete = TRUE
  MaxHandlers = 1
INVARIANT NobodyBlocks
PROPERTIES ConnEnds ShutdownReturns StoppedServeReturns
CHECK_DEADLOCK FALSE
