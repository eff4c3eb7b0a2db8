SPECIFICATION Spec
CONSTANTS
  l1 = l1
  l2 = l2
  c1 = c1
  c2 = c2
  s1 = s1
  Listener <- MCListener
  Conn <- OneConn
  Stopper <- MCStopper
  WithComplete = FALSE
  MaxHandlers = 0
INVARIANTS MapsReachLive ShutdownMeansDrained
PROPERTIES ImplementsGracefulStop
CHECK_DEADLOCK FALSE
