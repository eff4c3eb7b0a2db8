SPECIFICATION Spec
CONSTANTS
  l1 = l1
  l2 = l2
  c1 = c1
  c2 = c2
  s1 = s1
  Listener <- OneListener
  Conn <- MCConn
  Stopper <- MCStopper
  WithComplete = FALSE
  MaxHandlers = 0
INVARIANT ShutdownIsGraceful
CHECK_DEADLOCK FALSE
