SPECIFICATION Spec
CONSTANTS
  l1 = l1
  l2 = l2
  c1 = c1
  c2 = c2
  s1 = s1
  Listener <- OneListener
  Conn <- MCConn
  Stopper <- MCStopper
  WithComplete = TRUE
  MaxHandlers = 1
SYMMETRY Symmetry
INVARIANTS CountersMatch CallbackOrder DrainedIsClosed
CHECK_DEADLOCK FALSE
