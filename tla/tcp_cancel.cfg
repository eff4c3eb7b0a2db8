SPECIFICATION Spec
CONSTANTS
  c1 = c1
  a1 = a1
  l1 = l1
  l2 = l2
  None = None
  Conn <- OneConn
  Addr <- OneAddr
  Listener <- MCListener
INVARIANT CancelFreesPort
CHECK_DEADLOCK FALSE
