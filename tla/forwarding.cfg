SPECIFICATION MCSpec
CONSTANTS
  c1 = c1
  c2 = c2
  p1 = p1
  l1 = l1
  l2 = l2
  None = None
  Conn <- MCConn
  Path <- MCPath
  Addr <- MCAddr
  Listener <- MCListener
INVARIANTS OpenIsRegistered NoStaleEntry CancelFreesPath TCPEntriesExact NoForwardBlocks
PROPERTIES ForwardEnds TCPEndsWithConn
CHECK_DEADLOCK FALSE
