SPECIFICATION FairSpec
CONSTANTS
  k1 = k1
  k2 = k2
  None = None
  SigChan <- OneChan
  Drained <- NoBreaks
  BufSize = 1
  MaxSignals = 1
PROPERTY ExitSendsAndCloses
CHECK_DEADLOCK FALSE
