SPECIFICATION FairSpec
CONSTANTS
  k1 = k1
  k2 = k2
  None = None
  SigChan <- TwoChans
  Drained <- All
  BufSize = 2
  MaxSignals = 3
INVARIANTS SignalsInOrder NobodyBlocks
PROPERTIES UnregisteredIsQuiet BreakAnsweredFirst SessionExits WinchCloses SignalsReturns
CHECK_DEADLOCK FALSE
