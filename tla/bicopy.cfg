SPECIFICATION FairSpec
CONSTANTS
  User <- AllUsers
  MaxData = 2
  Window = 1
INVARIANTS DoneIsClean AbortInterrupts
PROPERTIES HandlerReturns ImplementsRelay
CHECK_DEADLOCK FALSE
