SPECIFICATION Spec
CONSTANTS
  Session = {"s1"}
  Task = {"t1"}
  AppKey = {"k1"}
INVARIANTS AgentRequestedReturnsTrue
CHECK_DEADLOCK FALSE
