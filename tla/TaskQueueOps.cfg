SPECIFICATION FairSpec
CONSTANTS
  o1 = o1
  o2 = o2
  Ops <- TwoOps
  KindsOf <- Choices
  WaitsOf <- Waits
  Fallible = {o1, o2}
  NoOp = NoOp
INVARIANTS OperationsAreOwned OutcomeIsTrue ShutdownIsOrderly
PROPERTIES QueueShutsDown
CHECK_DEADLOCK FALSE
