SPECIFICATION ReturningSpec
CONSTANTS
  p1 = p1
  p2 = p2
  WorkerCount = 2
  Producers = {p1}
  Budgets = {1}
  WakeFanout = 1
  Releasers = {p1}
  Keeps = {FALSE, TRUE}
  ProducerCalls = 1
  WorkerCalls = 0
  MaxCalls <- CallBounds
INVARIANTS FinalizeIsSafe
PROPERTIES ShutdownCompletes WakesSettle
CHECK_DEADLOCK FALSE
