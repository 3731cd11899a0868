SPECIFICATION Spec
CONSTANTS
  p1 = p1
  p2 = p2
  WorkerCount = 2
  Producers = {p1, p2}
  Budgets = {1}
  WakeFanout = 1
  Releasers = {}
  Keeps = {FALSE}
  ProducerCalls = 1
  WorkerCalls = 0
  MaxCalls <- CallBounds
SYMMETRY Symmetry
INVARIANTS FreeWorkerScans
CHECK_DEADLOCK FALSE
