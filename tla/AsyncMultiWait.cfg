SPECIFICATION FairWaitSpec
CONSTANTS
  t1 = t1
  t2 = t2
  t3 = t3
  s1 = s1
  s2 = s2
  p1 = p1
  p2 = p2
  p3 = p3
  a = a
  b = b
  Threads = {t1, t2, t3}
  Semaphores = {s1, s2}
  Timepoints = {p1, p2, p3}
  Axes = {a, b}
  FrontierCapacity = 1
  InlineCapacity = 1
  Failures = {"e1", "e2"}
  Scripts <- AllScripts
INVARIANTS NoTimepointIsStranded WaitOutlivesCallbacks WaitResultIsTrue
PROPERTIES ImplementsTimeline WaitReturns
CHECK_DEADLOCK FALSE
