SPECIFICATION FairSpec
CONSTANTS
  t1 = t1
  t2 = t2
  t3 = t3
  a = a
  b = b
  c = c
  j1 = j1
  j2 = j2
  w1 = w1
  w2 = w2
  n1 = n1
  n2 = n2
  None = None
  Threads = {t1, t2, t3}
  Axes <- TwoAxes
  Timelines <- TwoTimelines
  Bridged = {a}
  Late = {c}
  Capacity = 4
  ChunkSize = 1
  MaxEpoch = 9
  Waiters = {w1, w2}
  Joins = {n1, n2}
  Scripts <- AllScripts
INVARIANTS WaitersAreServed AnswersAreTrue JoinIsSound StorageIsSafe
PROPERTIES TrackerDrains
CHECK_DEADLOCK FALSE
