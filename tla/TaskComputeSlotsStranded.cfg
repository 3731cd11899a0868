SPECIFICATION Spec
CONSTANTS
  p1 = p1
  p2 = p2
  Processes = {p1, p2}
  Workers = {w1, w2, w3}
  Schedulers = {s1, s2}
  Clients <- Competing
  None = None
SYMMETRY Symmetry
CHECK_DEADLOCK FALSE
INVARIANT OverflowIsPromoted
