SPECIFICATION Spec
CONSTANTS
  p1 = p1
  p2 = p2
  Processes = {p1, p2}
  Workers = {w1, w2, w3}
  Schedulers = {s1, s2}
  Clients <- Everyday
  None = None
SYMMETRY Symmetry
CHECK_DEADLOCK FALSE
INVARIANTS OnePlacement ReleaseIsFinal AssertionsHold SettledWhenQuiet
