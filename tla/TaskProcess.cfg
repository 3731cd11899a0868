SPECIFICATION FairSpec
CONSTANTS
  p1 = p1
  p2 = p2
  Processes = {p1, p2}
  Workers = {w1, w2}
  Callers = {c1, c2}
  NoProcess = NoProcess
  Dependents <- JoinDependents
  ExternalWakes <- JoinWakes
  Cancellable = {p1, p2}
  MaxCalls = 1
INVARIANTS TypeOK SingleHolder NoAccessAfterRelease NoLostWake CompletedOnce
  DependencyOrder
PROPERTIES DependentsActivate
CHECK_DEADLOCK FALSE
