SPECIFICATION FairSpec
CONSTANTS
  Submissions = {s1, s2}
  Consumers = {c1, c2}
INVARIANTS StatusTakenOnce
PROPERTIES TeardownCompletes
CHECK_DEADLOCK FALSE
