SPECIFICATION FairSpec
CONSTANTS
  i1 = i1
  i2 = i2
  r1 = r1
  r2 = r2
  r3 = r3
  w1 = w1
  w2 = w2
  None = None
  Control = Control
  Workers = {w1, w2}
  Items = {i1, i2}
  Ready <- ThreeReady
  Rejectable = {r2}
  Pooled <- OnePooled
  Tiles <- TileCounts
  Faulty = {r2}
INVARIANTS ItemsAreOwned NoRecordingIsStranded OutcomeIsTrue
PROPERTIES EveryRecordingEnds
CHECK_DEADLOCK FALSE
