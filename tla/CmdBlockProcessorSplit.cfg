SPECIFICATION Spec
CONSTANTS
  Workers = {w1, w2}
  p = p
  Params <- Buffers
  Recordings <- SplitRecordings
  InitialParams <- Zeroed
  NoParam = NoParam
  MaxDispatch = 2
  TileCapacity = 7
  Issuer = Issuer
  NoError = NoError
INVARIANT
  ClaimIsCurrent
CHECK_DEADLOCK FALSE
