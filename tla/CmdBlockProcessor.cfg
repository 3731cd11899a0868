SPECIFICATION FairSpec
CONSTANTS
  Workers = {w1, w2}
  p = p
  Params <- Buffers
  Recordings <- SafeRecordings
  InitialParams <- Zeroed
  NoParam = NoParam
  MaxDispatch = 2
  TileCapacity = 7
  Issuer = Issuer
  NoError = NoError
INVARIANTS ExecutesEachTileOnce ClaimIsCurrent CompletionIsSound WarmWaiterMissesNothing
PROPERTIES RecordingCompletes
CHECK_DEADLOCK FALSE
