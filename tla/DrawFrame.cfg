CONSTANTS
  MaxStoreIndex = 0
  StepsPerResolution = 1
  ScanZeroIndexOffset = 0
  EncoderCounts = {0}
  Sources = {0}
  ClearLimit = 1
  ResetLimit = 1
  ScanStepQty = 0
  StoreLag = 1
  MaxFrames = 6
  MaxRestarts = 0
  Window = 1
  MaxToggles = 2
SPECIFICATION FairFrameSpec
INVARIANTS FrameTypeOK ClaimedNotOverwritten NewestShown
PROPERTY FrameTaken
CHECK_DEADLOCK FALSE
