CONSTANTS
  MaxStoreIndex = 3
  StepsPerResolution = 1
  ScanZeroIndexOffset = 0
  EncoderCounts = {1}
  Sources = {0,1}
  ClearLimit = 2
  ResetLimit = 4
  ScanStepQty = 3
  StoreLag = 0
  MaxFrames = 5
  MaxRestarts = 1
  MaxActs = 3
SPECIFICATION FileSpec
INVARIANTS FileTypeOK SavedInOrder RecallShowsFile FileMarksGone
CHECK_DEADLOCK FALSE
