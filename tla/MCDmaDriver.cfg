CONSTANTS
  MaxStoreIndex = 2
  StepsPerResolution = 2
  ScanZeroIndexOffset = 1
  EncoderCounts <- MCEncoderCounts
  Sources = {0, 1}
  ClearLimit = 2
  ResetLimit = 3
  ScanStepQty = 1
  StoreLag = 1
  MaxFrames = 5
  MaxRestarts = 1
SPECIFICATION Spec
INVARIANTS TypeOK RecordedWhole TimerChronological MarkedIsRecorded NoHoles EncoderAtOwnPosition
PROPERTIES StoreChannelExclusive RecordsLog
CHECK_DEADLOCK FALSE
