SPECIFICATION Spec
CONSTANTS
  Marks = {"start", "focalDepth", "scanData", "probeLoad", "setup"}
  NoMark = "none"
  MaxRequests = 2
  UserActs = {"toggle", "focal", "redraw", "save"}
  NetCommands = TRUE
INVARIANTS
  TypeOK
  NoDrawingDuringResponse
  OwedRedraw
PROPERTIES
  SaveQuiet
