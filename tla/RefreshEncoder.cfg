SPECIFICATION Spec
CONSTANTS
  Marks = {"start"}
  NoMark = "none"
  MaxRequests = 1
  UserActs = {"toggle"}
  NetCommands = FALSE
INVARIANTS
  EncoderFollowsFreeze
