SPECIFICATION Spec
CONSTANTS
  Marks = {"gate"}
  NoMark = "none"
  MaxRequests = 1
  UserActs = {"toggle"}
  NetCommands = FALSE
INVARIANTS
  FpgaFollowsFreeze
