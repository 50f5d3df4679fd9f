SPECIFICATION FairSpec
CONSTANTS
  Marks = {"gate", "probeLoad"}
  NoMark = "none"
  MaxRequests = 2
  UserActs = {"toggle", "focal", "save"}
  NetCommands = TRUE
PROPERTIES
  MailboxService
  FpgaResumes
  SaveEnds
