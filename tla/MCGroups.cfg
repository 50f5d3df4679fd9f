CONSTANTS
  MaxGroups = 3
  Beams = {1, 2}
  GroupBeams = 2
  TotalBeams = 4
  Owners = {g1, g2, g3, g4}
  NoOwner = NoOwner
  NetOverlaps = FALSE
SPECIFICATION Spec
INVARIANTS TypeOK NoGroupLost WizardEditsItsGroup CurrentGroupExists
PROPERTIES LimitsRespected LawsFollow
CHECK_DEADLOCK FALSE
SYMMETRY OwnerSymmetry
