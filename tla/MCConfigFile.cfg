CONSTANTS
  MaxGroups = 3
  Values = {"blank", "set"}
  Blank = "blank"
  Files <- SavedFiles
  MaxEdits = 2
  MaxStarts = 2
SPECIFICATION Spec
INVARIANTS TypeOK CurrentExists
PROPERTY StartsWhole
CHECK_DEADLOCK FALSE
