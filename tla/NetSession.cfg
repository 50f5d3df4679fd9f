CONSTANTS
  Conns = {c1, c2}
  NoConn = none
  MaxCommands = 2
  MaxSockets = 2
  Backlog = 2
  Blocks = 2
SPECIFICATION Spec
INVARIANTS TypeOK ActsOnce OrderlyPCsHarmless
PROPERTIES BlocksToEnabler Answered ServerFreed
CHECK_DEADLOCK FALSE
