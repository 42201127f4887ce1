SPECIFICATION Spec
CONSTANTS
  Conns = {1, 2, 3, 4}
  MAX_CLIENTS = 3
  MAX_WORK = 2
CHECK_DEADLOCK FALSE
INVARIANTS
  TypeOK
  OpenWithinLimit
  FirstComersOnly
  WorkAccounting
PROPERTIES
  ResetEndsServer
