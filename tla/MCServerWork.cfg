SPECIFICATION SafetySpec
CONSTANTS
  Conns = {c1, c2, c3}
  MAX_CLIENTS = 3
  MAX_WORK = 2
  MaxChunks = 2
SYMMETRY Symmetry
CHECK_DEADLOCK FALSE
INVARIANTS
  TypeOK
  WorkAccounting
PROPERTIES
  WorksWithinLimit
