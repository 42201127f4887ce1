SPECIFICATION SafetySpec
CONSTANTS
  Conns = {c1, c2, c3}
  MAX_CLIENTS = 2
  MAX_WORK = 2
  MaxChunks = 1
SYMMETRY Symmetry
CHECK_DEADLOCK FALSE
INVARIANT ClientLimit
