SPECIFICATION Spec
CONSTANTS
  Conns = {c1, c2, c3}
  MAX_CLIENTS = 3
  MAX_WORK = 2
  MaxChunks = 1
CHECK_DEADLOCK FALSE
PROPERTY RefusedOnlyWhenFull
