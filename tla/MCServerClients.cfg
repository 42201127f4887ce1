SPECIFICATION Spec
CONSTANTS
  Conns = {c1, c2, c3}
  MAX_CLIENTS = 2
  MAX_WORK = 2
  MaxChunks = 1
CHECK_DEADLOCK FALSE
INVARIANTS
  ClientCeiling
  ClientAccounting
  OrderlyClientsLeaveNoTrace
PROPERTIES
  ServesWithinLimit
  EveryChunkAnswered
  DepartureNoticed
  MainReturns
