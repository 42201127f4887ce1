SPECIFICATION Spec
CONSTANTS
  Conns = {c1, c2}
  Fds = {f1, f2}
  MaxRequests = 2
  Servers = {s1, s2}
  Minute = 2
  FirstSecond = 1
  MaxClock = 2
CHECK_DEADLOCK FALSE
SYMMETRY Symmetry
INVARIANTS
  TypeOK
  RepliesComeAfterTheLog
  SendsKeepUp
  DescriptorsTellApart
  StampsTrue
