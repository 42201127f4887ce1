SPECIFICATION Spec
CONSTANTS
  Nodes = {n1, n2, n3, n4}
  Fds = {f1, f2}
  NULL = NULL
CHECK_DEADLOCK FALSE
INVARIANTS
  ListShape
PROPERTIES
  FaultsOnlyAtTheEnd
  HeadFreedOnlyByDelete
  WorksAtTheFront
