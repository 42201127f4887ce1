SPECIFICATION QueueSpec
CONSTANTS
  Nodes = {n1, n2, n3}
  Fds = {f1, f2}
  NULL = NULL
  MaxJobs = 4
CHECK_DEADLOCK FALSE
INVARIANT UndisturbedWorkerFails
PROPERTY NewestJobUnanswered
