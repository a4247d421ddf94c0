SPECIFICATION FairSpec
CONSTANTS
  Conns = {c1, c2}
  Workers = {w1, w2}
  MaxConnections = 1
  MaxKeepAlive = 2
  TaskLists <- MCTaskLists
  TaskJob = TaskJob
  Idle = Idle
INVARIANTS
  LostPermitOnlyAtExit
  OneLateRequest
  PermitConservation
  KeepAliveFraming
  ShutdownQuiescence
PROPERTIES
  QueuedIsClosed
  StopLeadsToExit
