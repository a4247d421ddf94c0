SPECIFICATION FairSpec
CONSTANTS
  Tasks = {1, 2}
  Workers = {w1}
  MaxRetries = 3
  NoTask = NoTask
INVARIANTS
  RunsAccounted
PROPERTIES
  LedgerSpec
  PendingSettles
