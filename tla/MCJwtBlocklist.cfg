SPECIFICATION Spec
CONSTANTS
  t1 = t1
  t2 = t2
  t3 = t3
  p1 = p1
  p2 = p2
  Threads <- MCThreads
  Processes <- MCProcesses
  Owner <- MCOwner
  CacheTtl = 1
  Expiry = 2
  MaxTime = 3
  Nobody = Nobody
SYMMETRY MCSymmetry
INVARIANTS
  StalenessBounded
  RevokedAtOnceLocally
