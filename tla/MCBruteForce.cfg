SPECIFICATION Spec
CONSTANTS
  Callers = {c1, c2, c3}
  MaxAttempts = 2
  Block = 3
  PruneAge = 12
  MaxLag = 2
  MaxCount = 4
  Nobody = Nobody
SYMMETRY MCSymmetry
INVARIANTS
  FailuresCounted
  BlockRefusesLaterCalls
PROPERTIES
  FailuresKeepBlock
