SPECIFICATION Spec
CONSTANTS
  Callers = {c1, c2}
  Requests = 2
  Window = 4
  Second = 2000
  Steps = {1999, 2000}
  PruneAge = 13000
  MaxLag = 2000
  MaxTime = 16000
  Nobody = Nobody
SYMMETRY MCSymmetry
INVARIANTS
  AdmissionBound
  RetryAdviceSuffices
