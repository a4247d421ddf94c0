SPECIFICATION Spec
CONSTANTS
  Tasks = {t1, t2, t3}
  Needs <- MCNeeds
  MaxConnections = 2
  MaxRequests = 2
SYMMETRY MCSymmetry
CHECK_DEADLOCK FALSE
INVARIANTS
  AnsweredInStep
PROPERTIES
  SingletonSettles
