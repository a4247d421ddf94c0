SPECIFICATION ReaderSpec
CONSTANTS
  Requests <- MCRequests
  RecvSize = 3
  MaxHead = 3
  MaxLine = 2
  MaxBody = 3
  HeadIdle = 1
  BodyIdle = 2
  Absolute = 3
  MaxSent = 2
INVARIANTS
  
  DeadlineKept
  ParsedAsSent
CHECK_DEADLOCK FALSE
