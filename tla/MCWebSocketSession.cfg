SPECIFICATION FairSessionSpec
CONSTANTS
  Interval = 1
  Timeout = 0
  QueueSize = 1
  MaxInbox = 1
INVARIANTS
  OneFrameAfterClose
PROPERTIES
  HeartbeatJustified
  SessionEnds
