SPECIFICATION FairSpec
CONSTANTS
  Senders = {b1}
  Streams = {s1}
  Sockets = {k1}
  MaxQueue = 1
  Event = Event
  None = None
  Nobody = Nobody
INVARIANTS
  MembersAccounted
PROPERTIES
  NoGapPerSender
  ClosedIsCollected
  ClosedStreamEnds
