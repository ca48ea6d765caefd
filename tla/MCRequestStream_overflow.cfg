SPECIFICATION FairSpec
CONSTANTS
  Requests = {r1, r2}
  Publishers = {p1, p2}
  OutboxSize = 1
  MaxChanges = 1
  Consumers = {}
  MaxQueue = 1
  SendBuffer = 2
  None = None
PROPERTY SnapshotFollows
CHECK_DEADLOCK FALSE
