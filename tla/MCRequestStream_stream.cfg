SPECIFICATION FairSpec
CONSTANTS
  Requests = {r1}
  Publishers = {p1, p2}
  OutboxSize = 1
  MaxChanges = 1
  Consumers = {c1}
  MaxQueue = 1
  SendBuffer = 2
  None = None
INVARIANT StreamAgrees
PROPERTY OutboxDrains
CHECK_DEADLOCK FALSE
