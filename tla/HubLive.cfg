CONSTANTS
  Users = {u1}
  Clients = {c1}
  Requests = {r1, r2}
  SendCap = 1
  None = None
SPECIFICATION FairSpec
PROPERTIES
  BroadcastReturns
  LeavesTheMap
  ReaderFollowsWriter
CHECK_DEADLOCK FALSE
