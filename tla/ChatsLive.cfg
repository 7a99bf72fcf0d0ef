CONSTANTS
  Users = {u1, u2, u3}
  Calls = {r1, r2}
  Bodies <- EveryoneBodies
  MaxChat = 2
  MaxFailures = 1
  None = None
SPECIFICATION FairSpec
PROPERTIES
  CallsReturn
CHECK_DEADLOCK FALSE
