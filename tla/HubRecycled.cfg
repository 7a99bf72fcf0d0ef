CONSTANTS
  Users = {u1}
  Clients = {c1, c2}
  Requests = {}
  SendCap = 1
  None = None
SPECIFICATION Spec
INVARIANTS
  OneConnection
CHECK_DEADLOCK FALSE
