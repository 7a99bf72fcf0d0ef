CONSTANTS
  Users = {u1, u2}
  Readers = {u1}
  Conns = {c1, c2}
  Askers = {c1}
  Requests = {r1}
  MaxId = 1
  SendCap = 1
  MaxMoves = 1
  None = None
SPECIFICATION Spec
SYMMETRY Symmetry
INVARIANTS
  TypeOK
  ReceiptIsStored
  PresenceShown
PROPERTIES
  ReceiptReachesAll
CHECK_DEADLOCK FALSE
