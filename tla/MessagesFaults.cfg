CONSTANTS
  Users = {u1, u2}
  Chats = {c1, c2}
  Calls = {r1}
  MaxId = 1
  MaxFailures = 1
  MaxMoves = 3
  None = None
  Gone = Gone
  Blank = Blank
SPECIFICATION Spec
SYMMETRY Symmetry
INVARIANTS
  AudienceRight
PROPERTIES
  StoredForMembers
  SilenceExplained
CHECK_DEADLOCK FALSE
