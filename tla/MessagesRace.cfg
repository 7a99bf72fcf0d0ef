CONSTANTS
  Users = {u1, u2}
  Chats = {c1}
  Calls = {r1, r2}
  MaxId = 1
  MaxFailures = 0
  MaxMoves = 0
  None = None
  Gone = Gone
  Blank = Blank
SPECIFICATION Spec
SYMMETRY Symmetry
INVARIANTS
  TypeOK
  ScreensCurrent
  EditTakesEffect
PROPERTIES
  AuthorOnly
  ReturnsByStaleSave
  SilenceExplained
CHECK_DEADLOCK FALSE
