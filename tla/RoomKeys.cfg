CONSTANTS
  Users = {u1, u2}
  Calls = {r1, r2}
  Blank = Blank
  MaxRow = 2
  MaxMoves = 2
  Families = {{"roomKey"}, {"chatKeys", "publicKey", "backup"}}
  None = None
SPECIFICATION Spec
SYMMETRY Symmetry
INVARIANTS
  TypeOK
  ChatKeysRight
PROPERTIES
  KeysSurviveSync
  SavedForMembers
  KeyRegisterSpec
CHECK_DEADLOCK FALSE
