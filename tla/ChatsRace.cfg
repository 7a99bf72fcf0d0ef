CONSTANTS
  Users = {u1, u2}
  Calls = {r1, r2}
  Bodies <- PairBodies
  MaxChat = 2
  MaxFailures = 0
  None = None
SPECIFICATION Spec
SYMMETRY Symmetry
INVARIANTS
  TypeOK
  MembersAreUsers
PROPERTIES
  
  AddedUnlessLeft
  DuplicateNeedsOverlap
CHECK_DEADLOCK FALSE
