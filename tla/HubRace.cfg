CONSTANTS
  Users = {u1, u2}
  Clients = {c1, c2}
  Requests = {r1}
  SendCap = 1
  None = None
SPECIFICATION Spec
SYMMETRY Symmetry
INVARIANTS
  TypeOK
  OnlineMatchesClients
  VisitsRegistered
  ClosedIsLeaving
  NoGhost
PROPERTIES
  PresenceSpec
  DeathExplained
CHECK_DEADLOCK FALSE
