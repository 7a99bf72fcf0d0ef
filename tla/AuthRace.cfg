CONSTANTS
  Requests = {r1, r2}
  Emails = {e1, e2}
  Names = {n1}
  Passwords = {p1}
  Tokens = {t1, t2, t3}
  None = None
  Malformed = Malformed
  Invalid = Invalid
  TooLong = TooLong
  Faults = TRUE
SPECIFICATION Spec
SYMMETRY Symmetry
INVARIANTS
  TypeOK
  RotationOrder
  NoSilentLoss
  ForkNeedsContention
PROPERTIES
  LogoutFinal
  SessionsSpec
CHECK_DEADLOCK FALSE
