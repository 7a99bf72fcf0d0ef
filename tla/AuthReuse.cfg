CONSTANTS
  Requests = {r1, r2}
  Emails = {e1}
  Names = {n1}
  Passwords = {p1}
  Tokens = {t1, t2, t3}
  None = None
  Malformed = Malformed
  Invalid = Invalid
  TooLong = TooLong
  Faults = FALSE
SPECIFICATION Spec
SYMMETRY Symmetry
INVARIANTS
  SingleUse
CHECK_DEADLOCK FALSE
