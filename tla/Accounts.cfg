CONSTANTS
  Users = {u1, u2}
  Sessions = {s1, s2}
  Emails = {e1}
  Passwords = {p1}
  Links = {t1}
  Codes = {k1}
  Challenges = {h1, h2}
  Keys = {y1}
  Calls = {c1, c2}
  None = None
SPECIFICATION Spec
CHECK_DEADLOCK FALSE
SYMMETRY RowSymmetry
INVARIANTS
  ActsOnOwnAccount
  SatisfiedEnrolled
  PasskeyFlagHonest
  DeletedAnnounced
  ChangedPasswordSignsOut
PROPERTIES
  RowsProtocol
