CHECK_DEADLOCK FALSE
CONSTANTS
  Users = {u1, u2}
  Nodes = {n1}
  Groups = {g1}
  Calls = {c1, c2}
  None = None
SPECIFICATION Spec
SYMMETRY RowSymmetry
INVARIANTS
  TypeOK
  OwnerKeepsGrant
  LostAccessCutOff
  AffectedRefreshed
