CHECK_DEADLOCK FALSE
CONSTANTS
  Users = {u1, u2}
  Nodes = {n1, n2}
  Names = {f1, f2}
  Clusters = {k1, k2}
  Calls = {c1, c2}
  MaxDeleted = 1
  None = None
SPECIFICATION Spec
SYMMETRY RowSymmetry
INVARIANTS
  TypeOK
  ClusterOfOwner
PROPERTIES
  PublicStays
