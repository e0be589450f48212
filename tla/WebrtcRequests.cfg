CONSTANTS
  n1 = n1
  u1 = u1
  u2 = u2
  l1 = l1
  l2 = l2
  ns1 = ns1
  ns2 = ns2
  c1 = c1
  c2 = c2
  Nodes = {n1}
  Users = {u1, u2}
  Logins = {l1, l2}
  NodeSockets = {ns1}
  Clients = {c1, c2}
  SessionIds = {s1, s2}
  Slots = {r1, r2}
  MaxSessions = 1
  MaxRevocations = 0
  NodeOf <- HomeNodeOf
  Registering = {ns1}
  TargetOf <- HomeTargetOf
  UserOf <- AwayUserOf
  LoginOf <- HomeLoginOf
  ConnOf <- OwnConn
  DbFails = TRUE
  None = None
SPECIFICATION Spec
SYMMETRY IdSymmetry
INVARIANTS
  TypeOK
  SessionsMatchClients
  LoginsEnforced
PROPERTIES
  CapHeld
