CONSTANTS
  n1 = n1
  u1 = u1
  u2 = u2
  l1 = l1
  l2 = l2
  ns1 = ns1
  ns2 = ns2
  c1 = c1
  c2 = c2
  Nodes = {n1}
  Users = {u1}
  Logins = {l1, l2}
  NodeSockets = {ns1}
  Clients = {c1}
  SessionIds = {s1}
  Slots = {r1}
  MaxSessions = 1
  MaxRevocations = 2
  NodeOf <- HomeNodeOf
  Registering = {}
  TargetOf <- HomeTargetOf
  UserOf <- HomeUserOf
  LoginOf <- HomeLoginOf
  ConnOf <- OwnConn
  DbFails = FALSE
  None = None
SPECIFICATION FairSpec
PROPERTIES
  ClientGoneReaped
  RevokedUserCutOff
