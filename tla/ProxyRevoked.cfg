CONSTANTS
  n1 = n1
  n2 = n2
  u1 = u1
  ns1 = ns1
  ns2 = ns2
  ns3 = ns3
  c1 = c1
  c2 = c2
  c3 = c3
  Nodes = {n1}
  Users = {u1}
  NodeSockets = {ns1, ns2}
  Clients = {c1}
  CallIds = {k1}
  MaxRevocations = 2
  NodeOf <- OneNodeOf
  TargetOf <- OneTargetOf
  UserOf <- OneUserOf
  ConnOf <- OwnConn
  None = None
SPECIFICATION Spec
INVARIANTS
  BridgesEnforced
