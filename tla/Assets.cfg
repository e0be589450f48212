CONSTANTS
  n1 = n1
  r1 = r1
  r2 = r2
  None = None
  Buffered <- Documents
  Length <- TwoChunks
  Nodes = {n1}
  NodeSockets = {ns1, ns2}
  NodeOf <- OneNodeOf
  TargetOf <- OneTargetOf
  Requests = {r1, r2}
  Cap = 1
  Window = 2
SPECIFICATION FairSpec
INVARIANTS
  TypeOK
  ChunksInOrder
  PendingOnline
  DeliveredWhole
PROPERTIES
  RequestsSettleOnce
CHECK_DEADLOCK FALSE
