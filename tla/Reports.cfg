CHECK_DEADLOCK FALSE
CONSTANTS
  PeerNodes = {x1, x2, x3}
  Machines = {y1, y2}
  NoId = NoId
  MaxReports = 3
  MaxPeers = 1
  SystemUpdates = {s1}
  AppUpdates = {a1}
  Pools = {p1}
  Watchers = {u1}
  Endpoints = {e1}
  NoticeCalls = {y1, y2}
  Nobody = Nobody
  Window = 2
  Retention = 2
  Recordings = {y1, y2}
  MaxTime = 7
  MaxEvents = 3
  Domain = {f1, f2}
  ChallengeRows = {x1, x2, x3}
  AcmeCalls = {y1, y2}
  IssuanceLimit = 1
  NoName = NoName
SPECIFICATION Spec
SYMMETRY ReportSymmetry
INVARIANTS
  ClustersCorrect
  NewsTold
  SegmentsCorrect
  IssuanceBounded
