CONSTANTS
  s1 = s1
  k1 = k1
  k2 = k2
  x1 = x1
  x2 = x2
  x3 = x3
  Conns = {k1, k2}
  Sockets = {x1, x2, x3}
  ConnOf <- PageConnOf
  Proxied = {x2, x3}
  Sessions = {s1}
  CookieOf <- SameCookieOf
  MaxDue = 1
SPECIFICATION FairSpec
INVARIANTS
  SessionsCutOff
PROPERTIES
  ExpiredCutOff
  DeadUntracked
  RowsProtocol
