CONSTANTS
  q1 = q1
  q2 = q2
  c1 = c1
  c2 = c2
  c3 = c3
  c4 = c4
  n1 = n1
  v1 = v1
  v2 = v2
  f1 = f1
  f2 = f2
  f3 = f3
  g1 = g1
  g2 = g2
  glob = glob
  net = net
  lan = lan
  k1 = k1
  k2 = k2
  u1 = u1
  u2 = u2
  Query = {q1, q2}
  Client = {c1, c2, c3, c4}
  Name = {n1}
  View = {v1, v2}
  DefaultView = v1
  Scope = {glob, net, lan}
  Global = glob
  Loopback = net
  FilterGroup = {g1, g2}
  DefaultGroup = g2
  GroupOf <- MCGroupOf
  SafeSearch = {c3}
  SafeTarget = {n1}
  Filter = {f1, f2, f3}
  ViewOf <- MCViewOf
  ScopeOf <- MCScopeOf
  Exempt = {c4}
  BlocksName <- MCBlocksName
  BlocksAnswer <- MCBlocksAnswer
  Prefetch = TRUE
  MaxPrefetch = 1
  Warmed = {n1}
  None = None
  Conn = {k1, k2}
  ClientOf <- MCClientOf
  MaxConnections = 2
  MaxPerClient = 1
  MaxInflight = 1
  Group <- MCGroup
  Rtt = {1, 2}
  MaxFailures = 1
SPECIFICATION MCSpec
INVARIANTS Coalesced CacheIsVetted OriginsStayApart CapsHold FailsOnlyAfterAll
PROPERTIES FailuresContained OwedAnswers NobodyWaits DemotionEnds
CHECK_DEADLOCK FALSE
