CONSTANTS
  q1 = q1
  q2 = q2
  c1 = c1
  c2 = c2
  n1 = n1
  p1 = p1
  p2 = p2
  f1 = f1
  f2 = f2
  f3 = f3
  Query = {q1, q2}
  Client = {c1, c2}
  Name = {n1}
  Policy = {p1, p2}
  Filter = {f1, f2, f3}
  Blocks <- MCBlocks
  ClientBlocks <- MCClientBlocks
  MaxEntries = 1
  MaxInflight = 1
  Events = {"swap", "pause", "toggle", "clients", "flush"}
  Addr = {"lan", "far"}
  Proxy = {"px"}
  Claims <- MCClaims
  Lan = {"lan"}
  Refresh = 2
  MaxMemo = 1
  Rate = 1
  Burst = 2
  MaxKeys = 1
  Idle = 2
  ZoneName = {"zone"}
  DeviceName = {}
  LocalName = {"local"}
  BlockedName = {}
  RandomName = {"r1", "r2"}
  PlainName = {}
  RoutedName = {"local"}
  RouteServer = "lan"
  BurstNames = 2
  BurstWindow = 1
  MaxClients = 1
  Settings = {{"limit"}, {"acl"}, {"dga"}}
  MaxTime <- MCMaxTime
  Device = {"a1", "a2", "a3"}
  Label = {"n"}
  Ttl = 2
  NegativeTtl = 1
  MaxNames = 2
  PerSweep = 2
  Concurrency = 2
  LastTick = 3
  MaxAdopts = 1
  Pool <- MCPool
  Question <- MCQuestion
  MaxRules = 3
  Domain = {"d1", "d2", "d3"}
  Sources = {"s1", "s2"}
  Slots = 4
  MaxItems = 3
  Letter = {"p", "q"}
  MaxText = 5
  None = None
SPECIFICATION MCSpec
INVARIANTS ReplayTableSound FilterIsExact VerdictsJustified
PROPERTY DeviceNamesKept
CHECK_DEADLOCK FALSE
