CONSTANTS
  t1 = t1
  t2 = t2
  p1 = p1
  p2 = p2
  n1 = n1
  n2 = n2
  Task = {t1, t2}
  Prefix = {p1, p2}
  Slots = 1
  Threshold = 1
  Base = 1
  MaxDelay = 2
  Window = 1
  Memory = 3
  Spelling = {0, 1}
  Bare = 0
  KnownPrefixes = 1
  SessionTtl = 1
  MaxTime = 2
  MaxAttempts = 2
  MaxChanges = 1
  Mac = {"a", "b"}
  Ip = {1, 2}
  Reservation <- MCReservation
  Host <- MCHost
  Static = {"wpad"}
  LeaseTime = 2
  OfferHold = 1
  OfferCap = 1
  MaxLeases = 1
  MaxEntries = 2
  LastTick = 3
  First = 1
  Index <- MCIndex
  Channel = "prerelease"
  Mode = "auto"
  CanApply = TRUE
  MaxBuilds = 1
  MaxFaults = 2
  MaxSaves = 1
  MaxAsks = 2
  Broken = Broken
  Name = {n1, n2}
  MaxPairs = 3
  MaxBoots = 2
  Torn = Torn
  None = None
SPECIFICATION MCSpec
SYMMETRY Symmetry
INVARIANTS AttemptsLimited LeasesExclusive InstalledIsVetted RenewalsAreWhole
CHECK_DEADLOCK FALSE
