CONSTANTS
  q1 = q1
  q2 = q2
  a = a
  b = b
  Query = {q1, q2}
  Question = {a, b}
  Asks <- MCAsks
  MaxCalls = 3
  IdCount = 2
  StreamAttempts = 2
  MaxLinks = 2
  None = None
  TxId = {1}
  Size = 2
  Life = {2}
  Sample = 8
  MaxSocks = 3
  MaxUdpCalls = 2
SPECIFICATION MCSpec
INVARIANT LinksSound
PROPERTIES TransportsExchange WorkingLinkKept
CHECK_DEADLOCK FALSE
