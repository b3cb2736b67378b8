CONSTANTS
  q1 = q1
  q2 = q2
  a = a
  b = b
  Query = {q1, q2}
  Question = {a, b}
  Asks <- MCAsks
  TxId = {1}
  Size = 2
  Life = {2}
  Sample = 8
  MaxSocks = 3
  MaxCalls = 3
  None = None
SPECIFICATION Spec
INVARIANT FixedSet
CHECK_DEADLOCK FALSE
