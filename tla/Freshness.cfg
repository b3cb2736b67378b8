CONSTANTS
  w1 = w1
  w2 = w2
  k1 = k1
  k2 = k2
  k3 = k3
  s1 = s1
  Sibling = {w2}
  Source = {s1}
  NoSource = NoSource
  Rule = {"r1"}
  Groups = TRUE
  Worker = {w1, w2}
  Primary = w1
  Key = {k1, k2, k3}
  TTL = {1}
  MinTTL = 0
  MaxTTL = 2
  NegativeTTL = 1
  StaleMax = 1
  MaxEntries = 2
  None = None
SPECIFICATION MCSpec
SYMMETRY Symmetry
INVARIANTS AnswersCurrent BuildsSound TrustedIsWhole
PROPERTY PrimaryGuarded
