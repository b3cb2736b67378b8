CONSTANTS
  Order <- MCOrder
  Ns = "ns"
  Signed = FALSE
  Modulus = 8
  FirstSerial = 6
  MaxJournal = 2
  PerMsg = 2
  Fudge = 1
  Messages <- MCMessages
  MaxTime = 3
  MaxFaults = 2
  None = None
SPECIFICATION Spec
INVARIANT MirrorExact
CHECK_DEADLOCK FALSE
