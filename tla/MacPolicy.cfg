CONSTANTS
  Addr = {"a1", "a2", "a3"}
  Exact = "a1"
  MaxCache = 2
  MaxDevices = 2
  MaxTime = 3
  None = None
SPECIFICATION Spec
PROPERTY PolicyFollowsMac
CHECK_DEADLOCK FALSE
