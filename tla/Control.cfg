CONSTANTS
  Worker = {1, 2}
  Primary = 1
  Handlers = {1, 2}
  MaxSaves = 2
  None = None
SPECIFICATION MCSpec
INVARIANT MirrorSound
PROPERTIES ChangesArrive ServiceStops
CHECK_DEADLOCK FALSE
