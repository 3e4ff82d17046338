\* Two orders, a cap raised and lowered, two starts, one death.
CONSTANTS
  Orders = {o1, o2}
  Caps = {1, 2}
  MaxStarts = 2
  MaxEdits = 2
  MaxCrashes = 1
  None = None
SPECIFICATION FairSpec
INVARIANT StopsMatchCallbacks
PROPERTY CapStops
CHECK_DEADLOCK FALSE
