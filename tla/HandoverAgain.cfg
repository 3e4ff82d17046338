\* The owner runs handback again after Rails took the install back.
CONSTANTS
  StopJobs = {s1}
  Calls = {c1}
  IndexBots = {b1}
  Processes = {p1}
  None = None
  Again = TRUE
  MaxRows = 1
  MaxTime = 5
SPECIFICATION Spec
INVARIANT WindowCollected
CHECK_DEADLOCK FALSE
