\* Two calls, two attempts of each, one kill, under FairSpec: every call ends.
CONSTANTS
  Rules = {r1}
  None = None
  MaxAge = 1
  Cooldown = 1
  KeyOpens = TRUE
  MaxCalls = 2
  MaxOrders = 4
  MaxEdits = 0
  MaxCrashes = 1
SPECIFICATION FairSpec
PROPERTY CallsEnd
CHECK_DEADLOCK FALSE
