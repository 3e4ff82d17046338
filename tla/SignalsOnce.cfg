\* One rule, two calls, two attempts of each, one kill: what becomes of an order.
CONSTANTS
  Rules = {r1}
  None = None
  MaxAge = 1
  Cooldown = 1
  KeyOpens = TRUE
  MaxCalls = 2
  MaxOrders = 4
  MaxEdits = 1
  MaxCrashes = 1
SPECIFICATION Spec
INVARIANTS OneOrderPerCall AccountedOnce NoStrayMarker
PROPERTIES MarkerLiftedKnowingly DeletedSendsNothing ImplementsLedger
CHECK_DEADLOCK FALSE
