\* An order of two units, three reversals and one death of the engine.
CONSTANTS
  Orders = {o1}
  Size = 2
  MaxFlips = 3
  MaxCrashes = 1
  None = None
SPECIFICATION FairSpec
INVARIANTS CreditedRight
PROPERTIES SettledForGood ReservesSettle ImplementsReserves
CHECK_DEADLOCK FALSE
